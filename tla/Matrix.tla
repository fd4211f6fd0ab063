------------------------------- MODULE Matrix --------------------------------
(* The vectors (vector.c) and matrices (matrix.c) of Arsenal: a count, or    *)
(* rows and columns, and one block of numbers, row after row. A vector that  *)
(* grows is a new block whose numbers are not set, Garbage, until they are   *)
(* written. Operands and destinations are different objects; allocations     *)
(* succeed. What only goes wrong with the assertions of a debug build off    *)
(* has no operator here; epsilon is the tolerance of a comparison.           *)
EXTENDS Rationals, FiniteSets

CONSTANTS
    Garbage,    \* what a number that was not written may be
    DoubleSize  \* sizeof(double)

Numbers(count, value(_)) ==
    [count |-> count, v |-> Tabulate(0 .. count - 1, value)]

At(vec, i) == vec.v[i]
Put(vec, i, val) == [vec EXCEPT !.v[i] = val]

CreateVector(size) == Numbers(size, LAMBDA i : Zero)

SetVectorSize(vec, size) ==
    IF size > vec.count THEN Numbers(size, LAMBDA i : Garbage)
    ELSE Numbers(size, LAMBDA i : At(vec, i))

SetVectorData(vec, size, data) ==
    LET sized == SetVectorSize(vec, size)
    IN  Numbers(sized.count, LAMBDA i : data[i])

CopyVector(dest, src) == SetVectorData(dest, src.count, src.v)

Each(vec, to(_)) == Numbers(vec.count, LAMBDA i : to(At(vec, i)))

ZeroVector(vec) == Each(vec, LAMBDA x : Zero)
NegateVector(vec) == Each(vec, LAMBDA x : Neg(x))

Clamp(x, minval, maxval) ==
    IF Less(x, minval) THEN minval ELSE IF Less(maxval, x) THEN maxval ELSE x

ClampVector(vec, minval, maxval) == Each(vec, LAMBDA x : Clamp(x, minval, maxval))

SwapElements(vec, l, r) == Put(Put(vec, l, At(vec, r)), r, At(vec, l))

\* The numbers are compared by an absolute value that is then asked whether
\* it is negative: of two vectors that differ, either is the greater.
CompareVector(l, r, epsilon) ==
    IF \E i \in 0 .. l.count - 1 : Less(epsilon, AbsOf(At(l, i) -- At(r, i)))
    THEN 1 ELSE 0

InnerProduct(vec, other) == SumTo(vec.count, LAMBDA i : At(vec, i) ** At(other, i))

AddVectorByVectorSelf(vec, other) == Numbers(vec.count, LAMBDA i : At(vec, i) ++ At(other, i))
SubVectorByVectorSelf(vec, other) == Numbers(vec.count, LAMBDA i : At(vec, i) -- At(other, i))
MulVectorByValSelf(vec, val) == Each(vec, LAMBDA x : x ** val)
DivVectorByValSelf(vec, val) == MulVectorByValSelf(vec, Recip(val))

AddVectorByVector(vec, other, dest) == AddVectorByVectorSelf(CopyVector(dest, vec), other)
SubVectorByVector(vec, other, dest) == SubVectorByVectorSelf(CopyVector(dest, vec), other)
MulVectorByVal(vec, val, dest) == MulVectorByValSelf(CopyVector(dest, vec), val)
DivVectorByVal(vec, val, dest) == DivVectorByValSelf(CopyVector(dest, vec), val)

(***************************************************************************)
(* Lengths are kept as squares: of a length only the sign of its square    *)
(* and ratios matter here.                                                 *)
(***************************************************************************)
LengthSqr(vec) == InnerProduct(vec, vec)

\* The squares of the numbers of the normalized vector, with their signs.
NormalizedSquares(vec) ==
    LET len == LengthSqr(vec)
    IN  IF len = Zero THEN vec
        ELSE Each(vec, LAMBDA x : (x ** AbsOf(x)) ** Recip(len))

DistanceSqr(vec, other) == LengthSqr(SubVectorByVectorSelf(CopyVector(vec, vec), other))

\* The greatest and the least start from the first number as it is, not from
\* its absolute value.
NormMax(vec) ==
    Loop(LAMBDA s, k : IF Less(s, AbsOf(At(vec, k + 1))) THEN AbsOf(At(vec, k + 1)) ELSE s,
         At(vec, 0), vec.count - 1)
NormNegaMax(vec) ==
    Loop(LAMBDA s, k : IF Less(AbsOf(At(vec, k + 1)), s) THEN AbsOf(At(vec, k + 1)) ELSE s,
         At(vec, 0), vec.count - 1)
Norm1(vec) == SumTo(vec.count, LAMBDA i : AbsOf(At(vec, i)))

-----------------------------------------------------------------------------
(* Matrices.                                                                 *)

Cells(rows, cols, value(_)) ==
    [nrows |-> rows, ncols |-> cols, m |-> Tabulate(0 .. rows * cols - 1, value)]

Fill(rows, cols, value(_, _)) ==
    Cells(rows, cols, LAMBDA k : value(k \div cols, k % cols))

Val(mat, r, c) == mat.m[r * mat.ncols + c]

SetVal(mat, r, c, v) == [mat EXCEPT !.m[r * mat.ncols + c] = v]

Rows(mat) == 0 .. mat.nrows - 1
Cols(mat) == 0 .. mat.ncols - 1

CreateMatrix(rows, cols) == Fill(rows, cols, LAMBDA r, c : Zero)

\* What is kept is counted in numbers and copied in bytes.
SetMatrixSize(mat, rows, cols) ==
    LET old == mat.nrows * mat.ncols
        size == rows * cols
        kept == (IF size < old THEN size ELSE old) \div DoubleSize
    IN  IF mat.nrows = rows /\ mat.ncols = cols THEN mat
        ELSE Cells(rows, cols, LAMBDA k : IF k < kept THEN mat.m[k] ELSE Garbage)

SetMatrixData(mat, rows, cols, data) ==
    LET sized == SetMatrixSize(mat, rows, cols)
    IN  Cells(sized.nrows, sized.ncols, LAMBDA k : data[k])

CopyMatrix(dest, src) == SetMatrixData(dest, src.nrows, src.ncols, src.m)
CopyNewMatrix(mat) == CopyMatrix(CreateMatrix(mat.nrows, mat.ncols), mat)

\* 1 or -1 by the first numbers that differ by more than epsilon.
CompareMatrix(l, r, epsilon) ==
    LET apart == {k \in DOMAIN l.m : Less(epsilon, AbsOf(l.m[k] -- r.m[k]))}
        first == CHOOSE k \in apart : \A n \in apart : k <= n
    IN  IF apart = {} THEN 0
        ELSE IF Less(l.m[first] -- r.m[first], Zero) THEN 0 - 1 ELSE 1

(***************************************************************************)
(* Rows and columns                                                        *)
(***************************************************************************)
SetMatrixRow(mat, row, vec) ==
    Fill(mat.nrows, mat.ncols, LAMBDA r, c : IF r = row THEN At(vec, c) ELSE Val(mat, r, c))
SetMatrixColumn(mat, col, vec) ==
    Fill(mat.nrows, mat.ncols, LAMBDA r, c : IF c = col THEN At(vec, r) ELSE Val(mat, r, c))

GetMatrixRow(mat, row, out) ==
    LET sized == SetVectorSize(out, mat.ncols)
    IN  Numbers(sized.count, LAMBDA i : Val(mat, row, i))

\* The vector gets the size of a row; a column that is longer is written
\* past its end (here none), of a shorter one the rest stays as it was.
GetMatrixColumn(mat, col, out) ==
    LET sized == SetVectorSize(out, mat.ncols)
    IN  Numbers(sized.count, LAMBDA i : IF i \in Rows(mat) THEN Val(mat, i, col) ELSE At(sized, i))

SwapMatrixRows(mat, l, r) ==
    Fill(mat.nrows, mat.ncols,
         LAMBDA i, j : Val(mat, IF i = l THEN r ELSE IF i = r THEN l ELSE i, j))
SwapMatrixColumns(mat, l, r) ==
    Fill(mat.nrows, mat.ncols,
         LAMBDA i, j : Val(mat, i, IF j = l THEN r ELSE IF j = r THEN l ELSE j))

RemoveMatrixRow(mat, r) ==
    Fill(mat.nrows - 1, mat.ncols, LAMBDA i, j : Val(mat, IF i < r THEN i ELSE i + 1, j))

NumbersMovedToItsEnd(mat, c, i) == mat.ncols - 1 - c
NumbersMoved(mat, c, i) == IF i < mat.nrows - 1 THEN mat.ncols - 1 ELSE mat.ncols - 1 - c

\* Row by row a whole new row's worth of numbers moves down over the removed
\* one; of the last row only what follows the column.
RemoveMatrixColumn(mat, c) ==
    LET cols == mat.ncols - 1
        Move(m, to, from, n) == [k \in DOMAIN m |-> IF k \in to .. to + n - 1
                                                    THEN m[k - to + from] ELSE m[k]]
        Row(m, i) == Tabulate(DOMAIN m, LAMBDA k :
                        Move(m, i * cols + c, i * (cols + 1) + c + 1, NumbersMoved(mat, c, i))[k])
        moved == Loop(Row, mat.m, mat.nrows)
    IN  Cells(mat.nrows, cols, LAMBDA k : moved[k])

(***************************************************************************)
(* Values                                                                  *)
(***************************************************************************)
EachCell(mat, to(_)) == Cells(mat.nrows, mat.ncols, LAMBDA k : to(mat.m[k]))
BothCells(mat, other, dest, to(_, _)) ==
    LET sized == SetMatrixSize(dest, mat.nrows, mat.ncols)
    IN  Cells(sized.nrows, sized.ncols, LAMBDA k : to(mat.m[k], other.m[k]))

ZeroMatrix(mat) == EachCell(mat, LAMBDA x : Zero)
IdentityMatrix(mat) ==
    Fill(mat.nrows, mat.ncols, LAMBDA r, c : IF r = c THEN One ELSE Zero)

\* The numbers off the diagonal are left as they are.
DiagonalMatrix(mat, vec) ==
    LET sized == SetMatrixSize(mat, vec.count, vec.count)
    IN  Fill(vec.count, vec.count,
             LAMBDA r, c : IF r = c THEN At(vec, r) ELSE Val(sized, r, c))

NegateMatrix(mat) == EachCell(mat, LAMBDA x : Neg(x))
ClampMatrix(mat, minval, maxval) == EachCell(mat, LAMBDA x : Clamp(x, minval, maxval))
ClearMatrixUpperTriangle(mat) ==
    Fill(mat.nrows, mat.ncols, LAMBDA r, c : IF r < c THEN Zero ELSE Val(mat, r, c))
ClearMatrixLowerTriangle(mat) ==
    Fill(mat.nrows, mat.ncols, LAMBDA r, c : IF c < r THEN Zero ELSE Val(mat, r, c))

MultiplyMatrixByScalar(mat, value, dest) == BothCells(mat, mat, dest, LAMBDA x, y : x ** value)
MultiplyMatrixByScalarSelf(mat, value) == EachCell(mat, LAMBDA x : x ** value)
AddMatrixByMatrix(mat, other, dest) == BothCells(mat, other, dest, LAMBDA x, y : x ++ y)
SubMatrixByMatrix(mat, other, dest) == BothCells(mat, other, dest, LAMBDA x, y : x -- y)
AddMatrixByMatrixSelf(mat, other) == Cells(mat.nrows, mat.ncols, LAMBDA k : mat.m[k] ++ other.m[k])
SubMatrixByMatrixSelf(mat, other) == Cells(mat.nrows, mat.ncols, LAMBDA k : mat.m[k] -- other.m[k])

MultiplyMatrixByVector(mat, other, dest) ==
    LET sized == ZeroVector(SetVectorSize(dest, mat.nrows))
    IN  Numbers(sized.count, LAMBDA i : SumTo(mat.ncols, LAMBDA j : Val(mat, i, j) ** At(other, j)))
MultiplyTransposeMatrixByVector(mat, other, dest) ==
    LET sized == SetVectorSize(dest, mat.ncols)
    IN  Numbers(sized.count, LAMBDA i : SumTo(mat.nrows, LAMBDA j : Val(mat, j, i) ** At(other, j)))

MultiplyMatrixByMatrix(mat, other, dest) ==
    LET sized == ZeroMatrix(SetMatrixSize(dest, mat.nrows, other.ncols))
    IN  Fill(sized.nrows, sized.ncols,
             LAMBDA i, j : SumTo(other.nrows, LAMBDA k : Val(mat, i, k) ** Val(other, k, j)))
MultiplyTransposeMatrixByMatrix(mat, other, dest) ==
    LET sized == ZeroMatrix(SetMatrixSize(dest, mat.ncols, other.ncols))
    IN  Fill(sized.nrows, sized.ncols,
             LAMBDA i, j : SumTo(mat.nrows, LAMBDA k : Val(mat, k, i) ** Val(other, k, j)))

MultiplyMatrixByMatrixSelf(mat, other) ==
    CopyMatrix(mat, MultiplyMatrixByMatrix(mat, other, CreateMatrix(mat.nrows, mat.ncols)))
MultiplyTransposeMatrixByMatrixSelf(mat, other) ==
    CopyMatrix(mat, MultiplyTransposeMatrixByMatrix(mat, other, CreateMatrix(mat.nrows, mat.ncols)))

CalcMatrixTrace(mat) == SumTo(mat.nrows, LAMBDA i : Val(mat, i, i))

TransposeMatrix(mat, dest) ==
    LET sized == SetMatrixSize(dest, mat.ncols, mat.nrows)
    IN  Fill(sized.nrows, sized.ncols, LAMBDA r, c : Val(mat, c, r))
TransposeMatrixSelf(mat) ==
    CopyMatrix(mat, TransposeMatrix(mat, CreateMatrix(mat.ncols, mat.nrows)))

(***************************************************************************)
(* Kinds of matrices                                                       *)
(***************************************************************************)
Small(x, epsilon) == ~ Less(epsilon, AbsOf(x))

IsSquareMatrix(mat) == mat.nrows = mat.ncols
IsZeroMatrix(mat, epsilon) == \A k \in DOMAIN mat.m : Small(mat.m[k], epsilon)
IsIdentityMatrix(mat, epsilon) ==
    /\ IsSquareMatrix(mat)
    /\ \A r \in Rows(mat), c \in Cols(mat) :
         Small(Val(mat, r, c) -- (IF r = c THEN One ELSE Zero), epsilon)
IsDiagonalMatrix(mat, epsilon) ==
    /\ IsSquareMatrix(mat)
    /\ \A r \in Rows(mat), c \in Cols(mat) : r # c => Small(Val(mat, r, c), epsilon)

\* rows - 2 is unsigned: for one row the loop does not come to its end.
TriDiagonalLoops(mat) == mat.nrows = 1 /\ IsSquareMatrix(mat)
IsTriDiagonalMatrix(mat, epsilon) ==
    /\ IsSquareMatrix(mat)
    /\ \A i \in 0 .. mat.nrows - 3 : \A j \in i + 2 .. mat.ncols - 1 :
         Small(Val(mat, i, j), epsilon) /\ Small(Val(mat, j, i), epsilon)
TriDiagonalClearMatrixSelf(mat) ==
    Fill(mat.nrows, mat.ncols,
         LAMBDA r, c : IF AbsInt(r - c) >= 2 THEN Zero ELSE Val(mat, r, c))

IsSymmetricMatrix(mat, epsilon) ==
    /\ IsSquareMatrix(mat)
    /\ \A i \in Rows(mat) : \A j \in i + 1 .. mat.ncols - 1 :
         Small(Val(mat, i, j) -- Val(mat, j, i), epsilon)

ColumnProduct(mat, i, j) == SumTo(mat.nrows, LAMBDA k : Val(mat, k, i) ** Val(mat, k, j))
IsOrthogonalMatrix(mat, epsilon) ==
    \A i \in Cols(mat) : \A j \in i + 1 .. mat.ncols - 1 : Small(ColumnProduct(mat, i, j), epsilon)
IsOrthonormalMatrix(mat, epsilon) ==
    \A i \in Cols(mat) : \A j \in i .. mat.ncols - 1 :
        Small(ColumnProduct(mat, i, j) -- (IF i = j THEN One ELSE Zero), epsilon)
=============================================================================
