---------------------------- MODULE MatrixMeaning ----------------------------
(* What the matrix operations should give, by minors, products and          *)
(* positions, for every matrix of a set of samples.                          *)
EXTENDS MatrixFactors

CONSTANTS
    Samples,    \* records [mat, other, vec, dest, out]: matrices and vectors,
                \* other and vec as high as mat, dest and out of any shape
    NoSample

VARIABLE sample

SampleInit == sample = NoSample
TakeSample == sample = NoSample /\ sample' \in Samples

(***************************************************************************)
(* Minors                                                                  *)
(***************************************************************************)
LeastOf(S) == CHOOSE x \in S : \A y \in S : x <= y
SumOver(S, value(_)) ==
    LET sum[T \in SUBSET S] ==
            IF T = {} THEN Zero
            ELSE LET x == LeastOf(T) IN value(x) ++ sum[T \ {x}]
    IN  sum[S]

Minor(mat, rows, cols) ==
    LET minor[R \in SUBSET rows, C \in SUBSET cols] ==
            IF R = {} THEN One
            ELSE LET r == LeastOf(R)
                     Term(c) == Val(mat, r, c) ** minor[R \ {r}, C \ {c}]
                     Signed(c) == IF Cardinality({k \in C : k < c}) % 2 = 0
                                  THEN Term(c) ELSE Neg(Term(c))
                 IN  SumOver(C, Signed)
    IN  minor[rows, cols]

Det(mat) == Minor(mat, Rows(mat), Cols(mat))
Leading(mat, k) == Minor(mat, 0 .. k - 1, 0 .. k - 1)
LeadingMinors(mat) == {Leading(mat, k) : k \in 1 .. mat.nrows}

Rank(mat) ==
    LET sizes == {k \in 0 .. MinOf(mat.nrows, mat.ncols) :
                    \E R \in SUBSET Rows(mat), C \in SUBSET Cols(mat) :
                        /\ Cardinality(R) = k /\ Cardinality(C) = k
                        /\ Minor(mat, R, C) # Zero}
    IN  CHOOSE k \in sizes : \A n \in sizes : n <= k

Same(x, y) == x.nrows = y.nrows /\ x.ncols = y.ncols /\ x.m = y.m
Times(x, y) == MultiplyMatrixByMatrix(x, y, CreateMatrix(1, 1))
Transposed(x) == TransposeMatrix(x, CreateMatrix(1, 1))
Identity(n) == IdentityMatrix(CreateMatrix(n, n))
Inverts(x, y) == Same(Times(x, y), Identity(x.nrows))
Solves(mat, x, b) == MultiplyMatrixByVector(mat, x, CreateVector(1)) = b
Permutes(index, n) == {index[i] : i \in 0 .. n - 1} = 0 .. n - 1

(***************************************************************************)
(* Elimination                                                             *)
(***************************************************************************)
LUCorrect(s, pivoting) ==
    LET A == s.mat
        least == MinOf(A.nrows, A.ncols)
        regular == IF pivoting
                   THEN \E R \in SUBSET Rows(A) : /\ Cardinality(R) = least
                                                  /\ Minor(A, R, 0 .. least - 1) # Zero
                   ELSE \A k \in 1 .. least : Leading(A, k) # Zero
    IN  \A lu \in {LUFactorMatrixSelf(A, pivoting)} :
            /\ (lu.status = "yes") = regular
            /\ lu.status = "yes" =>
                /\ Permutes(lu.index, A.nrows)
                /\ ~ pivoting => \A i \in Rows(A) : lu.index[i] = i
                /\ Same(MultiplyMatrixLUFactors(lu.mat, lu.index, s.dest), A)
                /\ \A parts \in {UnpackMatrixLUFactors(lu.mat, s.dest, s.dest)} :
                     \A product \in {Times(parts.L, parts.U)}, i \in Rows(A), j \in Cols(A) :
                        Val(product, i, j) = Val(A, lu.index[i], j)
                /\ IsSquareMatrix(A) =>
                    /\ lu.det = Det(A)
                    /\ Solves(A, LUSolveMatrix(lu.mat, lu.index, s.out, s.vec), s.vec)
                    /\ Inverts(A, LUInverseMatrix(lu.mat, lu.index, s.dest))

EchelonCorrect(s) ==
    LET Lead(m, r) == {c \in Cols(m) : Val(m, r, c) # Zero}
        First(m, r) == LeastOf(Lead(m, r))
    IN  \A e \in {ReduceMatrixToEchelonForm(s.mat, s.dest)} :
            /\ CalcMatrixRank(s.mat) = e.reduced
            /\ e.reduced = Rank(s.mat)
            /\ Permutes(e.index, s.mat.nrows)
            /\ Same(ReduceMatrixToEchelonFormSelf(e.mat).mat, e.mat)
            /\ \A r \in Rows(e.mat) :
                 IF r >= e.reduced THEN Lead(e.mat, r) = {}
                 ELSE /\ \A k \in Rows(e.mat) :
                            Val(e.mat, k, First(e.mat, r)) = (IF k = r THEN One ELSE Zero)
                      /\ r > 0 => First(e.mat, r - 1) < First(e.mat, r)

InversesCorrect(s) ==
    LET A == s.mat
        full == \A i \in Rows(A) : Val(A, i, i) # Zero
        Inverse(inv, M, exists) ==
            (inv.status = "yes") = exists /\ (inv.status = "yes" => Inverts(M, inv.mat))
    IN  /\ CalcMatrixDeterminant(A) = Det(A)
        /\ \A inv \in {InverseMatrixSelf(A)} :
             /\ Inverse(inv, A, Det(A) # Zero)
             /\ IF inv.status = "yes" THEN Solves(A, InverseSolveMatrix(inv.mat, s.out, s.vec), s.vec)
                ELSE Same(inv.mat, A)
        /\ \A inv \in {InverseMatrixByGaussJordanSelf(A)} : Inverse(inv, A, Det(A) # Zero)
        /\ \A lower \in {ClearMatrixUpperTriangle(A)} :
             \A inv \in {InverseLowerTriangularMatrixSelf(lower)} : Inverse(inv, lower, full)
        /\ \A upper \in {ClearMatrixLowerTriangle(A)} :
             \A inv \in {InverseUpperTriangularMatrixSelf(upper)} : Inverse(inv, upper, full)

TriDiagonalCorrect(s) ==
    \A A \in {TriDiagonalClearMatrixSelf(s.mat)} :
        LET regular == Zero \notin LeadingMinors(A)
        IN  /\ TriDiagonalLoops(A) \/ IsTriDiagonalMatrix(A, Zero)
            /\ \A solved \in {TriDiagonalSolveMatrix(A, s.out, s.vec)} :
                 /\ (solved.status = "yes") = regular
                 /\ solved.status = "yes" => Solves(A, solved.x, s.vec)
            /\ \A inv \in {TriDiagonalInverseMatrix(A, s.dest)} :
                 /\ (inv.status = "yes") = regular
                 /\ inv.status = "yes" => Inverts(A, inv.mat)

\* Of a symmetric matrix; of another the Cholesky factors are those of the
\* symmetric matrix with the same lower triangle.
SymmetricFactorsCorrect(s) ==
    LET A == s.mat
        lower == Fill(A.nrows, A.ncols, LAMBDA r, c : IF r < c THEN Val(A, c, r) ELSE Val(A, r, c))
        regular == IsSymmetricMatrix(A, Zero) /\ Zero \notin LeadingMinors(A)
    IN  /\ \A ldlt \in {LDLTFactorMatrixSelf(A)} :
             /\ (ldlt.status = "yes") = regular
             /\ ldlt.status = "yes" =>
                /\ Same(MultiplyMatrixLDLTFactors(ldlt.mat, s.dest), A)
                /\ \A LD \in {UnpackMatrixLDLTFactors(ldlt.mat, s.dest, s.dest)} :
                     Same(Times(Times(LD.L, LD.D), Transposed(LD.L)), A)
                /\ Solves(A, LDLTSolveMatrix(ldlt.mat, CreateVector(A.nrows), s.vec), s.vec)
                /\ Inverts(A, LDLTInverseMatrix(ldlt.mat, s.dest))
        /\ \A B \in {lower}, gg \in {CholeskyFactorMatrixSelf(A)} :
             /\ (gg.status = "yes") = (\A d \in LeadingMinors(B) : Less(Zero, d))
             /\ gg.status = "yes" =>
                /\ Same(MultiplyMatrixCholeskyFactors(gg.mat, s.dest), B)
                /\ Solves(B, CholeskySolveMatrix(gg.mat, s.out, s.vec), s.vec)
                /\ Inverts(B, CholeskyInverseMatrix(gg.mat, s.dest))

\* A positive semi-definite matrix is only recognised when no row depends on
\* the others but a row of zeros.
DefiniteCorrect(s) ==
    LET S == Symmetrized(s.mat)
        definite == \A d \in LeadingMinors(S) : Less(Zero, d)
        semi == \A R \in SUBSET Rows(S) : ~ Less(Minor(S, R, R), Zero)
        rows == {r \in Rows(S) : \E c \in Cols(S) : Val(S, r, c) # Zero}
        symmetric == IsSymmetricMatrix(s.mat, Zero)
    IN  /\ IsPositiveDefiniteMatrix(s.mat, Zero) = definite
        /\ IsSymmetricPositiveDefinite(s.mat, Zero) = (symmetric /\ definite)
        /\ IsPositiveSemiDefinite(s.mat, Zero) = (semi /\ Rank(S) = Cardinality(rows))
        /\ IsSymmetricPositiveSemiDefinite(s.mat, Zero) =>
                symmetric /\ IsPositiveSemiDefinite(s.mat, Zero)

\* Every factorization gives the matrix back, what is solved with it solves,
\* what it inverts is inverted, and it is refused exactly where it does not
\* exist: LU with and without the choice of rows, reduction, Gauss-Jordan,
\* triangular, tridiagonal, LDL' and Cholesky (matrix.c).
EliminationCorrect ==
    sample # NoSample =>
        /\ EchelonCorrect(sample)
        /\ \A pivoting \in BOOLEAN : LUCorrect(sample, pivoting)
        /\ IsSquareMatrix(sample.mat) =>
            /\ InversesCorrect(sample)
            /\ TriDiagonalCorrect(sample)
            /\ SymmetricFactorsCorrect(sample)
            /\ DefiniteCorrect(sample)

(***************************************************************************)
(* Shapes, positions and values                                            *)
(***************************************************************************)
Written(mat) == \A k \in DOMAIN mat.m : mat.m[k] # Garbage
ColumnOf(mat, c) == Numbers(mat.nrows, LAMBDA i : Val(mat, i, c))
RowOf(mat, r) == Numbers(mat.ncols, LAMBDA i : Val(mat, r, i))
Without(x, n) == [i \in 0 .. n - 2 |-> IF i < x THEN i ELSE i + 1]

PositionsCorrect(s) ==
    LET A == s.mat
        r == A.nrows - 1
        c == A.ncols - 1
        n == [i \in DOMAIN A.m |-> Val(SetMatrixSize(A, A.ncols, A.nrows), i \div A.nrows, i % A.nrows)]
        column == GetMatrixColumn(A, c, s.out)
        D == DiagonalMatrix(A, s.vec)
    IN  /\ \A k \in Cols(A) : A.ncols > 1 =>
             LET B == RemoveMatrixColumn(A, k)
             IN  \A i \in Rows(A), j \in Cols(B) : Val(B, i, j) = Val(A, i, Without(k, A.ncols)[j])
        /\ \A k \in Rows(A) : A.nrows > 1 =>
             LET B == RemoveMatrixRow(A, k)
             IN  \A i \in Rows(B), j \in Cols(A) : Val(B, i, j) = Val(A, Without(k, A.nrows)[i], j)
        /\ RowOf(SwapMatrixRows(A, 0, r), r) = GetMatrixRow(A, 0, s.out)
        /\ ColumnOf(SwapMatrixColumns(A, 0, c), c) = ColumnOf(A, 0)
        /\ ColumnOf(SetMatrixColumn(A, c, s.vec), c) = s.vec
        /\ RowOf(SetMatrixRow(A, r, RowOf(A, 0)), r) = RowOf(A, 0)
        /\ A.nrows = A.ncols => column = ColumnOf(A, c)
        /\ A.nrows < A.ncols => column # ColumnOf(A, c)
        /\ IsDiagonalMatrix(A, Zero) => IsDiagonalMatrix(D, Zero)
        /\ Written(D) <=> \/ IsSquareMatrix(A)
                          \/ s.vec.count = 1
        /\ A.nrows # A.ncols => \E k \in DOMAIN A.m : n[k] = Garbage
        /\ Same(CopyMatrix(s.dest, A), A) /\ Same(CopyNewMatrix(A), A)

\* Both of the vectors' own norms start from the first number with its sign.
VectorsCorrect(s) ==
    LET v == s.vec
        w == ColumnOf(s.mat, 0)
        sizes == {AbsOf(At(v, i)) : i \in 0 .. v.count - 1}
        Greater == CHOOSE x \in sizes : \A y \in sizes : ~ Less(x, y)
        Lesser == CHOOSE x \in sizes : \A y \in sizes : ~ Less(y, x)
    IN  /\ SubVectorByVector(AddVectorByVector(v, w, s.out), w, s.out) = v
        /\ DivVectorByVal(MulVectorByVal(v, Ratio(2, 3), s.out), Ratio(2, 3), s.out) = v
        /\ AddVectorByVector(NegateVector(v), v, s.out) = ZeroVector(v)
        /\ DistanceSqr(v, w) = InnerProduct(v, v) ++ InnerProduct(w, w)
                               -- (InnerProduct(v, w) ** Q(2))
        /\ v # ZeroVector(v) => Norm1([NormalizedSquares(v) EXCEPT !.count = v.count]) = One
        /\ ~ Less(At(v, 0), Zero) => NormMax(v) = Greater /\ NormNegaMax(v) = Lesser
        /\ Less(At(v, 0), Zero) => NormNegaMax(v) = At(v, 0)
        /\ CompareVector(v, w, Zero) = CompareVector(w, v, Zero)
        /\ CompareVector(v, w, Zero) = 0 <=> v = w
        /\ SwapElements(SwapElements(v, 0, v.count - 1), 0, v.count - 1) = v

ArithmeticCorrect(s) ==
    LET A == s.mat
        B == s.other
        d == s.dest
        AtB == MultiplyTransposeMatrixByMatrix(A, B, d)
        gram == MultiplyTransposeMatrixByMatrix(A, A, d)
    IN  /\ Same(AtB, Times(Transposed(A), B)) /\ Same(Transposed(AtB), Times(Transposed(B), A))
        /\ Same(MultiplyMatrixByMatrixSelf(Transposed(A), B), AtB)
        /\ Same(MultiplyTransposeMatrixByMatrixSelf(A, B), AtB)
        /\ MultiplyTransposeMatrixByVector(A, s.vec, s.out)
             = MultiplyMatrixByVector(TransposeMatrixSelf(A), s.vec, s.out)
        /\ Same(Transposed(TransposeMatrixSelf(A)), A)
        /\ Same(SubMatrixByMatrix(AddMatrixByMatrix(A, A, d), A, d), A)
        /\ Same(AddMatrixByMatrixSelf(A, A), MultiplyMatrixByScalar(A, Q(2), d))
        /\ Same(SubMatrixByMatrixSelf(A, NegateMatrix(A)), MultiplyMatrixByScalarSelf(A, Q(2)))
        /\ CompareMatrix(A, NegateMatrix(A), Zero) = 0 - CompareMatrix(NegateMatrix(A), A, Zero)
        /\ CompareMatrix(A, ClampMatrix(A, Q(0 - 1), One), Zero) = 0
             <=> \A k \in DOMAIN A.m : ~ Less(One, AbsOf(A.m[k]))
        /\ Same(gram, Identity(A.ncols)) <=> IsOrthonormalMatrix(A, Zero)
        /\ IsDiagonalMatrix(gram, Zero) <=> IsOrthogonalMatrix(A, Zero)
        /\ IsSymmetricMatrix(gram, Zero)
        /\ IsZeroMatrix(gram, Zero) <=> IsZeroMatrix(A, Zero)
        /\ IsIdentityMatrix(gram, Zero) <=> IsOrthonormalMatrix(A, Zero)
        /\ CalcMatrixTrace(gram) = SumTo(A.nrows * A.ncols, LAMBDA k : A.m[k] ** A.m[k])
        /\ \A M \in {AtB, gram, AddMatrixByMatrix(A, A, d), TransposeMatrix(A, d)} : Written(M)

\* An operation gives every number of its result whatever the destination
\* held, rows and columns are taken out where they are, and the laws of the
\* products hold.  Where the code does otherwise is stated: a matrix that
\* takes another shape keeps the first eighth of its numbers, the diagonal
\* one keeps what was off the diagonal, a column read has the length of a
\* row, the vectors' norms and comparison lose a sign (matrix.c, vector.c).
ShapesCorrect ==
    sample # NoSample =>
        PositionsCorrect(sample) /\ VectorsCorrect(sample) /\ ArithmeticCorrect(sample)
=============================================================================
