---------------------------- MODULE MatrixFactors ----------------------------
(* Elimination on the matrices of Arsenal (matrix.c): reduction, inverses,  *)
(* the LU, LDL' and Cholesky factors, and what is solved with them.         *)
EXTENDS Matrix

\* The row, or the pair, with the greatest absolute value, the first of them.
Greatest(S, value(_), before(_, _)) ==
    CHOOSE p \in S : \A q \in S : \/ Less(value(q), value(p))
                                  \/ (value(q) = value(p) /\ (p = q \/ before(p, q)))

Swap(f, x, y) == [f EXCEPT ![x] = f[y], ![y] = f[x]]
UnitVector(n, i) == Numbers(n, LAMBDA k : IF k = i THEN One ELSE Zero)

\* The matrix whose columns are what solve gives for the unit vectors.
ColumnsOf(solve(_), n) ==
    With(Tabulate(0 .. n - 1, LAMBDA i : solve(UnitVector(n, i))),
         LAMBDA column : Fill(n, n, LAMBDA r, c : At(column[c], r)))

(***************************************************************************)
(* Reduction to echelon form                                               *)
(***************************************************************************)
\* Column j: done holds the matrix, the order of its rows, and how many rows
\* are reduced.
ReduceColumn(done, j) ==
    LET below == done.reduced .. done.mat.nrows - 1
        row == Greatest(below, LAMBDA i : AbsOf(Val(done.mat, i, j)), LAMBDA p, q : p < q)
        top == done.reduced
        mat == SwapMatrixRows(done.mat, row, top)
        d == Recip(Val(mat, top, j))
        Unit(c) == IF c = j THEN One ELSE Val(mat, top, c) ** d
        Reduced(r, c) == CASE c < j -> Val(mat, r, c)
                           [] c >= j /\ r = top -> Unit(c)
                           [] OTHER -> Val(mat, r, c) -- (Unit(c) ** Val(mat, r, j))
    IN  IF below = {} \/ Val(done.mat, row, j) = Zero THEN done
        ELSE [mat |-> Fill(mat.nrows, mat.ncols, Reduced),
              index |-> Swap(done.index, row, top), reduced |-> top + 1]

ReduceMatrixToEchelonFormSelf(mat) ==
    Loop(ReduceColumn,
         [mat |-> mat, index |-> [i \in Rows(mat) |-> i], reduced |-> 0], mat.ncols)

ReduceMatrixToEchelonForm(mat, rm) == ReduceMatrixToEchelonFormSelf(CopyMatrix(rm, mat))

\* The rows with a number above zero.
CalcMatrixRank(mat) ==
    With(ReduceMatrixToEchelonFormSelf(CopyNewMatrix(mat)).mat, LAMBDA tmp :
         Cardinality({r \in Rows(tmp) : \E c \in Cols(tmp) : Less(Zero, Val(tmp, r, c))}))

(***************************************************************************)
(* LU factors                                                              *)
(***************************************************************************)
MinOf(a, b) == IF a < b THEN a ELSE b

\* The sign of the determinant after row i took the place of row new_i.
SignKept(s, new_i, i) == s.det
SignOfSwap(s, new_i, i) == IF new_i # i THEN Neg(s.det) ELSE s.det

\* Step i of the factorization, with or without a choice of the row.
LUStep(pivoting, s, i) ==
    LET new_i == IF pivoting
                 THEN Greatest(i .. s.mat.nrows - 1, LAMBDA j : AbsOf(Val(s.mat, j, i)),
                               LAMBDA p, q : p < q)
                 ELSE i
        mat == SwapMatrixRows(s.mat, new_i, i)
        d == Recip(Val(mat, i, i))
        Factor(r, c) == CASE r <= i \/ c < i -> Val(mat, r, c)
                          [] r > i /\ c = i -> Val(mat, r, i) ** d
                          [] OTHER -> Val(mat, r, c) -- (Val(mat, i, c) ** (Val(mat, r, i) ** d))
    IN  IF s.status = "no" THEN s
        ELSE IF Val(s.mat, new_i, i) = Zero THEN [s EXCEPT !.status = "no"]
        ELSE [mat |-> Fill(mat.nrows, mat.ncols, Factor), status |-> "yes",
              index |-> Swap(s.index, new_i, i),
              det |-> SignOfSwap(s, new_i, i)]

\* det is what the caller of a factorization that failed leaves it at.
LUFactorMatrixSelf(mat, pivoting) ==
    LET min_rc == MinOf(mat.nrows, mat.ncols)
        s == Loop(LAMBDA t, i : LUStep(pivoting, t, i),
                  [mat |-> mat, index |-> [i \in Rows(mat) |-> i], det |-> One,
                   status |-> "yes"], min_rc)
    IN  IF s.status = "no" THEN s
        ELSE [s EXCEPT !.det = Loop(LAMBDA w, i : w ** Val(s.mat, i, i), s.det, min_rc)]

CalcMatrixDeterminant(mat) ==
    With(LUFactorMatrixSelf(CopyNewMatrix(mat), TRUE),
         LAMBDA lu : IF lu.status = "yes" THEN lu.det ELSE Zero)

\* Down the unit lower factor, then up the upper one.
LUSolveMatrix(mat, index, x, b) ==
    LET n == mat.nrows
        sized == SetVectorSize(x, mat.ncols)
        down == Loop(LAMBDA v, i : Put(v, i, At(b, index[i])
                        -- SumTo(i, LAMBDA j : Val(mat, i, j) ** At(v, j))), sized, n)
        Up(v, k) == LET i == n - 1 - k
                        s == At(v, i) -- SumTo(k, LAMBDA j : Val(mat, i, i + 1 + j) ** At(v, i + 1 + j))
                    IN  Put(v, i, s ** Recip(Val(mat, i, i)))
    IN  Loop(Up, down, n)

LUInverseMatrix(mat, index, inv) ==
    LET sized == SetMatrixSize(inv, mat.nrows, mat.ncols)
    IN  ColumnsOf(LAMBDA b : LUSolveMatrix(mat, index, CreateVector(mat.ncols), b), sized.nrows)

\* The matrix is overwritten column by column from the factors of a copy.
InverseMatrixSelf(mat) ==
    With(LUFactorMatrixSelf(CopyNewMatrix(mat), TRUE), LAMBDA lu :
         [status |-> lu.status,
          mat |-> IF lu.status = "no" THEN mat
                  ELSE ColumnsOf(LAMBDA b : LUSolveMatrix(lu.mat, lu.index, CreateVector(mat.nrows), b),
                                 mat.nrows)])

\* L is square or as wide as the matrix, U square or as high.
UnpackMatrixLUFactors(mat, L, U) ==
    LET min_rc == MinOf(mat.nrows, mat.ncols)
        l == SetMatrixSize(L, mat.nrows, min_rc)
        u == SetMatrixSize(U, min_rc, mat.ncols)
    IN  [L |-> Fill(l.nrows, l.ncols, LAMBDA r, c : IF c < r THEN Val(mat, r, c)
                                                  ELSE IF c = r THEN One ELSE Zero),
         U |-> Fill(u.nrows, u.ncols, LAMBDA r, c : IF r <= c THEN Val(mat, r, c) ELSE Zero)]

MultiplyMatrixLUFactors(mat, index, original_mat) ==
    LET sized == ZeroMatrix(SetMatrixSize(original_mat, mat.nrows, mat.ncols))
        Product(r, c) == (IF c >= r THEN Val(mat, r, c) ELSE Zero)
                         ++ SumTo(MinOf(c + 1, r), LAMBDA k : Val(mat, r, k) ** Val(mat, k, c))
        RowOf(r) == CHOOSE i \in Rows(mat) : index[i] = r
    IN  Fill(sized.nrows, sized.ncols, LAMBDA r, c : Product(RowOf(r), c))

(***************************************************************************)
(* Inverses in place                                                       *)
(***************************************************************************)
\* Row i uses the rows above it, inverted, and its own numbers not yet
\* written, from column j on.
InverseLowerStep(s, i) ==
    LET d == Val(s.mat, i, i)
        r == Recip(d)
        Sum(j) == SumTo(i - j, LAMBDA k : Val(s.mat, i, j + k) ** Val(s.mat, j + k, j))
    IN  IF s.status = "no" \/ d = Zero THEN [s EXCEPT !.status = "no"]
        ELSE [s EXCEPT !.mat = Fill(s.mat.nrows, s.mat.ncols, LAMBDA p, q :
                CASE p = i /\ q = i -> r
                  [] p = i /\ q < i -> Neg(Sum(q)) ** r
                  [] OTHER -> Val(s.mat, p, q))]

InverseLowerTriangularMatrixSelf(mat) ==
    Loop(InverseLowerStep, [mat |-> mat, status |-> "yes"], mat.nrows)

InverseUpperStep(s, step) ==
    LET i == s.mat.nrows - 1 - step
        d == Val(s.mat, i, i)
        r == Recip(d)
        Sum(j) == SumTo(j - i, LAMBDA k : Val(s.mat, i, j - k) ** Val(s.mat, j - k, j))
    IN  IF s.status = "no" \/ d = Zero THEN [s EXCEPT !.status = "no"]
        ELSE [s EXCEPT !.mat = Fill(s.mat.nrows, s.mat.ncols, LAMBDA p, q :
                CASE p = i /\ q = i -> r
                  [] p = i /\ q > i -> Neg(Sum(q)) ** r
                  [] OTHER -> Val(s.mat, p, q))]

InverseUpperTriangularMatrixSelf(mat) ==
    Loop(InverseUpperStep, [mat |-> mat, status |-> "yes"], mat.nrows)

\* One pivot: the greatest number outside the rows and columns already used;
\* its row is brought to its column, and the inverse is built over the matrix.
GaussJordanStep(s, i) ==
    LET free == {j \in Rows(s.mat) : ~ s.pivot_mark[j]}
        p == Greatest(free \X free, LAMBDA rc : AbsOf(Val(s.mat, rc[1], rc[2])),
                      LAMBDA x, y : x[1] < y[1] \/ (x[1] = y[1] /\ x[2] < y[2]))
        c == p[2]
        mat == SwapMatrixRows(s.mat, p[1], c)
        d == Recip(Val(mat, c, c))
        Unit(k) == (IF k = c THEN One ELSE Val(mat, c, k)) ** d
        Step(j, k) == CASE j = c -> Unit(k)
                        [] j # c /\ k = c -> Neg(Unit(c) ** Val(mat, j, c))
                        [] OTHER -> Val(mat, j, k) -- (Unit(k) ** Val(mat, j, c))
    IN  IF s.status = "no" THEN s
        ELSE IF Val(s.mat, p[1], c) = Zero THEN [s EXCEPT !.status = "no"]
        ELSE [mat |-> Fill(mat.nrows, mat.ncols, Step), status |-> "yes",
              pivot_mark |-> [s.pivot_mark EXCEPT ![c] = TRUE],
              swaps |-> <<p>> \o s.swaps]

\* The columns are swapped back in the reverse order of the rows' swaps.
InverseMatrixByGaussJordanSelf(mat) ==
    LET Back(m, p) == SwapMatrixColumns(m, p[1], p[2])
        first == [mat |-> mat, status |-> "yes", swaps |-> <<>>,
                  pivot_mark |-> [i \in Rows(mat) |-> FALSE]]
    IN  With(Loop(GaussJordanStep, first, mat.nrows), LAMBDA s :
             [status |-> s.status,
              mat |-> IF s.status = "no" THEN s.mat
                      ELSE Loop(LAMBDA m, k : Back(m, s.swaps[k + 1]), s.mat, Len(s.swaps))])

InverseSolveMatrix(mat, x, b) == MultiplyMatrixByVector(mat, b, x)

(***************************************************************************)
(* Tridiagonal matrices                                                    *)
(***************************************************************************)
TriDiagonalSolveMatrix(mat, x, b) ==
    LET n == mat.nrows
        Down(s, i) ==
            LET tmp == IF i = 0 THEN Zero ELSE Val(mat, i - 1, i) ** s.d
                d == IF i = 0 THEN Val(mat, 0, 0)
                     ELSE Val(mat, i, i) -- (Val(mat, i, i - 1) ** tmp)
                rest == IF i = 0 THEN At(b, 0)
                        ELSE At(b, i) -- (Val(mat, i, i - 1) ** At(s.x, i - 1))
            IN  IF s.status = "no" \/ d = Zero THEN [s EXCEPT !.status = "no"]
                ELSE [s EXCEPT !.d = Recip(d), !.tmp[i] = tmp, !.x = Put(s.x, i, rest ** Recip(d))]
        first == [x |-> SetVectorSize(x, mat.ncols), d |-> One, status |-> "yes",
                  tmp |-> [i \in Rows(mat) |-> Zero]]
        Up(tmp, v, k) == LET i == n - 2 - k
                         IN  Put(v, i, At(v, i) -- (tmp[i + 1] ** At(v, i + 1)))
    IN  With(Loop(Down, first, n), LAMBDA down :
             [status |-> down.status,
              x |-> IF down.status = "no" THEN down.x
                    ELSE Loop(LAMBDA v, k : Up(down.tmp, v, k), down.x, n - 1)])

\* Given up at the first column that cannot be solved.
TriDiagonalInverseMatrix(mat, inv) ==
    LET n == mat.nrows
        sized == SetMatrixSize(inv, n, n)
        Solve(b) == TriDiagonalSolveMatrix(mat, CreateVector(n), b)
        Step(s, i) ==
            LET t == Solve(UnitVector(n, i))
            IN  IF s.status = "no" \/ t.status = "no" THEN [s EXCEPT !.status = "no"]
                ELSE [s EXCEPT !.mat = SetMatrixColumn(s.mat, i, t.x)]
    IN  Loop(Step, [mat |-> sized, status |-> "yes"], n)

(***************************************************************************)
(* LDL' factors                                                            *)
(***************************************************************************)
LDLTStep(s, i) ==
    LET v == [j \in 0 .. i - 1 |-> Val(s.mat, j, j) ** Val(s.mat, i, j)]
        sum == Val(s.mat, i, i) -- SumTo(i, LAMBDA j : v[j] ** Val(s.mat, i, j))
        Below(j) == Val(s.mat, j, i) -- SumTo(i, LAMBDA k : Val(s.mat, j, k) ** v[k])
    IN  IF s.status = "no" \/ sum = Zero THEN [s EXCEPT !.status = "no"]
        ELSE [s EXCEPT !.mat = Fill(s.mat.nrows, s.mat.ncols, LAMBDA r, c :
                CASE r = i /\ c = i -> sum
                  [] r > i /\ c = i -> Below(r) ** Recip(sum)
                  [] OTHER -> Val(s.mat, r, c))]

\* The upper triangle keeps the numbers of the matrix.
LDLTFactorMatrixSelf(mat) ==
    IF ~ IsSymmetricMatrix(mat, Zero) THEN [mat |-> mat, status |-> "no"]
    ELSE Loop(LDLTStep, [mat |-> mat, status |-> "yes"], mat.nrows)

LDLTSolveMatrix(mat, x, b) ==
    LET n == mat.nrows
        down == Loop(LAMBDA v, i : Put(v, i, At(b, i)
                        -- SumTo(i, LAMBDA j : Val(mat, i, j) ** At(v, j))), ZeroVector(x), n)
        Divided(v) == Numbers(n, LAMBDA i : At(v, i) ** Recip(Val(mat, i, i)))
        Up(v, k) == LET i == n - 1 - k
                    IN  Put(v, i, At(v, i)
                            -- SumTo(k, LAMBDA j : Val(mat, i + 1 + j, i) ** At(v, i + 1 + j)))
    IN  Loop(Up, With(down, Divided), n)

LDLTInverseMatrix(mat, inv) ==
    LET sized == SetMatrixSize(inv, mat.nrows, mat.ncols)
    IN  ColumnsOf(LAMBDA b : LDLTSolveMatrix(mat, CreateVector(mat.ncols), b), sized.nrows)

UnpackMatrixLDLTFactors(mat, L, D) ==
    LET l == SetMatrixSize(L, mat.nrows, mat.ncols)
        d == SetMatrixSize(D, mat.nrows, mat.ncols)
    IN  [L |-> Fill(l.nrows, l.ncols, LAMBDA r, c : IF c < r THEN Val(mat, r, c)
                                                  ELSE IF c = r THEN One ELSE Zero),
         D |-> Fill(d.nrows, d.ncols, LAMBDA r, c : IF r = c THEN Val(mat, r, r) ELSE Zero)]

MultiplyMatrixLDLTFactors(mat, original_mat) ==
    LET sized == ZeroMatrix(SetMatrixSize(original_mat, mat.nrows, mat.ncols))
        V(r, i) == Val(mat, r, i) ** Val(mat, i, i)
        First(r, i) == CASE i < r -> V(r, i)
                         [] i = r -> Val(mat, i, i)
                         [] OTHER -> Val(mat, r, r) ** Val(mat, i, r)
    IN  Fill(sized.nrows, sized.ncols,
             LAMBDA r, i : First(r, i) ++ SumTo(MinOf(i, r), LAMBDA j : Val(mat, i, j) ** V(r, j)))

(***************************************************************************)
(* Cholesky factors.  A number G[i][j] of the factor is a ratio divided by *)
(* the square root of another, the same for a column: what is kept of it   *)
(* is G[i][j] * G[j][j], a rational.                                       *)
(***************************************************************************)
CholeskyStep(s, i) ==
    LET Product(m, r, q, n) ==
            SumTo(n, LAMBDA k : (Val(m, r, k) ** Val(m, q, k)) ** Recip(Val(m, k, k)))
        row == Loop(LAMBDA m, j : SetVal(m, i, j, Val(m, i, j) -- Product(m, i, j, j)), s.mat, i)
        sum == Val(row, i, i) -- Product(row, i, i, i)
    IN  IF s.status = "no" THEN s
        ELSE IF ~ Less(Zero, sum) THEN [mat |-> row, status |-> "no"]
        ELSE [mat |-> SetVal(row, i, i, sum), status |-> "yes"]

CholeskyFactorMatrixSelf(mat) ==
    Loop(CholeskyStep, [mat |-> mat, status |-> "yes"], mat.nrows)

\* Down the factor (what is kept of z[i] is z[i] * G[i][i]), up its transpose.
CholeskySolveMatrix(mat, x, b) ==
    LET n == mat.nrows
        G(i, j) == Val(mat, i, j)
        down == Loop(LAMBDA v, i : Put(v, i, At(b, i)
                        -- SumTo(i, LAMBDA j : (G(i, j) ** At(v, j)) ** Recip(G(j, j)))),
                     SetVectorSize(x, mat.ncols), n)
        Up(v, k) == LET i == n - 1 - k
                        s == At(v, i) -- SumTo(k, LAMBDA j : G(i + 1 + j, i) ** At(v, i + 1 + j))
                    IN  Put(v, i, s ** Recip(G(i, i)))
    IN  Loop(Up, down, n)

CholeskyInverseMatrix(mat, inv) ==
    LET sized == SetMatrixSize(inv, mat.nrows, mat.ncols)
    IN  ColumnsOf(LAMBDA b : CholeskySolveMatrix(mat, CreateVector(mat.ncols), b), sized.nrows)

MultiplyMatrixCholeskyFactors(mat, original_mat) ==
    LET sized == ZeroMatrix(SetMatrixSize(original_mat, mat.nrows, mat.ncols))
    IN  Fill(sized.nrows, sized.ncols, LAMBDA r, i : SumTo(MinOf(i, r) + 1,
             LAMBDA j : (Val(mat, r, j) ** Val(mat, i, j)) ** Recip(Val(mat, j, j))))

(***************************************************************************)
(* Definite matrices                                                       *)
(***************************************************************************)
Symmetrized(mat) == Fill(mat.nrows, mat.ncols, LAMBDA r, c : Val(mat, r, c) ++ Val(mat, c, r))

\* Below row i of the symmetrized matrix column i becomes zero; the numbers
\* right of the diagonal of row i stay.
Eliminate(mat, i) ==
    LET d == Recip(Val(mat, i, i))
    IN  Fill(mat.nrows, mat.ncols, LAMBDA r, c :
            CASE r <= i \/ c < i -> Val(mat, r, c)
              [] r > i /\ c = i -> Zero
              [] OTHER -> Val(mat, r, c) -- (Val(mat, i, c) ** (d ** Val(mat, r, i))))

IsPositiveDefiniteMatrix(mat, epsilon) ==
    LET Step(s, i) ==
            IF \/ s.status = "no"
               \/ \E j \in i .. mat.nrows - 1 : ~ Less(epsilon, Val(s.mat, j, j))
            THEN [s EXCEPT !.status = "no"]
            ELSE [s EXCEPT !.mat = Eliminate(s.mat, i)]
    IN  /\ IsSquareMatrix(mat)
        /\ Loop(Step, [mat |-> Symmetrized(mat), status |-> "yes"], mat.nrows).status = "yes"

IsSymmetricPositiveDefinite(mat, epsilon) ==
    /\ IsSymmetricMatrix(mat, epsilon)
    /\ CholeskyFactorMatrixSelf(CopyNewMatrix(mat)).status = "yes"

\* Where a diagonal number is about zero its whole row and column must be,
\* the rows already eliminated included.
IsPositiveSemiDefinite(mat, epsilon) ==
    LET Refused(m, i) ==
            \E j \in i .. m.nrows - 1 :
                \/ Less(Val(m, j, j), Neg(epsilon))
                \/ /\ ~ Less(epsilon, Val(m, j, j))
                   /\ \E k \in Rows(m) : \/ Less(epsilon, AbsOf(Val(m, k, j)))
                                         \/ Less(epsilon, AbsOf(Val(m, j, k)))
        Step(s, i) == IF s.status = "no" \/ Refused(s.mat, i) THEN [s EXCEPT !.status = "no"]
                      ELSE IF Less(epsilon, Val(s.mat, i, i))
                      THEN [s EXCEPT !.mat = Eliminate(s.mat, i)] ELSE s
    IN  /\ IsSquareMatrix(mat)
        /\ Loop(Step, [mat |-> Symmetrized(mat), status |-> "yes"], mat.nrows).status = "yes"

IsSymmetricPositiveSemiDefinite(mat, epsilon) ==
    IsSymmetricMatrix(mat, epsilon) /\ IsPositiveSemiDefinite(mat, epsilon)
=============================================================================
