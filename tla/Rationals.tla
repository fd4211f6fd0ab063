------------------------------ MODULE Rationals ------------------------------
(* The numbers of the vectors and matrices: C doubles taken as exact        *)
(* rationals, each a pair <<numerator, denominator>> in lowest terms, so    *)
(* that a residue the code compares with DBL_EPSILON is zero or is not.     *)
EXTENDS Integers, Sequences

\* in(value), a function tabulated, and step(...step(step(base, 0), 1)..., n - 1),
\* each with its values computed once.
With(value, in(_)) == CHOOSE result \in {in(v) : v \in {value}} : TRUE

Tabulate(S, value(_)) == CHOOSE f \in {[x \in S |-> value(x)]} : TRUE

Loop(step(_, _), base, n) ==
    LET after[k \in 0 .. n] ==
            IF k = 0 THEN base ELSE With(after[k - 1], LAMBDA s : step(s, k - 1))
    IN  after[n]

AbsInt(i) == IF i < 0 THEN 0 - i ELSE i

Gcd(a, b) ==
    LET g[p \in Nat, q \in Nat] == IF q = 0 THEN p ELSE g[q, p % q]
    IN  g[a, b]

Ratio(n, d) ==
    LET g == Gcd(AbsInt(n), AbsInt(d))
        s == IF d < 0 THEN 0 - 1 ELSE 1
    IN  << s * (n \div g), s * (d \div g) >>

Q(i) == <<i, 1>>
Zero == Q(0)
One == Q(1)

x ++ y == IF x[2] = y[2] /\ x[2] = 1 THEN Q(x[1] + y[1])
          ELSE Ratio(x[1] * y[2] + y[1] * x[2], x[2] * y[2])
Neg(x) == <<0 - x[1], x[2]>>
x -- y == x ++ Neg(y)
x ** y == IF x[2] = 1 /\ y[2] = 1 THEN Q(x[1] * y[1]) ELSE Ratio(x[1] * y[1], x[2] * y[2])
Recip(x) == IF x[1] < 0 THEN <<0 - x[2], 0 - x[1]>> ELSE <<x[2], x[1]>>
AbsOf(x) == <<AbsInt(x[1]), x[2]>>
Less(x, y) == x[1] * y[2] < y[1] * x[2]

\* Sum of value(0), ..., value(n - 1).
SumTo(n, value(_)) == Loop(LAMBDA s, k : s ++ value(k), Zero, n)
=============================================================================
