-------------------------------- MODULE Decimal --------------------------------
(***************************************************************************)
(* util/decimal.h: a fixed-point number held as an int64_t count of       *)
(* cents.  Each operator below maps a decimal's _value to the _value the   *)
(* C++ operator produces.  C's integer division truncates toward zero,     *)
(* which is not TLA+'s \div (it floors), so CDiv stands for it.  The       *)
(* int64_t range is not modelled: the values used here are far from it.   *)
(***************************************************************************)
EXTENDS Integers

\* The absolute value of an integer.
Abs(n) == IF n < 0 THEN -n ELSE n

\* C's a / b on integers: the quotient truncated toward zero.
CDiv(a, b) ==
    IF (a < 0) = (b < 0) THEN Abs(a) \div Abs(b) ELSE -(Abs(a) \div Abs(b))

\* decimal(int value): value*100 cents.
FromInt(i) == i * 100

\* decimal(double value): (int64_t)(value*100).  Only whole-numbered doubles
\* are used (100. in tpch_q14.cpp), for which the product is exact.
FromDouble(x) == x * 100

\* operator+= and operator-=: the cents add.
DecAdd(a, b) == a + b
DecSub(a, b) == a - b

\* operator*=: (_value*other._value + 50)/100.
DecMul(a, b) == CDiv(a * b + 50, 100)

\* operator/=: (100*_value + 50)/other._value.  A zero divisor is a fault
\* (SIGFPE) in the code; callers test for it before using DecDiv.
DecDiv(a, b) == CDiv(100 * a + 50, b)

\* operator-(int a, decimal const &b): decimal(a) - b.
IntMinusDec(i, b) == DecSub(FromInt(i), b)

\* operator*(double a, decimal const &b): decimal(a) * b.
DoubleTimesDec(x, b) == DecMul(FromDouble(x), b)

\* The quotient a/b rounded half away from zero, by exact integer
\* arithmetic: the value a rounding divide of cents would give.
RoundDiv(a, b) ==
    IF (a < 0) = (b < 0) THEN (2 * Abs(a) + Abs(b)) \div (2 * Abs(b))
                         ELSE -((2 * Abs(a) + Abs(b)) \div (2 * Abs(b)))
=============================================================================
