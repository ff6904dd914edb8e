---------------------------- MODULE ExactComplex ----------------------------
(***************************************************************************)
(* Complex numbers without rounding: integer combinations of the first 32  *)
(* of the 64th roots of unity, the sum of z[i] w^(i-1) with w^32 = -1.     *)
(* Transforms of up to 64 samples stay inside.                             *)
(***************************************************************************)
EXTENDS Integers, Sequences

Order == 64
Degree == Order \div 2
Power == 1..Degree
Number == [Power -> Int]

(* the number with these coefficients, as a tuple *)
Sum(Coefficient(_)) == SubSeq([i \in Power |-> Coefficient(i)], 1, Degree)

Real(n) == Sum(LAMBDA i : IF i = 1 THEN n ELSE 0)
Zero == Real(0)

(* w^k *)
Root(k) == Sum(LAMBDA i : IF k % Order = i - 1 THEN 1
                          ELSE IF k % Order = i - 1 + Degree THEN -1 ELSE 0)

Plus(a, b) == Sum(LAMBDA i : a[i] + b[i])
Minus(a, b) == Sum(LAMBDA i : a[i] - b[i])
Scaled(a, n) == Sum(LAMBDA i : a[i] * n)
Conj(a) == Sum(LAMBDA i : IF i = 1 THEN a[1] ELSE -a[Degree + 2 - i])

(* exact where it is used: the signals are multiples of all their divisors *)
Divided(a, n) == Sum(LAMBDA i : a[i] \div n)

(* c w^k b, for k below Degree *)
Term(c, k, b) == Sum(LAMBDA i : IF i > k THEN c * b[i - k] ELSE -c * b[i - k + Degree])

(* The product of b and of the terms of a from the first to the last, by   *)
(* halves: products nest, and would nest deeply term after term.           *)
RECURSIVE Terms(_, _, _, _)
Terms(a, first, last, b) ==
  LET half == (first + last) \div 2
      Silent(m, n) == \A i \in m..n : a[i] = 0
  IN  IF first = last THEN Term(a[first], first - 1, b)
      ELSE IF Silent(first, half) THEN Terms(a, half + 1, last, b)
      ELSE IF Silent(half + 1, last) THEN Terms(a, first, half, b)
      ELSE Plus(Terms(a, first, half, b), Terms(a, half + 1, last, b))

Times(a, b) == Terms(a, 1, Degree, b)

(* cos(k * pi / 32) in thousandths *)
Quarter == <<1000, 995, 981, 957, 924, 882, 831, 773, 707, 634, 556, 471, 383, 290, 195, 98>>
Cosine == Quarter \o <<0>> \o [i \in 1..Degree \div 2 - 1 |-> -Quarter[Degree \div 2 - i + 1]]

(* the real part in thousandths *)
RECURSIVE RealTerms(_, _, _)
RealTerms(a, first, last) ==
  LET half == (first + last) \div 2
  IN  IF first = last THEN a[first] * Cosine[first]
      ELSE RealTerms(a, first, half) + RealTerms(a, half + 1, last)
RealPart(a) == RealTerms(a, 1, Degree)
=============================================================================
