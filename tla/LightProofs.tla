----------------------------- MODULE LightProofs -----------------------------
(***************************************************************************)
(* Light for every brightness, every duration and every lamp.              *)
(*                                                                         *)
(* First the curve: what powers are, that the number Round chooses exists, *)
(* and what a ramp is at its ends.  Then what the worker, the static       *)
(* variables and the PWM are at each of its steps.                         *)
(***************************************************************************)
EXTENDS Light, CoreModelProofs, WellFoundedInduction, TLAPS

------------------------------------------------------------------------------
(* Induction on natural numbers, for sets instead of predicates *)

\* A set of natural numbers that is not empty has a least one.
LEMMA LeastNumber ==
  ASSUME NEW S, S \subseteq Nat, S # {}
  PROVE  \E m \in S : \A k \in S : m <= k
PROOF
<1>1. IsWellFoundedOn(OpToRel(<, Nat), Nat)
  BY NatLessThanWellFounded
<1>2. PICK m \in S : \A k \in S : <<k, m>> \notin OpToRel(<, Nat)
  BY <1>1, WFMin
<1>3. \A k \in S : ~(k < m)
  BY <1>2 DEF OpToRel
<1> QED BY <1>3

\* A set that has zero and with each number the next has every number.
LEMMA EveryNumber ==
  ASSUME NEW S, 0 \in S, \A n \in Nat : n \in S => n + 1 \in S
  PROVE  \A n \in Nat : n \in S
PROOF
<1> SUFFICES ASSUME Nat \ S # {} PROVE FALSE
  OBVIOUS
<1>1. PICK m \in Nat \ S : \A k \in Nat \ S : m <= k
  BY LeastNumber
<1>2. m # 0 /\ m - 1 \in Nat
  OBVIOUS
<1>3. m - 1 \in S
  BY <1>1, <1>2
<1> QED BY <1>2, <1>3

------------------------------------------------------------------------------
(* Powers *)

\* The powers of b with exponents up to n.
Powers(b, n) ==
  {f \in [0 .. n -> Nat] : f[0] = 1 /\ \A i \in 1 .. n : f[i] = b * f[i - 1]}

\* The recursion of pow has a solution for the exponents up to any number ...
LEMMA PowersExist ==
  ASSUME NEW b \in Nat
  PROVE  \A n \in Nat : Powers(b, n) # {}
PROOF
<1> DEFINE S == {n \in Nat : Powers(b, n) # {}}
<1>1. 0 \in S
  <2>1. [i \in 0 .. 0 |-> 1] \in Powers(b, 0)
    BY DEF Powers
  <2> QED BY <2>1
<1>2. ASSUME NEW n \in Nat, n \in S
      PROVE  n + 1 \in S
  <2>1. PICK f \in Powers(b, n) : TRUE
    BY <1>2
  <2> DEFINE g == [i \in 0 .. n + 1 |-> IF i = n + 1 THEN b * f[n] ELSE f[i]]
  <2>2. f \in [0 .. n -> Nat] /\ f[0] = 1 /\ \A i \in 1 .. n : f[i] = b * f[i - 1]
    BY <2>1 DEF Powers
  <2>3. g \in [0 .. n + 1 -> Nat]
    BY <2>2
  <2>4. g[0] = 1
    BY <2>2
  <2>5. ASSUME NEW i \in 1 .. n + 1
        PROVE  g[i] = b * g[i - 1]
    BY <2>2
  <2>6. g \in Powers(b, n + 1)
    BY <2>3, <2>4, <2>5 DEF Powers
  <2> QED BY <2>6
<1> HIDE DEF S
<1>3. \A n \in Nat : n \in S
  BY <1>1, <1>2, EveryNumber
<1> QED BY <1>3 DEF S

\* ... and only one.
LEMMA PowersAgree ==
  ASSUME NEW b \in Nat, NEW n \in Nat, NEW m \in Nat,
         NEW f \in Powers(b, n), NEW g \in Powers(b, m),
         NEW i \in Nat, i <= n, i <= m
  PROVE  f[i] = g[i]
PROOF
<1> DEFINE S == {k \in Nat : k <= n /\ k <= m => f[k] = g[k]}
<1>1. 0 \in S
  BY DEF Powers
<1>2. ASSUME NEW k \in Nat, k \in S
      PROVE  k + 1 \in S
  <2> SUFFICES ASSUME k + 1 <= n, k + 1 <= m
               PROVE  f[k + 1] = g[k + 1]
    OBVIOUS
  <2>1. f[k + 1] = b * f[(k + 1) - 1] /\ g[k + 1] = b * g[(k + 1) - 1]
    BY DEF Powers
  <2>2. f[k] = g[k] /\ (k + 1) - 1 = k
    BY <1>2
  <2> QED BY <2>1, <2>2
<1> HIDE DEF S
<1>3. \A k \in Nat : k \in S
  BY <1>1, <1>2, EveryNumber
<1> QED BY <1>3 DEF S

\* pow is what its recursion says.
LEMMA PowIs ==
  ASSUME NEW b \in Nat
  PROVE  /\ pow(b, 0) = 1
         /\ \A n \in Nat : pow(b, n) \in Nat /\ pow(b, n + 1) = b * pow(b, n)
PROOF
<1> DEFINE F(n)  == CHOOSE f : f \in Powers(b, n)
           p     == [n \in Nat |-> F(n)[n]]
           R(g)  == [n \in Nat |-> IF n = 0 THEN 1 ELSE b * g[n - 1]]
           power == CHOOSE g : g = R(g)
<1>1. \A n \in Nat : F(n) \in Powers(b, n)
  BY PowersExist
<1> HIDE DEF F
<1>2. ASSUME NEW n \in Nat
      PROVE  p[n] = IF n = 0 THEN 1 ELSE b * p[n - 1]
  <2>1. CASE n = 0
    BY <1>1, <2>1 DEF Powers
  <2>2. CASE n # 0
    <3>1. n - 1 \in Nat /\ n \in 1 .. n
      BY <2>2
    <3>2. F(n)[n] = b * F(n)[n - 1]
      BY <1>1, <3>1 DEF Powers
    <3>3. F(n)[n - 1] = F(n - 1)[n - 1]
      BY <1>1, <3>1, PowersAgree
    <3> QED BY <2>2, <3>1, <3>2, <3>3
  <2> QED BY <2>1, <2>2
<1>3. p = R(p)
  <2> HIDE DEF p
  <2>1. [n \in Nat |-> p[n]] = R(p)
    BY <1>2
  <2>2. p = [n \in Nat |-> p[n]]
    BY DEF p
  <2> QED BY <2>1, <2>2
<1> HIDE DEF p
<1>4. power = R(power)
  BY <1>3, Zenon
<1> HIDE DEF power
<1>5. \A n \in Nat : power[n] = IF n = 0 THEN 1 ELSE b * power[n - 1]
  BY <1>4
<1>6. \A n \in Nat : pow(b, n) = power[n]
  BY DEF pow, power
<1> DEFINE S == {n \in Nat : power[n] \in Nat}
<1>7. 0 \in S
  BY <1>5
<1>8. \A n \in Nat : power[n + 1] = b * power[n]
  BY <1>5
<1>9. \A n \in Nat : n \in S => n + 1 \in S
  BY <1>8
<1> HIDE DEF S
<1>10. \A n \in Nat : n \in S
  BY <1>7, <1>9, EveryNumber
<1> QED BY <1>5, <1>6, <1>8, <1>10 DEF S

\* A greater base makes no smaller power.
LEMMA PowMonotone ==
  ASSUME NEW a \in Nat, NEW b \in Nat, a <= b
  PROVE  \A n \in Nat : pow(a, n) <= pow(b, n)
PROOF
<1> DEFINE S == {n \in Nat : pow(a, n) <= pow(b, n)}
<1>1. 0 \in S
  BY PowIs
<1>2. ASSUME NEW n \in Nat, n \in S
      PROVE  n + 1 \in S
  <2> DEFINE x == pow(a, n)
             y == pow(b, n)
  <2>1. x \in Nat /\ y \in Nat /\ x <= y
    BY <1>2, PowIs
  <2>2. pow(a, n + 1) = a * x /\ pow(b, n + 1) = b * y
    BY PowIs
  <2> HIDE DEF x, y
  <2>3. a * x <= a * y
    BY <2>1
  <2>4. a * y <= b * y
    BY <2>1
  <2>5. a * x \in Nat /\ a * y \in Nat /\ b * y \in Nat
    BY <2>1
  <2> QED BY <2>2, <2>3, <2>4, <2>5
<1> HIDE DEF S
<1>3. \A n \in Nat : n \in S
  BY <1>1, <1>2, EveryNumber
<1> QED BY <1>3 DEF S

\* No power of a positive number is zero.
LEMMA PowPositive ==
  ASSUME NEW b \in Nat \ {0}
  PROVE  \A n \in Nat : pow(b, n) >= 1
PROOF
<1> DEFINE S == {n \in Nat : pow(b, n) >= 1}
<1>1. 0 \in S
  BY PowIs
<1>2. ASSUME NEW n \in Nat, n \in S
      PROVE  n + 1 \in S
  <2> DEFINE y == pow(b, n)
  <2>1. y \in Nat /\ y >= 1 /\ pow(b, n + 1) = b * y
    BY <1>2, PowIs
  <2> HIDE DEF y
  <2>2. b * y >= 1
    BY <2>1
  <2> QED BY <2>1, <2>2
<1> HIDE DEF S
<1>3. \A n \in Nat : n \in S
  BY <1>1, <1>2, EveryNumber
<1> QED BY <1>3 DEF S

\* A greater base makes a greater power.
LEMMA PowStrict ==
  ASSUME NEW a \in Nat, NEW b \in Nat, a < b, NEW n \in Nat \ {0}
  PROVE  pow(a, n) < pow(b, n)
PROOF
<1> DEFINE x == pow(a, n - 1)
           y == pow(b, n - 1)
<1>1. n - 1 \in Nat /\ (n - 1) + 1 = n
  OBVIOUS
<1>2. x \in Nat /\ y \in Nat /\ pow(a, n) = a * x /\ pow(b, n) = b * y
  BY <1>1, PowIs
<1>3. x <= y
  BY <1>1, PowMonotone
<1>4. y >= 1
  BY <1>1, PowPositive
<1> HIDE DEF x, y
<1>5. a * x <= a * y
  BY <1>2, <1>3
<1>6. a * y < b * y
  BY <1>2, <1>4
<1>7. a * x \in Nat /\ a * y \in Nat /\ b * y \in Nat
  BY <1>2
<1> QED BY <1>2, <1>5, <1>6, <1>7

\* Bases whose powers are ordered are ordered.
LEMMA PowBase ==
  ASSUME NEW a \in Nat, NEW b \in Nat, NEW n \in Nat \ {0}
  PROVE  /\ pow(a, n) <= pow(b, n) => a <= b
         /\ pow(a, n) < pow(b, n) => a < b
PROOF
<1>1. pow(a, n) \in Nat /\ pow(b, n) \in Nat
  BY PowIs
<1>2. b < a => pow(b, n) < pow(a, n)
  BY PowStrict
<1>3. b <= a => pow(b, n) <= pow(a, n)
  BY PowMonotone
<1> QED BY <1>1, <1>2, <1>3

\* The power of a product is the product of the powers.
LEMMA PowProduct ==
  ASSUME NEW a \in Nat, NEW b \in Nat
  PROVE  \A n \in Nat : pow(a * b, n) = pow(a, n) * pow(b, n)
PROOF
<1> DEFINE S == {n \in Nat : pow(a * b, n) = pow(a, n) * pow(b, n)}
<1>0. a * b \in Nat
  OBVIOUS
<1>1. 0 \in S
  BY <1>0, PowIs
<1>2. ASSUME NEW n \in Nat, n \in S
      PROVE  n + 1 \in S
  <2> DEFINE x == pow(a, n)
             y == pow(b, n)
  <2>1. x \in Nat /\ y \in Nat /\ pow(a * b, n) = x * y
    BY <1>2, PowIs
  <2>2. /\ pow(a * b, n + 1) = (a * b) * pow(a * b, n)
        /\ pow(a, n + 1) = a * x
        /\ pow(b, n + 1) = b * y
    BY <1>0, PowIs
  <2> HIDE DEF x, y
  <2>3. (a * b) * (x * y) = (a * x) * (b * y)
    BY <2>1
  <2> QED BY <2>1, <2>2, <2>3
<1> HIDE DEF S
<1>3. \A n \in Nat : n \in S
  BY <1>1, <1>2, EveryNumber
<1> QED BY <1>3 DEF S

\* A greater exponent makes no smaller power of a positive number.
LEMMA PowExponent ==
  ASSUME NEW b \in Nat \ {0}, NEW m \in Nat
  PROVE  \A n \in Nat : m <= n => pow(b, m) <= pow(b, n)
PROOF
<1> DEFINE S == {n \in Nat : m <= n => pow(b, m) <= pow(b, n)}
<1>1. 0 \in S
  BY PowIs
<1>2. ASSUME NEW n \in Nat, n \in S
      PROVE  n + 1 \in S
  <2> DEFINE x == pow(b, m)
             y == pow(b, n)
  <2>1. x \in Nat /\ y \in Nat /\ pow(b, n + 1) = b * y
    BY PowIs
  <2>2. CASE m = n + 1
    BY <2>1, <2>2
  <2>3. CASE m <= n
    <3>1. x <= y
      BY <1>2, <2>3
    <3> HIDE DEF x, y
    <3>2. y <= b * y
      BY <2>1
    <3>3. x <= b * y /\ b * y \in Nat
      BY <2>1, <3>1, <3>2
    <3> QED BY <2>1, <3>3 DEF x
  <2>4. CASE m > n + 1
    BY <2>4
  <2> QED BY <2>2, <2>3, <2>4
<1> HIDE DEF S
<1>3. \A n \in Nat : n \in S
  BY <1>1, <1>2, EveryNumber
<1> QED BY <1>3 DEF S

------------------------------------------------------------------------------
(* The curve *)

\* What Round rounds, as a power with exponent period - 1.
Curve(span, curr, period) == pow(2, period - 1) * pow(span + 1, curr)

\* The number that is less than a half away exists.
LEMMA RoundIsNearest ==
  ASSUME NEW span \in Nat, NEW period \in Nat \ {0, 1}, NEW curr \in 0 .. period - 1
  PROVE  LET r == Round(span, curr, period)
         IN  /\ r \in 1 .. span + 1
             /\ pow(2 * r - 1, period - 1) <= Curve(span, curr, period)
             /\ Curve(span, curr, period) < pow(2 * r + 1, period - 1)
PROOF
<1> DEFINE q == period - 1
           x == Curve(span, curr, period)
           S == {k \in Nat : x < pow(2 * k + 1, q)}
<1>1. q \in Nat \ {0} /\ curr \in Nat /\ curr <= q /\ span + 1 \in Nat \ {0}
  OBVIOUS
<1>2. pow(2, q) \in Nat /\ pow(2, q) >= 1 /\ pow(span + 1, curr) \in Nat
        /\ pow(span + 1, curr) >= 1 /\ pow(span + 1, q) \in Nat
  <2>1. \A b \in Nat \ {0}, n \in Nat : pow(b, n) \in Nat /\ pow(b, n) >= 1
    BY PowIs, PowPositive
  <2>2. 2 \in Nat \ {0} /\ q \in Nat
    OBVIOUS
  <2> HIDE DEF q
  <2>3. pow(2, q) \in Nat /\ pow(2, q) >= 1
    BY <2>1, <2>2
  <2> QED BY <1>1, <2>1, <2>2, <2>3
<1>3. x \in Nat /\ x >= 1
  BY <1>2 DEF Curve
<1>4. x <= pow(2 * (span + 1), q)
  <2>1. pow(span + 1, curr) <= pow(span + 1, q)
    BY <1>1, PowExponent
  <2>2. pow(2, q) * pow(span + 1, curr) <= pow(2, q) * pow(span + 1, q)
    BY <1>2, <2>1
  <2>3. pow(2 * (span + 1), q) = pow(2, q) * pow(span + 1, q)
    BY <1>1, PowProduct
  <2> QED BY <2>2, <2>3 DEF Curve
<1>5. span + 1 \in S
  <2>1. 2 * (span + 1) \in Nat /\ 2 * (span + 1) + 1 \in Nat
    OBVIOUS
  <2>2. pow(2 * (span + 1), q) < pow(2 * (span + 1) + 1, q)
    BY <1>1, <2>1, PowStrict
  <2>3. pow(2 * (span + 1), q) \in Nat /\ pow(2 * (span + 1) + 1, q) \in Nat
    BY <1>1, <2>1, PowIs
  <2> HIDE DEF x, q
  <2> QED BY <1>3, <1>4, <2>2, <2>3
<1>6. PICK r \in S : \A k \in S : r <= k
  BY <1>5, LeastNumber
<1>7. r # 0
  <2>1. pow(1, q) < pow(2, q) /\ pow(1, q) \in Nat
    BY <1>1, PowStrict, PowIs
  <2>2. pow(2, q) * 1 <= pow(2, q) * pow(span + 1, curr)
    BY <1>2
  <2>3. pow(2, q) <= x
    BY <1>2, <2>2 DEF Curve
  <2>4. r = 0 => x < pow(1, q)
    BY <1>6
  <2> HIDE DEF x, q
  <2> QED BY <1>2, <1>3, <2>1, <2>3, <2>4
<1>8. r \in 1 .. span + 1 /\ x < pow(2 * r + 1, q)
  BY <1>5, <1>6, <1>7
<1>9. pow(2 * r - 1, q) <= x
  <2>1. r - 1 \in Nat /\ r - 1 \notin S
    BY <1>6, <1>7
  <2>2. 2 * (r - 1) + 1 = 2 * r - 1 /\ 2 * r - 1 \in Nat
    BY <1>8
  <2>3. ~(x < pow(2 * r - 1, q))
    BY <2>1, <2>2
  <2>4. pow(2 * r - 1, q) \in Nat
    BY <1>1, <2>2, PowIs
  <2> HIDE DEF x, q
  <2> QED BY <1>3, <2>3, <2>4
<1>10. \E k \in 1 .. span + 1 : pow(2 * k - 1, q) <= x /\ x < pow(2 * k + 1, q)
  BY <1>8, <1>9
<1>11. Round(span, curr, period)
         = CHOOSE k \in 1 .. span + 1 : pow(2 * k - 1, q) <= x /\ x < pow(2 * k + 1, q)
  BY DEF Round, Curve
<1> HIDE DEF x, q
<1> QED BY <1>10, <1>11 DEF x, q

\* A ramp begins at its lower end ...
LEMMA RoundAtZero ==
  ASSUME NEW span \in Nat, NEW period \in Nat \ {0, 1}
  PROVE  Round(span, 0, period) = 1
PROOF
<1> DEFINE q == period - 1
           r == Round(span, 0, period)
<1>1. q \in Nat \ {0} /\ 0 \in 0 .. q
  OBVIOUS
<1>2. pow(2, q) \in Nat /\ Curve(span, 0, period) = pow(2, q)
  BY <1>1, PowIs DEF Curve
<1>3. r \in 1 .. span + 1 /\ pow(2 * r - 1, q) <= pow(2, q)
  BY <1>2, RoundIsNearest
<1> HIDE DEF r, q
<1>4. 2 * r - 1 \in Nat
  BY <1>3
<1>5. 2 * r - 1 <= 2
  BY <1>1, <1>3, <1>4, PowBase
<1>6. r = 1
  BY <1>3, <1>5
<1> QED BY <1>6 DEF r

\* ... and ends at its upper one.
LEMMA RoundAtEnd ==
  ASSUME NEW span \in Nat, NEW period \in Nat \ {0, 1}
  PROVE  Round(span, period - 1, period) = span + 1
PROOF
<1> DEFINE q == period - 1
           r == Round(span, q, period)
<1>1. q \in Nat \ {0} /\ q \in 0 .. q /\ span + 1 \in Nat /\ 2 * (span + 1) \in Nat
  OBVIOUS
<1>2. Curve(span, q, period) = pow(2 * (span + 1), q)
  BY <1>1, PowProduct DEF Curve
<1>3. r \in 1 .. span + 1 /\ pow(2 * (span + 1), q) < pow(2 * r + 1, q)
  BY <1>1, <1>2, RoundIsNearest
<1> HIDE DEF r, q
<1>4. 2 * r + 1 \in Nat
  BY <1>3
<1>5. 2 * (span + 1) < 2 * r + 1
  BY <1>1, <1>3, <1>4, PowBase
<1>6. r = span + 1
  BY <1>3, <1>5
<1> QED BY <1>6 DEF r, q

\* A later second never has a smaller number.
LEMMA RoundMonotone ==
  ASSUME NEW span \in Nat, NEW period \in Nat \ {0, 1},
         NEW c \in 0 .. period - 1, NEW d \in 0 .. period - 1, c <= d
  PROVE  Round(span, c, period) <= Round(span, d, period)
PROOF
<1> DEFINE q == period - 1
           r == Round(span, c, period)
           s == Round(span, d, period)
           x == Curve(span, c, period)
           y == Curve(span, d, period)
<1>1. q \in Nat \ {0} /\ c \in Nat /\ d \in Nat /\ span + 1 \in Nat \ {0}
  OBVIOUS
<1>2. /\ r \in 1 .. span + 1 /\ s \in 1 .. span + 1
      /\ pow(2 * r - 1, q) <= x /\ y < pow(2 * s + 1, q)
  BY RoundIsNearest
<1>3. x \in Nat /\ y \in Nat /\ x <= y
  <2>1. /\ pow(span + 1, c) \in Nat /\ pow(span + 1, d) \in Nat /\ pow(2, q) \in Nat
        /\ pow(span + 1, c) <= pow(span + 1, d)
    BY <1>1, PowIs, PowExponent
  <2> QED BY <2>1 DEF Curve
<1> HIDE DEF q, r, s, x, y
<1>4. 2 * r - 1 \in Nat /\ 2 * s + 1 \in Nat
  BY <1>2
<1>5. pow(2 * r - 1, q) \in Nat /\ pow(2 * s + 1, q) \in Nat
  BY <1>1, <1>4, PowIs
<1>6. pow(2 * r - 1, q) < pow(2 * s + 1, q)
  BY <1>2, <1>3, <1>5
<1>7. 2 * r - 1 < 2 * s + 1
  BY <1>1, <1>4, <1>6, PowBase
<1>8. r <= s
  BY <1>2, <1>7
<1> QED BY <1>8 DEF r, s

\* The constants one by one.
LEMMA LightTypes ==
  /\ MAX_TIM_PWM \in Nat /\ LAMP_PWM_MIN_TRASHOLD \in Nat
  /\ MaxTime \in Nat /\ MaxTime < WordMod
  /\ MAX_OUT_VAL \in Nat /\ MAX_OUT_VAL = 2 * MAX_TIM_PWM
  /\ MID_OUT_VAL \in 0 .. MAX_OUT_VAL
  /\ LampPeriod \in Nat \ {0, 1}
  /\ WaitTimes \subseteq Word
  BY LightAssumption DEF MAX_OUT_VAL

\* A time that is past the end of a ramp counts as its last second.
LEMMA Capped ==
  ASSUME NEW period \in Nat \ {0, 1}, NEW x \in Nat
  PROVE  /\ AtMost(period - 1, x) \in 0 .. period - 1
         /\ x <= period - 1 => AtMost(period - 1, x) = x
  BY DEF AtMost

\* A ramp stays between what it comes from and what it leads to; its first
\* second shows the one and its last the other.
LEMMA RampFromTo ==
  ASSUME NEW from \in Nat, NEW to \in Nat, NEW period \in Nat \ {0, 1}, NEW x \in Nat
  PROVE  LET value == Ramp(from, to, period, x)
         IN  /\ value \in Nat
             /\ from < to => from <= value /\ value <= to
             /\ ~(from < to) => to <= value /\ value <= from
             /\ x = 0 => value = from
             /\ x = period - 1 => value = to
PROOF
<1> DEFINE curr == AtMost(period - 1, x)
           back == period - curr - 1
           value == Ramp(from, to, period, x)
<1>1. /\ curr \in 0 .. period - 1 /\ back \in 0 .. period - 1
      /\ x = 0 => curr = 0 /\ back = period - 1
      /\ x = period - 1 => curr = period - 1 /\ back = 0
  BY Capped
<1>2. \A span \in Nat, c \in 0 .. period - 1 :
         /\ Round(span, c, period) \in 1 .. span + 1
         /\ c = 0 => Round(span, c, period) = 1
         /\ c = period - 1 => Round(span, c, period) = span + 1
  BY RoundIsNearest, RoundAtZero, RoundAtEnd
<1>3. CASE from < to
  <2>1. value = from + Round(to - from, curr, period) - 1
    BY <1>3 DEF Ramp
  <2>2. to - from \in Nat
    BY <1>3
  <2> HIDE DEF curr, back, value
  <2>3. /\ Round(to - from, curr, period) \in 1 .. (to - from) + 1
        /\ curr = 0 => Round(to - from, curr, period) = 1
        /\ curr = period - 1 => Round(to - from, curr, period) = (to - from) + 1
    BY <1>1, <1>2, <2>2
  <2>4. /\ value \in Nat /\ from <= value /\ value <= to
        /\ x = 0 => value = from
        /\ x = period - 1 => value = to
    BY <1>1, <2>1, <2>2, <2>3
  <2> QED BY <1>3, <2>4 DEF value
<1>4. CASE ~(from < to)
  <2>1. value = to + Round(from - to, back, period) - 1
    BY <1>4 DEF Ramp
  <2>2. from - to \in Nat
    BY <1>4
  <2> HIDE DEF curr, back, value
  <2>3. /\ Round(from - to, back, period) \in 1 .. (from - to) + 1
        /\ back = 0 => Round(from - to, back, period) = 1
        /\ back = period - 1 => Round(from - to, back, period) = (from - to) + 1
    BY <1>1, <1>2, <2>2
  <2>4. /\ value \in Nat /\ to <= value /\ value <= from
        /\ x = 0 => value = from
        /\ x = period - 1 => value = to
    BY <1>1, <2>1, <2>2, <2>3
  <2> QED BY <1>4, <2>4 DEF value
<1> QED BY <1>3, <1>4

\* A ramp goes one way only: up to a brighter light, down to a darker one.
LEMMA RampMonotone ==
  ASSUME NEW from \in Nat, NEW to \in Nat, NEW period \in Nat \ {0, 1},
         NEW x \in Nat, NEW y \in Nat, x <= y
  PROVE  /\ from < to => Ramp(from, to, period, x) <= Ramp(from, to, period, y)
         /\ ~(from < to) => Ramp(from, to, period, y) <= Ramp(from, to, period, x)
PROOF
<1> DEFINE c  == AtMost(period - 1, x)
           d  == AtMost(period - 1, y)
           bc == period - c - 1
           bd == period - d - 1
<1>1. c \in 0 .. period - 1 /\ d \in 0 .. period - 1 /\ c <= d
  BY DEF AtMost
<1>2. bc \in 0 .. period - 1 /\ bd \in 0 .. period - 1 /\ bd <= bc
  BY <1>1
<1>3. /\ Ramp(from, to, period, x) = IF from < to THEN from + Round(to - from, c, period) - 1
                                     ELSE to + Round(from - to, bc, period) - 1
      /\ Ramp(from, to, period, y) = IF from < to THEN from + Round(to - from, d, period) - 1
                                     ELSE to + Round(from - to, bd, period) - 1
  BY DEF Ramp
<1> HIDE DEF c, d, bc, bd
<1>4. \A span \in Nat, i \in 0 .. period - 1 : Round(span, i, period) \in 1 .. span + 1
  BY RoundIsNearest
<1>5. CASE from < to
  <2>1. to - from \in Nat
    BY <1>5
  <2>2. /\ Round(to - from, c, period) \in Int /\ Round(to - from, d, period) \in Int
        /\ Round(to - from, c, period) <= Round(to - from, d, period)
    BY <1>1, <1>4, <2>1, RoundMonotone
  <2> QED BY <1>3, <1>5, <2>2
<1>6. CASE ~(from < to)
  <2>1. from - to \in Nat
    BY <1>6
  <2>2. /\ Round(from - to, bc, period) \in Int /\ Round(from - to, bd, period) \in Int
        /\ Round(from - to, bd, period) <= Round(from - to, bc, period)
    BY <1>2, <1>4, <2>1, RoundMonotone
  <2> QED BY <1>3, <1>6, <2>2
<1> QED BY <1>5, <1>6

------------------------------------------------------------------------------
(* The two LEDs *)

\* One LED after the other shows the whole brightness.
LEMMA SequentialLeds ==
  ASSUME NEW v \in 0 .. MAX_OUT_VAL
  PROVE  set_sequential(v) \in PWM \X PWM /\ Total(set_sequential(v)) = v
PROOF
<1>1. AtMost(MAX_OUT_VAL, v) = v
  BY LightTypes DEF AtMost
<1>2. CASE v < MAX_TIM_PWM
  <2>1. set_sequential(v) = <<v, 0>>
    BY <1>1, <1>2 DEF set_sequential
  <2>2. v \in PWM /\ 0 \in PWM
    BY <1>2, LightTypes DEF PWM
  <2> QED BY <2>1, <2>2 DEF Total
<1>3. CASE ~(v < MAX_TIM_PWM)
  <2>1. set_sequential(v) = <<MAX_TIM_PWM, v - MAX_TIM_PWM>>
    BY <1>1, <1>3 DEF set_sequential
  <2>2. MAX_TIM_PWM \in PWM /\ v - MAX_TIM_PWM \in PWM
    BY <1>3, LightTypes DEF PWM
  <2>3. MAX_TIM_PWM + (v - MAX_TIM_PWM) = v
    BY LightTypes
  <2> QED BY <2>1, <2>2, <2>3 DEF Total
<1> QED BY <1>2, <1>3

\* Both together may lose a half.
LEMMA ParallelLeds ==
  ASSUME NEW v \in 0 .. MAX_OUT_VAL
  PROVE  /\ set_parallel(v) \in PWM \X PWM
         /\ Total(set_parallel(v)) \in Nat
         /\ v - Total(set_parallel(v)) \in {0, 1}
PROOF
<1> DEFINE half == v \div 2
<1>1. AtMost(MAX_OUT_VAL, v) = v
  BY LightTypes DEF AtMost
<1>2. set_parallel(v) = <<half, half>>
  BY <1>1 DEF set_parallel
<1>3. half \in Nat /\ v - (half + half) \in {0, 1}
  OBVIOUS
<1> HIDE DEF half
<1>4. half \in PWM
  BY <1>3, LightTypes DEF PWM
<1> QED BY <1>2, <1>3, <1>4 DEF Total

\* What brightness_log_xlate_to_2_auto shows is never brighter than both ends of
\* the ramp, and shows each of them in its second, but for a lost half.
LEMMA AutoFromTo ==
  ASSUME NEW from \in 0 .. MAX_OUT_VAL, NEW to \in 0 .. MAX_OUT_VAL,
         NEW period \in Nat \ {0, 1}, NEW x \in Nat
  PROVE  LET leds == AutoLeds(from, to, period, x)
         IN  /\ leds \in PWM \X PWM
             /\ Total(leds) \in Nat
             /\ Total(leds) <= from \/ Total(leds) <= to
             /\ x = 0 => from - Total(leds) \in {0, 1}
             /\ x = period - 1 => to - Total(leds) \in {0, 1}
PROOF
<1> DEFINE value == Ramp(from, to, period, x)
           leds  == AutoLeds(from, to, period, x)
<1>1. from \in Nat /\ to \in Nat
  OBVIOUS
<1>2. /\ value \in Nat /\ (value <= from \/ value <= to)
      /\ x = 0 => value = from
      /\ x = period - 1 => value = to
  BY <1>1, RampFromTo
<1>3. leds = IF from < to THEN set_sequential(value) ELSE set_parallel(value)
  BY DEF AutoLeds
<1> HIDE DEF value, leds
<1>4. value \in 0 .. MAX_OUT_VAL
  BY <1>2, LightTypes
<1>5. leds \in PWM \X PWM /\ Total(leds) \in Nat /\ value - Total(leds) \in {0, 1}
  <2>1. value - value \in {0, 1}
    BY <1>2
  <2> QED BY <1>2, <1>3, <1>4, <2>1, SequentialLeds, ParallelLeds
<1>6. /\ leds \in PWM \X PWM
      /\ Total(leds) \in Nat
      /\ Total(leds) <= from \/ Total(leds) <= to
      /\ x = 0 => from - Total(leds) \in {0, 1}
      /\ x = period - 1 => to - Total(leds) \in {0, 1}
  BY <1>2, <1>5
<1> QED BY <1>6 DEF leds

\* As an alarm goes on, the light of a rise never gets darker and the light of a
\* decrease never brighter, whatever the rounding and the halving do.
THEOREM RampsGoOneWay ==
  ASSUME NEW from \in 0 .. MAX_OUT_VAL, NEW to \in 0 .. MAX_OUT_VAL,
         NEW period \in Nat \ {0, 1}, NEW x \in Nat, NEW y \in Nat, x <= y
  PROVE  LET Seen(second) == Total(AutoLeds(from, to, period, second))
         IN  IF from < to THEN Seen(x) <= Seen(y) ELSE Seen(y) <= Seen(x)
PROOF
<1> DEFINE v == Ramp(from, to, period, x)
           w == Ramp(from, to, period, y)
<1>1. from \in Nat /\ to \in Nat
  OBVIOUS
<1>2. /\ v \in 0 .. MAX_OUT_VAL /\ w \in 0 .. MAX_OUT_VAL
      /\ from < to => v <= w
      /\ ~(from < to) => w <= v
  <2>1. /\ v \in Nat /\ (from < to => v <= to)
        /\ ~(from < to) => v <= from
    BY <1>1, RampFromTo
  <2>2. /\ w \in Nat /\ (from < to => w <= to)
        /\ ~(from < to) => w <= from
    BY <1>1, RampFromTo
  <2>3. (from < to => v <= w) /\ (~(from < to) => w <= v)
    BY <1>1, RampMonotone
  <2> HIDE DEF v, w
  <2> QED BY <2>1, <2>2, <2>3, LightTypes
<1>3. /\ AutoLeds(from, to, period, x) = IF from < to THEN set_sequential(v) ELSE set_parallel(v)
      /\ AutoLeds(from, to, period, y) = IF from < to THEN set_sequential(w) ELSE set_parallel(w)
  BY DEF AutoLeds
<1> HIDE DEF v, w
<1>4. CASE from < to
  BY <1>2, <1>3, <1>4, SequentialLeds
<1>5. CASE ~(from < to)
  <2>1. /\ set_parallel(v) = <<v \div 2, v \div 2>>
        /\ set_parallel(w) = <<w \div 2, w \div 2>>
    BY <1>2, LightTypes DEF set_parallel, AtMost
  <2>2. w \div 2 <= v \div 2 /\ v \div 2 \in Int /\ w \div 2 \in Int
    BY <1>2, <1>5
  <2>3. Total(set_parallel(w)) <= Total(set_parallel(v))
    BY <2>1, <2>2 DEF Total
  <2> QED BY <1>3, <1>5, <2>3
<1> QED BY <1>4, <1>5

------------------------------------------------------------------------------
(* The worker, the static variables and the PWM *)

\* A dimming that is going on, and did not find pev_ops left behind.
Dimming == Dims(io.light) /\ ~leftover /\ worker \notin {"none", "start"}

\* What the light is while the worker has to do with it.
WorkerInv ==
  /\ worker \notin {"none", "start"} => lamp_alarm_active
  /\ worker = "start" => io.light = NoLight
  /\ io.light = NoLight \/ Alight(io.light)
  /\ worker \in {"sample", "remember", "leds", "exit"} => Alight(io.light)
  /\ worker \in {"sample", "remember"} =>
       io.light.from # io.light.to /\ io.light.period >= 2
  /\ Ramping =>
       led = AutoLeds(value_from, Value(io.light.to), io.light.period, io.light.curr)

\* While an alarm is being dimmed, whatever lamp commands come: the PWM, what has
\* been read of it and what the ramp starts from are not above the peak.
PeakInv ==
  Dimming =>
    /\ Total(ccr) <= peak
    /\ pev_ops = "THIS_OR_OFF" => cached_value <= peak
    /\ worker = "remember" => value_from = cached_value /\ cached_value <= peak
    /\ Ramping => value_from <= peak

\* If none comes: before the first round reads the PWM it is as at the start, and
\* from then on cached_value is, which the later rounds go back to, since pev_ops
\* says that it has been read.
StartInv ==
  Dimming /\ quiet =>
    /\ worker = "sample" =>
         IF pev_ops = "THIS_OR_OFF" THEN cached_value = start ELSE Total(ccr) = start
    /\ worker = "remember" => cached_value = start
    /\ worker \in {"model", "leds", "exit"} /\ io.light.period >= 2 =>
         pev_ops = "THIS_OR_OFF" /\ cached_value = start
    /\ Ramping => value_from = start

LightInv == TypeOK /\ WorkerInv /\ PeakInv /\ StartInv

\* A brightness that is asked for by name is one the LEDs have.
LEMMA ValueTypes ==
  /\ \A ops : Value(ops) \in 0 .. MAX_OUT_VAL
  /\ Value("MID") = MID_OUT_VAL
  BY LightTypes DEF Value

\* What the LEDs show together is a brightness they have.
LEMMA TotalTypes ==
  \A leds \in PWM \X PWM : Total(leds) \in 0 .. MAX_OUT_VAL
  BY LightTypes DEF Total, PWM

\* What a lamp command computes is for two PWM channels.
LEMMA LampTypes ==
  ASSUME NEW type \in {"parallel", "warm", "cold"}, NEW brightnes \in 0 .. LampPeriod - 1
  PROVE  Lamp(type, brightnes) \in PWM \X PWM
PROOF
<1> DEFINE value == Ramp(Value("OFF"), Value("MAX"), LampPeriod, brightnes)
<1>1. /\ Value("OFF") \in Nat /\ Value("MAX") \in Nat
      /\ Value("OFF") <= MAX_OUT_VAL /\ Value("MAX") <= MAX_OUT_VAL
  BY ValueTypes, LightTypes
<1>2. value \in 0 .. MAX_OUT_VAL
  <2>1. brightnes \in Nat
    BY LightTypes
  <2>2. value \in Nat /\ (value <= Value("OFF") \/ value <= Value("MAX"))
    BY <1>1, <2>1, LightTypes, RampFromTo
  <2> HIDE DEF value
  <2> QED BY <1>1, <2>2, LightTypes
<1>3. set_sequential(value) \in PWM \X PWM /\ set_parallel(value) \in PWM \X PWM
  BY <1>2, SequentialLeds, ParallelLeds
<1>4. Lamp(type, brightnes) \in
        {set_parallel(value), set_sequential(value),
         <<set_sequential(value)[2], set_sequential(value)[1]>>}
  BY DEF Lamp
<1> HIDE DEF value
<1> QED BY <1>3, <1>4

\* The lamp's values are for two channels; while the worker owns the PWM the lamp
\* leaves it alone.
LEMMA LampLeds ==
  ASSUME TypeOK, NEW leds \in PWM \X PWM, lamp_set_leds(leds)
  PROVE  /\ lamp_led' \in PWM \X PWM /\ ccr' \in PWM \X PWM
         /\ lamp_alarm_active => ccr' = ccr
PROOF
<1>1. 0 \in PWM
  BY LightTypes DEF PWM
<1>2. lamp_led' \in PWM \X PWM
  BY <1>1 DEF lamp_set_leds
<1> QED BY <1>2 DEF lamp_set_leds, TypeOK

\* The model is called with an io block and gives one back, with a light in it.
LEMMA ModelLight ==
  ASSUME TypeOK, NEW disarm \in BOOLEAN, WorkerModel(disarm)
  PROVE  io' \in IO /\ Alight(io'.light)
PROOF
<1> DEFINE b == IF disarm THEN set_disarm_new(io) ELSE io
<1>1. rtc \in Word /\ wait \in Word /\ io \in IO
  BY LightTypes, DurationTypes DEF TypeOK, Word
<1>2. b \in IO
  BY <1>1, OtherFlags
<1>3. io' = do_alarm_model(rtc, b, wait)
  BY DEF WorkerModel
<1> HIDE DEF b
<1> QED BY <1>1, <1>2, <1>3, CallBlock

\* A worker begins with a block without a light.
LEMMA StartLight ==
  ASSUME NEW info \in SUBSET Flags, NEW adj \in Word
  PROVE  /\ StartIO(info, adj) \in IO
         /\ StartIO(info, adj).light = NoLight
         /\ ~Dims(NoLight)
  BY StartIOFields DEF Dims, NoLight

\* At power on everything is dark.
LEMMA LightInit == Init => LightInv
PROOF
<1> SUFFICES ASSUME Init PROVE LightInv
  OBVIOUS
<1>1. 0 \in PWM /\ 0 \in 0 .. MAX_OUT_VAL /\ 0 \in 0 .. MaxTime /\ 0 \in Word
  BY LightTypes, DurationTypes DEF PWM, Word
<1>2. io \in IO /\ io.light = NoLight /\ ~Dims(io.light)
  <2>1. A_ALARM_POR_VALUE \in SUBSET Flags
    BY DEF A_ALARM_POR_VALUE, Flags
  <2> QED BY <1>1, <2>1, StartLight DEF Init
<1>3. TypeOK
  <2>1. {lamp_alarm_active, quiet, leftover} \subseteq BOOLEAN
    BY Zenon DEF Init
  <2>2. pev_ops \in Levels
    BY DEF Init, Levels
  <2> QED BY <1>1, <1>2, <2>1, <2>2 DEF Init, TypeOK
<1>4. worker = "none"
  BY DEF Init
<1>5. WorkerInv
  BY <1>2, <1>4 DEF WorkerInv, Ramping
<1>6. PeakInv /\ StartInv
  BY <1>4 DEF PeakInv, StartInv, Dimming
<1> QED BY <1>3, <1>5, <1>6 DEF LightInv

\* Every step keeps the types: what is computed are values the PWM can take.
LEMMA TypeStep == TypeOK /\ WorkerInv /\ [Next]_vars => TypeOK'
PROOF
<1> SUFFICES ASSUME TypeOK, WorkerInv, [Next]_vars PROVE TypeOK'
  OBVIOUS
<1>0. /\ rtc \in 0 .. MaxTime /\ wait \in WaitTimes
      /\ io \in IO
      /\ worker \in {"none", "start", "model", "sample", "remember", "leds", "exit"}
      /\ pev_ops \in Levels
      /\ cached_value \in 0 .. MAX_OUT_VAL /\ value_from \in 0 .. MAX_OUT_VAL
      /\ start \in 0 .. MAX_OUT_VAL /\ peak \in 0 .. MAX_OUT_VAL
      /\ led \in PWM \X PWM /\ lamp_led \in PWM \X PWM /\ ccr \in PWM \X PWM
      /\ lamp_alarm_active \in BOOLEAN /\ quiet \in BOOLEAN /\ leftover \in BOOLEAN
  BY DEF TypeOK
<1> DEFINE Goal ==
      /\ rtc' \in 0 .. MaxTime /\ wait' \in WaitTimes
      /\ io' \in IO
      /\ worker' \in {"none", "start", "model", "sample", "remember", "leds", "exit"}
      /\ pev_ops' \in Levels
      /\ cached_value' \in 0 .. MAX_OUT_VAL /\ value_from' \in 0 .. MAX_OUT_VAL
      /\ start' \in 0 .. MAX_OUT_VAL /\ peak' \in 0 .. MAX_OUT_VAL
      /\ led' \in PWM \X PWM /\ lamp_led' \in PWM \X PWM /\ ccr' \in PWM \X PWM
      /\ lamp_alarm_active' \in BOOLEAN /\ quiet' \in BOOLEAN /\ leftover' \in BOOLEAN
<1> SUFFICES Goal
  BY DEF TypeOK
<1>a. 0 \in PWM /\ 0 \in 0 .. MAX_OUT_VAL /\ 0 \in 0 .. MaxTime /\ 0 \in Word
  BY LightTypes, DurationTypes DEF PWM, Word
<1>b. Total(ccr) \in 0 .. MAX_OUT_VAL
  BY <1>0, TotalTypes
<1> USE DEF history, statics, lampVars, alarmVars, NoHistory, ForgetLocals
<1>1. CASE Tick
  BY <1>0, <1>1, LightTypes DEF Tick
<1>2. CASE WorkerStart
  BY <1>0, <1>2 DEF WorkerStart
<1>3. ASSUME NEW disarm \in BOOLEAN, WorkerModel(disarm)
      PROVE  Goal
  <2>1. io' \in IO
    BY <1>3, ModelLight
  <2>2. led' \in PWM \X PWM /\ worker' \in {"sample", "leds"}
    <3>1. \A ops : set_parallel(Value(ops)) \in PWM \X PWM
      BY ValueTypes, ParallelLeds
    <3> QED BY <1>0, <1>3, <3>1 DEF WorkerModel
  <2>3. /\ start' \in 0 .. MAX_OUT_VAL /\ peak' \in 0 .. MAX_OUT_VAL
        /\ quiet' \in BOOLEAN /\ leftover' \in BOOLEAN
    BY <1>0, <1>3, <1>a, <1>b DEF WorkerModel
  <2>4. UNCHANGED <<rtc, wait, statics, value_from, lampVars, ccr>>
    BY <1>3 DEF WorkerModel
  <2> QED BY <1>0, <2>1, <2>2, <2>3, <2>4
<1>4. CASE WorkerSample
  <2>1. AtMost(MAX_OUT_VAL, Total(ccr)) \in 0 .. MAX_OUT_VAL
    BY <1>b, LightTypes DEF AtMost
  <2>2. cached_value' \in 0 .. MAX_OUT_VAL /\ value_from' \in 0 .. MAX_OUT_VAL
    BY <1>0, <1>4, <2>1, ValueTypes DEF WorkerSample
  <2> QED BY <1>0, <1>4, <2>2 DEF WorkerSample
<1>5. CASE WorkerRemember
  <2>1. io.light \in Lights /\ io.light.period >= 2
    BY <1>5 DEF WorkerRemember, WorkerInv, Alight
  <2>2. /\ io.light.from \in Levels /\ io.light.curr \in Nat
        /\ io.light.period \in Nat \ {0, 1}
    BY <2>1, DurationTypes DEF Lights, Word
  <2>3. led' \in PWM \X PWM
    BY <1>0, <1>5, <2>2, ValueTypes, AutoFromTo DEF WorkerRemember
  <2> QED BY <1>0, <1>5, <2>2, <2>3 DEF WorkerRemember
<1>6. CASE WorkerLeds
  <2>1. ccr' \in PWM \X PWM
    BY <1>0, <1>6 DEF WorkerLeds
  <2>2. peak' \in 0 .. MAX_OUT_VAL
    BY <1>0, <1>6, <2>1, TotalTypes DEF WorkerLeds
  <2> QED BY <1>0, <1>6, <1>a, <2>1, <2>2 DEF WorkerLeds
<1>7. CASE WorkerExit
  BY <1>0, <1>7 DEF WorkerExit
<1>8. ASSUME NEW type \in {"parallel", "warm", "cold"}, NEW brightnes \in 0 .. LampPeriod - 1,
             LampCommand(type, brightnes)
      PROVE  Goal
  <2>1. lamp_led' \in PWM \X PWM /\ ccr' \in PWM \X PWM
    BY <1>8, LampTypes, LampLeds DEF LampCommand
  <2>2. quiet' \in BOOLEAN
    BY <1>8, Zenon DEF LampCommand
  <2>3. pev_ops' \in Levels
    BY <1>8 DEF LampCommand, Levels
  <2> QED BY <1>0, <1>8, <2>1, <2>2, <2>3 DEF LampCommand
<1>9. CASE LampTimer
  <2>1. lamp_led' \in PWM \X PWM /\ ccr' \in PWM \X PWM
    BY <1>9, <1>a, LampLeds DEF LampTimer
  <2> QED BY <1>0, <1>9, <2>1 DEF LampTimer
<1>10. ASSUME NEW w \in WaitTimes, NewAlarm(w)
       PROVE  Goal
  <2>1. io' \in IO
    BY <1>10, <1>a, StartLight DEF NewAlarm, A_ALARM_NEW
  <2> QED BY <1>0, <1>10, <1>a, <2>1 DEF NewAlarm
<1>11. CASE PowerFault
  <2>1. io' \in IO
    BY <1>0, <1>11, StartLight DEF PowerFault, IO
  <2>2. pev_ops' \in Levels
    BY <1>11 DEF PowerFault, Levels
  <2> QED BY <1>0, <1>11, <1>a, <2>1, <2>2 DEF PowerFault
<1>12. CASE UNCHANGED vars
  BY <1>0, <1>12 DEF vars
<1> QED
  BY <1>1, <1>2, <1>3, <1>4, <1>5, <1>6, <1>7, <1>8, <1>9, <1>10, <1>11, <1>12
  DEF Next, Worker

\* A light that dims takes the model's time for it, and dims to the middle.
LEMMA DimsToMid ==
  ASSUME NEW light, Alight(light) \/ light = NoLight, Dims(light)
  PROVE  light.to = "MID" /\ light.from # light.to /\ light.period = decrease_to_mid_time
PROOF
<1>1. ~Dims(NoLight)
  BY DEF Dims, NoLight
<1> QED BY <1>1 DEF Alight, Dims

\* Every step keeps what WorkerInv says of the light and its owner.
LEMMA WorkerStep == TypeOK /\ WorkerInv /\ [Next]_vars => WorkerInv'
PROOF
<1> SUFFICES ASSUME TypeOK, WorkerInv, [Next]_vars PROVE WorkerInv'
  OBVIOUS
<1> USE DEF history, statics, lampVars, alarmVars, WorkerInv, Ramping
<1>1. CASE Tick
  BY <1>1 DEF Tick
<1>2. CASE WorkerStart
  BY <1>2 DEF WorkerStart
<1>3. ASSUME NEW disarm \in BOOLEAN, WorkerModel(disarm)
      PROVE  WorkerInv'
  <2>1. Alight(io'.light)
    BY <1>3, ModelLight
  <2>2. worker = "model" /\ lamp_alarm_active' = lamp_alarm_active
    BY <1>3 DEF WorkerModel
  <2>3. \/ worker' = "leds" /\ ~(io'.light.from # io'.light.to /\ io'.light.period >= 2)
        \/ worker' = "sample" /\ io'.light.from # io'.light.to /\ io'.light.period >= 2
    <3>1. io'.light.period < 2 => ~(io'.light.period >= 2)
      BY <2>1, DurationTypes DEF Alight, Lights, Word
    <3> QED BY <1>3, <3>1 DEF WorkerModel
  <2> QED BY <2>1, <2>2, <2>3
<1>4. CASE WorkerSample
  BY <1>4 DEF WorkerSample
<1>5. CASE WorkerRemember
  BY <1>5 DEF WorkerRemember
<1>6. CASE WorkerLeds
  BY <1>6 DEF WorkerLeds
<1>7. CASE WorkerExit
  BY <1>7 DEF WorkerExit
<1>8. ASSUME NEW type \in {"parallel", "warm", "cold"}, NEW brightnes \in 0 .. LampPeriod - 1,
             LampCommand(type, brightnes)
      PROVE  WorkerInv'
  BY <1>8 DEF LampCommand
<1>9. CASE LampTimer
  BY <1>9 DEF LampTimer
<1>10. ASSUME NEW w \in WaitTimes, NewAlarm(w)
       PROVE  WorkerInv'
  <2>1. io'.light = NoLight /\ worker' = "start"
    BY <1>10 DEF NewAlarm, StartIO
  <2> QED BY <2>1
<1>11. CASE PowerFault
  <2>1. io'.light = NoLight /\ worker' \in {"none", "start"}
    BY <1>11 DEF PowerFault, StartIO
  <2> QED BY <2>1
<1>12. CASE UNCHANGED vars
  BY <1>12 DEF vars
<1> QED
  BY <1>1, <1>2, <1>3, <1>4, <1>5, <1>6, <1>7, <1>8, <1>9, <1>10, <1>11, <1>12
  DEF Next, Worker

\* While an alarm is being dimmed, the lamp does not touch the PWM.
LEMMA LampKeepsOff ==
  ASSUME TypeOK, WorkerInv, Dimming, NEW leds \in PWM \X PWM, lamp_set_leds(leds)
  PROVE  ccr' = ccr
  BY LampLeds DEF WorkerInv, Dimming

\* Every step keeps what a dimming may start from below the peak.
LEMMA PeakStep == LightInv /\ [Next]_vars => PeakInv'
PROOF
<1> SUFFICES ASSUME LightInv, [Next]_vars, Dimming'
             PROVE  /\ Total(ccr') <= peak'
                    /\ pev_ops' = "THIS_OR_OFF" => cached_value' <= peak'
                    /\ worker' = "remember" => value_from' = cached_value' /\ cached_value' <= peak'
                    /\ Ramping' => value_from' <= peak'
  BY DEF PeakInv, Total
<1> DEFINE Goal == /\ Total(ccr') <= peak'
                   /\ pev_ops' = "THIS_OR_OFF" => cached_value' <= peak'
                   /\ worker' = "remember" => value_from' = cached_value' /\ cached_value' <= peak'
                   /\ Ramping' => value_from' <= peak'
<1>0. TypeOK /\ WorkerInv /\ PeakInv
  BY DEF LightInv
<1>a. /\ Dims(io'.light) /\ ~leftover' /\ worker' \notin {"none", "start"}
      /\ Dimming = (Dims(io.light) /\ ~leftover /\ worker \notin {"none", "start"})
  BY DEF Dimming, Dims
<1>b. Total(ccr) \in 0 .. MAX_OUT_VAL /\ cached_value \in Int /\ peak \in Int
  BY <1>0, TotalTypes DEF TypeOK
<1>c. Dimming =>
        /\ Total(ccr) <= peak
        /\ pev_ops = "THIS_OR_OFF" => cached_value <= peak
        /\ worker = "remember" => value_from = cached_value /\ cached_value <= peak
        /\ Ramping => value_from <= peak
  BY <1>0 DEF PeakInv
<1>d. Ramping' => worker' = "leds"
  BY DEF Ramping
<1> SUFFICES Goal
  OBVIOUS
<1> USE DEF history, statics, lampVars, alarmVars
<1>1. CASE Tick
  BY <1>1, <1>a, <1>c, <1>d DEF Tick
<1>2. CASE WorkerStart
  <2>1. io.light = NoLight /\ io'.light = io.light
    BY <1>0, <1>2 DEF WorkerStart, WorkerInv
  <2> QED BY <1>a, <2>1 DEF Dims, NoLight
<1>3. ASSUME NEW disarm \in BOOLEAN, WorkerModel(disarm)
      PROVE  Goal
  <2>1. /\ worker = "model" /\ worker' # "remember"
        /\ UNCHANGED <<pev_ops, cached_value, value_from, ccr>>
    BY <1>3 DEF WorkerModel
  <2>2. ~Ramping'
    <3>1. WorkerInv' /\ Alight(io'.light)
      BY <1>0, <1>3, ModelLight, WorkerStep DEF Next, Worker
    <3>2. io'.light.from = io'.light.to \/ io'.light.period < 2 \/ worker' = "sample"
      BY <1>3 DEF WorkerModel
    <3>3. io'.light.period < 2 => ~(io'.light.period >= 2)
      BY <3>1, DurationTypes DEF Alight, Lights, Word
    <3> QED BY <3>2, <3>3 DEF Ramping
  <2>3. CASE Dims(io.light)
    <3>1. UNCHANGED history
      BY <1>3, <1>a, <2>3 DEF WorkerModel
    <3> QED BY <1>a, <1>c, <2>1, <2>2, <2>3, <3>1
  <2>4. CASE ~Dims(io.light)
    <3>1. peak' = Total(ccr) /\ leftover' = (pev_ops = "THIS_OR_OFF")
      BY <1>3, <1>a, <2>4 DEF WorkerModel
    <3>2. pev_ops' # "THIS_OR_OFF"
      BY <1>a, <2>1, <3>1, Zenon
    <3>3. Total(ccr') <= peak'
      BY <1>b, <2>1, <3>1
    <3> QED BY <2>1, <2>2, <3>2, <3>3
  <2> QED BY <2>3, <2>4
<1>4. CASE WorkerSample
  <2>1. /\ worker = "sample" /\ worker' = "remember"
        /\ UNCHANGED <<io, leftover, pev_ops, ccr, peak>>
    BY <1>4 DEF WorkerSample
  <2>2. Dimming
    BY <1>a, <2>1
  <2>3. AtMost(MAX_OUT_VAL, Total(ccr)) = Total(ccr)
    BY <1>b, LightTypes DEF AtMost
  <2>4. value_from' = cached_value' /\ cached_value' <= peak
    BY <1>4, <1>a, <1>c, <2>1, <2>2, <2>3 DEF WorkerSample
  <2> QED BY <1>c, <1>d, <2>1, <2>2, <2>4
<1>5. CASE WorkerRemember
  <2>1. /\ worker = "remember" /\ worker' = "leds"
        /\ UNCHANGED <<io, leftover, cached_value, value_from, ccr, peak>>
    BY <1>5 DEF WorkerRemember
  <2> QED BY <1>a, <1>c, <2>1
<1>6. CASE WorkerLeds
  <2>1. /\ worker = "leds" /\ worker' \in {"exit", "model"}
        /\ UNCHANGED <<io, leftover, pev_ops, cached_value>>
        /\ peak' = IF Dims(io.light) /\ Total(ccr') > peak THEN Total(ccr') ELSE peak
    BY <1>6 DEF WorkerLeds
  <2>2. Dimming
    BY <1>a, <2>1
  <2>3. Total(ccr') \in Int
    <3>1. ccr' \in PWM \X PWM
      BY <1>0, <1>6, TypeStep DEF TypeOK, Next, Worker
    <3> QED BY <3>1, TotalTypes
  <2>4. Total(ccr') <= peak' /\ peak <= peak'
    BY <1>a, <1>b, <2>1, <2>3
  <2>5. pev_ops' = "THIS_OR_OFF" => cached_value' <= peak'
    <3>1. peak' \in Int
      BY <1>b, <2>1, <2>3
    <3> QED BY <1>b, <1>c, <2>1, <2>2, <2>4, <3>1
  <2> QED BY <1>d, <2>1, <2>4, <2>5
<1>7. CASE WorkerExit
  BY <1>7, <1>a DEF WorkerExit
<1>8. ASSUME NEW type \in {"parallel", "warm", "cold"}, NEW brightnes \in 0 .. LampPeriod - 1,
             LampCommand(type, brightnes)
      PROVE  Goal
  <2>1. /\ pev_ops' = "OFF" /\ lamp_set_leds(Lamp(type, brightnes))
        /\ UNCHANGED <<io, worker, cached_value, value_from, leftover, peak>>
    BY <1>8 DEF LampCommand
  <2>2. Dimming
    BY <1>a, <2>1
  <2>3. ccr' = ccr
    BY <1>0, <2>1, <2>2, LampTypes, LampKeepsOff
  <2>4. Ramping' => Ramping
    BY <2>1 DEF Ramping
  <2> QED BY <1>c, <2>1, <2>2, <2>3, <2>4
<1>9. CASE LampTimer
  <2>1. /\ lamp_set_leds(<<0, 0>>)
        /\ UNCHANGED <<io, worker, pev_ops, cached_value, value_from, leftover, peak>>
    BY <1>9 DEF LampTimer
  <2>2. Dimming
    BY <1>a, <2>1
  <2>3. ccr' = ccr
    <3>1. <<0, 0>> \in PWM \X PWM
      BY LightTypes DEF PWM
    <3> QED BY <1>0, <2>1, <2>2, <3>1, LampKeepsOff
  <2>4. Ramping' => Ramping
    BY <2>1 DEF Ramping
  <2> QED BY <1>c, <2>1, <2>2, <2>3, <2>4
<1>10. ASSUME NEW w \in WaitTimes, NewAlarm(w)
       PROVE  Goal
  BY <1>10, <1>a DEF NewAlarm
<1>11. CASE PowerFault
  BY <1>11, <1>a DEF PowerFault
<1>12. CASE UNCHANGED vars
  BY <1>12, <1>a, <1>c DEF vars, Ramping
<1> QED
  BY <1>1, <1>2, <1>3, <1>4, <1>5, <1>6, <1>7, <1>8, <1>9, <1>10, <1>11, <1>12
  DEF Next, Worker

\* Every step that is not a lamp command keeps what a dimming starts from.
LEMMA StartStep == LightInv /\ [Next]_vars => StartInv'
PROOF
<1> DEFINE Goal ==
      /\ worker' = "sample" =>
           IF pev_ops' = "THIS_OR_OFF" THEN cached_value' = start' ELSE Total(ccr') = start'
      /\ worker' = "remember" => cached_value' = start'
      /\ worker' \in {"model", "leds", "exit"} /\ io'.light.period >= 2 =>
           pev_ops' = "THIS_OR_OFF" /\ cached_value' = start'
      /\ Ramping' => value_from' = start'
<1> SUFFICES ASSUME LightInv, [Next]_vars, Dimming', quiet' PROVE Goal
  BY DEF StartInv, Total
<1>0. TypeOK /\ WorkerInv /\ StartInv
  BY DEF LightInv
<1>a. /\ Dims(io'.light) /\ ~leftover' /\ worker' \notin {"none", "start"}
      /\ Dimming = (Dims(io.light) /\ ~leftover /\ worker \notin {"none", "start"})
  BY DEF Dimming, Dims
<1>b. Dimming /\ quiet =>
        /\ worker = "sample" =>
             IF pev_ops = "THIS_OR_OFF" THEN cached_value = start ELSE Total(ccr) = start
        /\ worker = "remember" => cached_value = start
        /\ worker \in {"model", "leds", "exit"} /\ io.light.period >= 2 =>
             pev_ops = "THIS_OR_OFF" /\ cached_value = start
        /\ Ramping => value_from = start
  BY <1>0 DEF StartInv
<1>c. Ramping' => worker' = "leds"
  BY DEF Ramping
<1> USE DEF history, statics, lampVars, alarmVars
<1>1. CASE Tick
  BY <1>1, <1>a, <1>b, <1>c DEF Tick
<1>2. CASE WorkerStart
  <2>1. io.light = NoLight /\ io'.light = io.light
    BY <1>0, <1>2 DEF WorkerStart, WorkerInv
  <2> QED BY <1>a, <2>1 DEF Dims, NoLight
<1>3. ASSUME NEW disarm \in BOOLEAN, WorkerModel(disarm)
      PROVE  Goal
  <2>1. worker = "model" /\ UNCHANGED <<pev_ops, cached_value, ccr>>
    BY <1>3 DEF WorkerModel
  <2>2. io'.light.from # io'.light.to /\ io'.light.period = decrease_to_mid_time
    BY <1>0, <1>3, <1>a, ModelLight, DimsToMid
  <2>3. worker' = "sample" \/ (worker' = "leds" /\ ~(io'.light.period >= 2))
    <3>1. decrease_to_mid_time < 2 => ~(decrease_to_mid_time >= 2)
      BY DurationTypes DEF Word
    <3> QED BY <1>3, <2>2, <3>1 DEF WorkerModel
  <2>4. ~Ramping'
    BY <2>3 DEF Ramping
  <2>5. worker' = "sample" => decrease_to_mid_time >= 2
    <3>1. worker' = "sample" => ~(decrease_to_mid_time < 2)
      <4>1. worker' = "sample" => ~(io'.light.period < 2)
        <5>1. io'.light.period >= 2 => ~(io'.light.period < 2)
          BY <2>2, DurationTypes DEF Word
        <5> QED BY <1>3, <5>1 DEF WorkerModel
      <4> QED BY <2>2, <4>1
    <3> QED BY <3>1, DurationTypes DEF Word
  <2>6. CASE Dims(io.light)
    <3>1. UNCHANGED history
      BY <1>3, <1>a, <2>6 DEF WorkerModel
    <3>2. Dimming /\ quiet
      BY <1>a, <2>1, <2>6, <3>1
    <3>3. io.light.period = decrease_to_mid_time
      BY <1>0, <2>6, DimsToMid DEF WorkerInv
    <3> QED BY <1>b, <2>1, <2>3, <2>4, <2>5, <3>1, <3>2, <3>3
  <2>7. CASE ~Dims(io.light)
    <3>1. start' = Total(ccr) /\ leftover' = (pev_ops = "THIS_OR_OFF")
      BY <1>3, <1>a, <2>7 DEF WorkerModel
    <3>2. pev_ops' # "THIS_OR_OFF"
      BY <1>a, <2>1, <3>1, Zenon
    <3> QED BY <2>1, <2>3, <2>4, <3>1, <3>2
  <2> QED BY <2>6, <2>7
<1>4. CASE WorkerSample
  <2>1. /\ worker = "sample" /\ worker' = "remember"
        /\ UNCHANGED <<io, leftover, quiet, ccr, start>>
    BY <1>4 DEF WorkerSample
  <2>2. Dimming /\ quiet
    BY <1>a, <2>1
  <2>3. AtMost(MAX_OUT_VAL, Total(ccr)) = Total(ccr)
    <3>1. Total(ccr) \in 0 .. MAX_OUT_VAL
      BY <1>0, TotalTypes DEF TypeOK
    <3> QED BY <3>1, LightTypes DEF AtMost
  <2>4. cached_value' = start
    BY <1>4, <1>a, <1>b, <2>1, <2>2, <2>3 DEF WorkerSample
  <2> QED BY <1>c, <2>1, <2>4
<1>5. CASE WorkerRemember
  <2>1. /\ worker = "remember" /\ worker' = "leds"
        /\ pev_ops' = io.light.from
        /\ UNCHANGED <<io, leftover, quiet, cached_value, value_from, start>>
    BY <1>5 DEF WorkerRemember
  <2>2. Dimming /\ quiet
    BY <1>a, <2>1
  <2>3. cached_value = start
    BY <1>b, <2>1, <2>2
  <2>4. value_from = cached_value
    BY <2>1, <2>2 DEF LightInv, PeakInv
  <2> QED BY <1>a, <2>1, <2>3, <2>4 DEF Dims
<1>6. CASE WorkerLeds
  <2>1. /\ worker = "leds" /\ worker' \in {"exit", "model"}
        /\ UNCHANGED <<io, leftover, quiet, pev_ops, cached_value, start>>
    BY <1>6 DEF WorkerLeds
  <2> QED BY <1>a, <1>b, <1>c, <2>1
<1>7. CASE WorkerExit
  BY <1>7, <1>a DEF WorkerExit
<1>8. ASSUME NEW type \in {"parallel", "warm", "cold"}, NEW brightnes \in 0 .. LampPeriod - 1,
             LampCommand(type, brightnes)
      PROVE  Goal
  <2>1. io' = io /\ quiet' = (quiet /\ ~Dims(io.light))
    BY <1>8 DEF LampCommand
  <2> QED BY <1>a, <2>1, Zenon
<1>9. CASE LampTimer
  <2>1. /\ lamp_set_leds(<<0, 0>>)
        /\ UNCHANGED <<io, worker, pev_ops, cached_value, value_from, leftover, quiet, start>>
    BY <1>9 DEF LampTimer
  <2>2. Dimming /\ quiet
    BY <1>a, <2>1
  <2>3. ccr' = ccr
    <3>1. <<0, 0>> \in PWM \X PWM
      BY LightTypes DEF PWM
    <3> QED BY <1>0, <2>1, <2>2, <3>1, LampKeepsOff
  <2>4. Ramping' => Ramping
    BY <2>1 DEF Ramping
  <2> QED BY <1>b, <2>1, <2>2, <2>3, <2>4
<1>10. ASSUME NEW w \in WaitTimes, NewAlarm(w)
       PROVE  Goal
  BY <1>10, <1>a DEF NewAlarm
<1>11. CASE PowerFault
  BY <1>11, <1>a DEF PowerFault
<1>12. CASE UNCHANGED vars
  BY <1>12, <1>a, <1>b DEF vars, Ramping
<1> QED
  BY <1>1, <1>2, <1>3, <1>4, <1>5, <1>6, <1>7, <1>8, <1>9, <1>10, <1>11, <1>12
  DEF Next, Worker

\* The invariant holds in every state, wherever lamp commands, new alarms and
\* power faults meet the worker.
LEMMA LightInvariance == Spec => []LightInv
PROOF
<1>1. LightInv /\ [Next]_vars => LightInv'
  <2>1. LightInv /\ [Next]_vars => TypeOK' /\ WorkerInv'
    BY TypeStep, WorkerStep DEF LightInv
  <2>2. LightInv /\ [Next]_vars => PeakInv' /\ StartInv'
    BY PeakStep, StartStep
  <2> QED BY <2>1, <2>2 DEF LightInv
<1> QED BY LightInit, <1>1, PTL DEF Spec

\* What the brightness model computes, wherever it starts from, always fits the
\* PWM's channels.
THEOREM TypeCorrect == Spec => []TypeOK
<1>1. LightInv => TypeOK
  BY DEF LightInv
<1> QED BY <1>1, LightInvariance, PTL

\* A disarm dims along one ramp from the light that was on, in all the rounds
\* that take it, though get_this_or_off_value knows only what the last ramp
\* started from, unless a lamp command or an alarm that was dropped while it
\* was dimmed has changed that.
THEOREM AlwaysDimsFromWhatWasOn == Spec => []DimsFromWhatWasOn
<1>1. LightInv => DimsFromWhatWasOn
  <2> SUFFICES ASSUME LightInv, Ramping, Dims(io.light), quiet, ~leftover
               PROVE  led = AutoLeds(start, MID_OUT_VAL, io.light.period, io.light.curr)
    BY DEF DimsFromWhatWasOn
  <2>1. worker = "leds"
    BY DEF Ramping
  <2>2. value_from = start
    BY <2>1 DEF LightInv, StartInv, Dimming
  <2>3. Value(io.light.to) = MID_OUT_VAL
    <3>1. io.light.to = "MID"
      BY DimsToMid DEF LightInv, WorkerInv
    <3> QED BY <3>1, ValueTypes
  <2> QED BY <2>2, <2>3 DEF LightInv, WorkerInv
<1> QED BY <1>1, LightInvariance, PTL

\* What a round computes while the light changes runs between the two values it
\* is computed from.
LEMMA RampingLeds ==
  ASSUME LightInv, Ramping
  PROVE  /\ value_from \in Nat /\ Value(io.light.to) \in Nat /\ Total(led) \in Nat
         /\ Total(led) <= value_from \/ Total(led) <= Value(io.light.to)
         /\ io.light.curr = 0 => value_from - Total(led) \in {0, 1}
         /\ io.light.curr = io.light.period - 1 => Value(io.light.to) - Total(led) \in {0, 1}
PROOF
<1>1. io.light \in Lights /\ io.light.period >= 2
  BY DEF LightInv, WorkerInv, Ramping, Alight
<1>2. io.light.curr \in Nat /\ io.light.period \in Nat \ {0, 1}
  BY <1>1, DurationTypes DEF Lights, Word
<1>3. value_from \in 0 .. MAX_OUT_VAL /\ Value(io.light.to) \in 0 .. MAX_OUT_VAL
  BY ValueTypes DEF LightInv, TypeOK
<1>4. led = AutoLeds(value_from, Value(io.light.to), io.light.period, io.light.curr)
  BY DEF LightInv, WorkerInv
<1>5. value_from \in Nat /\ Value(io.light.to) \in Nat
  BY <1>3, LightTypes
<1> DEFINE to == Value(io.light.to)
           x  == io.light.curr
           p  == io.light.period
<1>6. to \in 0 .. MAX_OUT_VAL /\ x \in Nat /\ p \in Nat \ {0, 1}
  BY <1>2, <1>3
<1>7. led = AutoLeds(value_from, to, p, x)
  BY <1>4
<1> HIDE DEF to, x, p
<1>8. /\ Total(led) \in Nat
      /\ Total(led) <= value_from \/ Total(led) <= to
      /\ x = 0 => value_from - Total(led) \in {0, 1}
      /\ x = p - 1 => to - Total(led) \in {0, 1}
  BY <1>3, <1>6, <1>7, AutoFromTo
<1> QED BY <1>5, <1>8 DEF to, x, p

\* Lamp commands that come while an alarm is being dimmed may make it brighter,
\* but never than the brightest it has been, or than the middle.
THEOREM DimmingIsAlwaysBounded == Spec => []DimmingIsBounded
<1>1. LightInv => DimmingIsBounded
  <2> SUFFICES ASSUME LightInv, Ramping, Dims(io.light), ~leftover
               PROVE  Total(led) <= peak \/ Total(led) <= MID_OUT_VAL
    BY DEF DimmingIsBounded
  <2>1. worker = "leds"
    BY DEF Ramping
  <2>2. value_from <= peak /\ peak \in Int
    BY <2>1 DEF LightInv, PeakInv, Dimming, TypeOK
  <2>3. Value(io.light.to) = MID_OUT_VAL
    <3>1. io.light.to = "MID"
      BY DimsToMid DEF LightInv, WorkerInv
    <3> QED BY <3>1, ValueTypes
  <2>4. /\ value_from \in Nat /\ Total(led) \in Nat
        /\ Total(led) <= value_from \/ Total(led) <= MID_OUT_VAL
    BY <2>3, RampingLeds
  <2> QED BY <2>2, <2>4
<1> QED BY <1>1, LightInvariance, PTL

\* The curve of brightness_log_xlate_to_2_auto begins at the light before it and
\* ends at the light after it, whatever the durations and the levels are.
THEOREM RampsAlwaysMeetHolds == Spec => []RampsMeetHolds
<1>1. LightInv => RampsMeetHolds
  BY RampingLeds DEF RampsMeetHolds
<1> QED BY <1>1, LightInvariance, PTL
==============================================================================
