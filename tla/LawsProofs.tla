------------------------------ MODULE LawsProofs ------------------------------
(***************************************************************************)
(* Theorems about the laws of ParameterPolicyLaws and DeviceChecks: they   *)
(* hold for all devices, policies, houses and options, of which their run  *)
(* tries samples.                                                          *)
(***************************************************************************)
EXTENDS ParameterPolicyLaws, DeviceChecks, FiniteSetTheorems, WellFoundedInduction, TLAPS

-----------------------------------------------------------------------------
(* What stands in a plan.                                                  *)

Blocked(ask, asks) ==
  Contested(ask, asks) \/ Answer(ask).status \in {"ambiguous", "unmappable"}

\* The plan, ask by ask.
LEMMA PlanOfAsks ==
  ASSUME NEW D, NEW P
  PROVE  LET asks == Asks(D, P)
             plan == EvaluatePolicies(D, P)
         IN /\ \A w : w \in plan.writes <=>
                 \E a \in asks : /\ ~Contested(a, asks) /\ Answer(a).status = "resolved"
                                 /\ w = Write(a)
            /\ \A w : w \in plan.warnings <=>
                 \E a \in asks : /\ ~Contested(a, asks) /\ Answer(a).status = "not_applicable"
                                 /\ w = <<a.device, a.concept>>
            /\ \A e : e \in plan.errors <=>
                 \E a \in asks : Blocked(a, asks) /\ e = ErrorOf(a, asks)
            /\ \A u : u \in plan.unused <=>
                 \/ \E p \in P : (\A a \in asks : a.policy # p) /\ u = <<p.name, None>>
                 \/ \E a \in asks :
                      /\ u = <<a.policy.name, a.concept>>
                      /\ \A x \in asks : x.policy = a.policy /\ x.concept = a.concept =>
                           ~Blocked(x, asks) /\ Answer(x).status # "resolved"
  <1> DEFINE asks     == Asks(D, P)
             clashing == {a \in asks : Contested(a, asks)}
             With(S)  == {a \in asks \ clashing : Answer(a).status \in S}
             resolved == With({"resolved"})
             blocked  == clashing \cup With({"ambiguous", "unmappable"})
             writes   == {Write(a) : a \in resolved}
             warnings == {<<a.device, a.concept>> : a \in With({"not_applicable"})}
             errors   == {ErrorOf(a, asks) : a \in blocked}
             unused   == UnusedSettings(P, asks, resolved, blocked)
  <1>1. EvaluatePolicies(D, P) = [writes |-> writes, warnings |-> warnings,
                                  errors |-> errors, unused |-> unused]
    BY DEF EvaluatePolicies
  <1> HIDE DEF asks
  <1>2. \A a : a \in resolved <=>
               a \in asks /\ ~Contested(a, asks) /\ Answer(a).status = "resolved"
    OBVIOUS
  <1>3. \A a : a \in With({"not_applicable"}) <=>
               a \in asks /\ ~Contested(a, asks) /\ Answer(a).status = "not_applicable"
    OBVIOUS
  <1>4. \A a : a \in blocked <=> a \in asks /\ Blocked(a, asks)
    BY DEF Blocked
  <1>5. unused = {<<p.name, None>> : p \in {q \in P : \A a \in asks : a.policy # q}}
                 \cup {<<a.policy.name, a.concept>> : a \in
                         {b \in asks : ~\E x \in resolved \cup blocked :
                                          x.policy = b.policy /\ x.concept = b.concept}}
    BY DEF UnusedSettings
  <1> HIDE DEF resolved, blocked, With, unused
  <1>6. \A u : u \in unused <=>
          \/ \E p \in P : (\A a \in asks : a.policy # p) /\ u = <<p.name, None>>
          \/ \E a \in asks :
               /\ u = <<a.policy.name, a.concept>>
               /\ \A x \in asks : x.policy = a.policy /\ x.concept = a.concept =>
                    ~Blocked(x, asks) /\ Answer(x).status # "resolved"
    <2>1. \A u : u \in unused <=>
            \/ \E p \in P : (\A a \in asks : a.policy # p) /\ u = <<p.name, None>>
            \/ \E a \in asks :
                 /\ u = <<a.policy.name, a.concept>>
                 /\ ~\E x \in resolved \cup blocked :
                        x.policy = a.policy /\ x.concept = a.concept
      BY <1>5
    <2>2. \A x : x \in resolved \cup blocked <=>
                 x \in asks /\ (Blocked(x, asks) \/ Answer(x).status = "resolved")
      BY <1>2, <1>4 DEF Blocked
    <2> QED BY <2>1, <2>2
  <1>7. \A w : w \in writes <=>
          \E a \in asks : /\ ~Contested(a, asks) /\ Answer(a).status = "resolved"
                          /\ w = Write(a)
    BY <1>2
  <1>8. \A w : w \in warnings <=>
          \E a \in asks : /\ ~Contested(a, asks) /\ Answer(a).status = "not_applicable"
                          /\ w = <<a.device, a.concept>>
    BY <1>3
  <1>9. \A e : e \in errors <=> \E a \in asks : Blocked(a, asks) /\ e = ErrorOf(a, asks)
    BY <1>4
  <1> HIDE DEF writes, warnings, errors
  <1> QED BY <1>1, <1>6, <1>7, <1>8, <1>9 DEF asks
-----------------------------------------------------------------------------
(* How a scale and a quantity become raw values.                           *)

LEMMA DivMod ==
  ASSUME NEW a \in Int, NEW d \in Nat \ {0}
  PROVE  \E q \in Int, r \in 0..(d - 1) : q = a \div d /\ r = a % d /\ a = d * q + r
  <1>1. a \div d \in Int
    OBVIOUS
  <1>2. a % d \in 0..(d - 1)
    OBVIOUS
  <1>3. ASSUME NEW q, q = a \div d, NEW r, r = a % d
        PROVE  a = d * q + r
    BY <1>3
  <1> QED BY <1>1, <1>2, <1>3

LEMMA TimesOrder ==
  ASSUME NEW d \in Nat, NEW x \in Int, NEW y \in Int, x <= y
  PROVE  d * x <= d * y /\ d * x \in Int /\ d * y \in Int /\ d * (x + 1) = d * x + d
  OBVIOUS

LEMMA RoundedFacts ==
  ASSUME NEW a \in Int, NEW d \in Nat \ {0}
  PROVE  \E q \in Int, r \in 0..(d - 1) :
           /\ a = d * q + r
           /\ Rounded(a, d) = IF 2 * r < d \/ (2 * r = d /\ q % 2 = 0) THEN q ELSE q + 1
  <1>1. PICK q \in Int, r \in 0..(d - 1) : q = a \div d /\ r = a % d /\ a = d * q + r
    BY DivMod
  <1>2. Rounded(a, d) = IF 2 * r < d \/ (2 * r = d /\ q % 2 = 0) THEN q ELSE q + 1
    BY <1>1 DEF Rounded
  <1> QED BY <1>1, <1>2

\* What is rounded to is an integer, the multiple it comes from if it is one.
LEMMA RoundedExact ==
  ASSUME NEW k \in Int, NEW d \in Nat \ {0}
  PROVE  Rounded(d * k, d) = k
  <1>1. d * k \in Int
    OBVIOUS
  <1>2. PICK q \in Int, r \in 0..(d - 1) :
          /\ d * k = d * q + r
          /\ Rounded(d * k, d) = IF 2 * r < d \/ (2 * r = d /\ q % 2 = 0) THEN q ELSE q + 1
    BY <1>1, RoundedFacts
  <1>3. q = k
    <2>1. CASE q < k
      <3>1. d * q + d <= d * k
        BY <2>1, TimesOrder, q + 1 <= k, q + 1 \in Int
      <3> QED BY <1>1, <1>2, <3>1, TimesOrder, q <= q
    <2>2. CASE q > k
      <3>1. d * k + d <= d * q
        BY <2>2, TimesOrder, k + 1 <= q, k + 1 \in Int
      <3> QED BY <1>1, <1>2, <3>1, TimesOrder, q <= q
    <2> QED BY <2>1, <2>2
  <1> QED BY <1>2, <1>3, TimesOrder, q <= q

\* More is not rounded to less.
LEMMA RoundedOrder ==
  ASSUME NEW a \in Int, NEW b \in Int, NEW d \in Nat \ {0}, a <= b
  PROVE  Rounded(a, d) \in Int /\ Rounded(a, d) <= Rounded(b, d)
  <1>1. PICK q \in Int, r \in 0..(d - 1) :
          /\ a = d * q + r
          /\ Rounded(a, d) = IF 2 * r < d \/ (2 * r = d /\ q % 2 = 0) THEN q ELSE q + 1
    BY RoundedFacts
  <1>2. PICK s \in Int, t \in 0..(d - 1) :
          /\ b = d * s + t
          /\ Rounded(b, d) = IF 2 * t < d \/ (2 * t = d /\ s % 2 = 0) THEN s ELSE s + 1
    BY RoundedFacts
  <1>3. q <= s
    <2> SUFFICES ASSUME s + 1 <= q PROVE FALSE
      OBVIOUS
    <2>1. d * s + d <= d * q /\ d * s \in Int /\ d * q \in Int
      BY TimesOrder, s + 1 \in Int, s <= s, q <= q
    <2> QED BY <1>1, <1>2, <2>1
  <1>4. CASE q = s
    <2>1. r <= t
      BY <1>1, <1>2, <1>4, TimesOrder, q <= q
    <2> QED BY <1>1, <1>2, <1>4, <2>1
  <1>5. CASE q < s
    BY <1>1, <1>2, <1>5
  <1> QED BY <1>3, <1>4, <1>5

\* What is rounded to is nearest.
LEMMA RoundedNear ==
  ASSUME NEW a \in Int, NEW d \in Nat \ {0}
  PROVE  LET n == Rounded(a, d)
         IN n \in Int /\ 2 * (d * n) <= 2 * a + d /\ 2 * a <= 2 * (d * n) + d
  <1>1. PICK q \in Int, r \in 0..(d - 1) :
          /\ a = d * q + r
          /\ Rounded(a, d) = IF 2 * r < d \/ (2 * r = d /\ q % 2 = 0) THEN q ELSE q + 1
    BY RoundedFacts
  <1>2. d * q \in Int /\ d * (q + 1) = d * q + d
    BY TimesOrder, q <= q
  <1>3. CASE Rounded(a, d) = q
    BY <1>1, <1>2, <1>3
  <1>4. CASE Rounded(a, d) = q + 1
    BY <1>1, <1>2, <1>4
  <1> QED BY <1>1, <1>3, <1>4

LEMMA SetMinIs ==
  ASSUME NEW S \in SUBSET Int, NEW x \in S, \A y \in S : x <= y
  PROVE  SetMin(S) = x
  <1>1. \A z \in S : (\A y \in S : z <= y) => z = x
    OBVIOUS
  <1> QED BY <1>1 DEF SetMin

LEMMA SetMaxIs ==
  ASSUME NEW S \in SUBSET Int, NEW x \in S, \A y \in S : y <= x
  PROVE  SetMax(S) = x
  <1>1. \A z \in S : (\A y \in S : z >= y) => z = x
    OBVIOUS
  <1> QED BY <1>1 DEF SetMax

LEMMA LeastInt ==
  ASSUME NEW S \in SUBSET Int, S # {}, NEW b \in Int, \A x \in S : b <= x
  PROVE  SetMin(S) \in S /\ \A y \in S : SetMin(S) <= y
  <1>1. PICK T \in SUBSET Nat : T = {n \in Nat : b + n \in S}
    OBVIOUS
  <1>2. \A x \in S : x - b \in T
    BY <1>1
  <1>3. PICK t \in T : \A u \in T : <<u, t>> \notin OpToRel(<, Nat)
    BY <1>2, NatLessThanWellFounded, WFMin
  <1>4. \A u \in T : ~(u < t)
    BY <1>3 DEF OpToRel
  <1>5. b + t \in S /\ \A y \in S : b + t <= y
    BY <1>1, <1>2, <1>4
  <1> QED BY <1>5, SetMinIs

LEMMA GreatestInt ==
  ASSUME NEW S \in SUBSET Int, S # {}, NEW b \in Int, \A x \in S : x <= b
  PROVE  SetMax(S) \in S /\ \A y \in S : y <= SetMax(S)
  <1>1. PICK T \in SUBSET Nat : T = {n \in Nat : b - n \in S}
    OBVIOUS
  <1>2. \A x \in S : b - x \in T
    BY <1>1
  <1>3. PICK t \in T : \A u \in T : <<u, t>> \notin OpToRel(<, Nat)
    BY <1>2, NatLessThanWellFounded, WFMin
  <1>4. \A u \in T : ~(u < t)
    BY <1>3 DEF OpToRel
  <1>5. b - t \in S
    BY <1>1
  <1>6. ASSUME NEW y \in S PROVE y <= b - t
    <2>1. ~(b - y < t) /\ b - y \in Int
      BY <1>2, <1>4
    <2> QED BY <2>1
  <1> QED BY <1>5, <1>6, SetMaxIs

Clamped(n, lo, hi) == SetMax({lo, SetMin({n, hi})})

Distance(x, y) == IF x < y THEN y - x ELSE x - y

\* No value of a range is nearer to a quantity than what is rounded and clamped.
LEMMA ClampedNearest ==
  ASSUME NEW a \in Int, NEW d \in Nat \ {0}, NEW lo \in Int, NEW hi \in Int, lo <= hi
  PROVE  LET v == Clamped(Rounded(a, d), lo, hi)
         IN /\ v \in lo..hi
            /\ \A k \in lo..hi : Distance(d * v, a) <= Distance(d * k, a)
  <1> DEFINE n == Rounded(a, d)
             v == SetMax({lo, SetMin({n, hi})})
  <1>1. n \in Int /\ 2 * (d * n) <= 2 * a + d /\ 2 * a <= 2 * (d * n) + d
    BY RoundedNear
  <1> HIDE DEF n
  <1>2. SetMin({n, hi}) = IF n <= hi THEN n ELSE hi
    BY <1>1, SetMinIs
  <1>3. v = IF n <= lo THEN lo ELSE IF n <= hi THEN n ELSE hi
    <2> DEFINE m == SetMin({n, hi})
    <2>1. m \in Int /\ (m <= lo <=> n <= lo \/ hi <= lo)
      BY <1>1, <1>2
    <2>2. SetMax({lo, m}) = IF m <= lo THEN lo ELSE m
      BY <2>1, SetMaxIs
    <2> HIDE DEF m
    <2> QED BY <1>1, <1>2, <2>1, <2>2 DEF m
  <1> HIDE DEF v
  <1>4. v \in lo..hi
    BY <1>1, <1>3
  <1>5. ASSUME NEW k \in lo..hi
        PROVE  Distance(d * v, a) <= Distance(d * k, a)
    <2>1. \A x, y \in Int : x < y => /\ d * x \in Int /\ d * y \in Int
                                     /\ d * x + d <= d * y
      <3> SUFFICES ASSUME NEW x \in Int, NEW y \in Int, x < y
                   PROVE  d * x \in Int /\ d * y \in Int /\ d * x + d <= d * y
        OBVIOUS
      <3> QED BY TimesOrder, x + 1 <= y, x <= x, x + 1 \in Int
    <2>2. d * v \in Int /\ d * n \in Int /\ d * k \in Int
      BY <1>1, <1>4, TimesOrder, v <= v, n <= n, k <= k
    <2>3. CASE v = k
      BY <2>2, <2>3 DEF Distance
    <2>4. CASE v < k
      <3>1. n <= v
        BY <1>1, <1>3, <1>4, <2>4
      <3>2. d * v + d <= d * k /\ (n = v \/ d * n + d <= d * v)
        BY <1>1, <1>4, <2>1, <2>4, <3>1
      <3>3. 2 * a <= 2 * (d * v) + d
        BY <1>1, <2>2, <3>2
      <3> HIDE DEF v
      <3> QED BY <2>2, <3>2, <3>3 DEF Distance
    <2>5. CASE k < v
      <3>1. v <= n
        BY <1>1, <1>3, <1>4, <2>5
      <3>2. d * k + d <= d * v /\ (n = v \/ d * v + d <= d * n)
        BY <1>1, <1>4, <2>1, <2>5, <3>1
      <3>3. 2 * (d * v) <= 2 * a + d
        BY <1>1, <2>2, <3>2
      <3> QED BY <2>2, <3>2, <3>3 DEF Distance
    <2> QED BY <1>4, <2>3, <2>4, <2>5
  <1> QED BY <1>4, <1>5 DEF v, n, Clamped

\* The ends of a range that are no off values.
LEMMA UsableEnds ==
  ASSUME NEW p, p.range[1] \in Int, p.range[2] \in Int, ~(UsableMax(p) <= UsableMin(p))
  PROVE  LET usable == p.range[1]..p.range[2] \ LabelledValues(p, OffLabels)
         IN /\ UsableMin(p) \in usable /\ UsableMax(p) \in usable /\ UsableMin(p) < UsableMax(p)
            /\ UsableMin(p) = SetMin(usable) /\ UsableMax(p) = SetMax(usable)
            /\ \A r \in usable : UsableMin(p) <= r /\ r <= UsableMax(p)
  <1> DEFINE lo     == p.range[1]
             hi     == p.range[2]
             L      == LabelledValues(p, OffLabels)
             usable == lo..hi \ L
             least  == UsableMin(p)
             most   == UsableMax(p)
             up     == {r \in least..hi : r \notin L} \cup {least - 1}
  <1>1. lo \in Int /\ hi \in Int
    OBVIOUS
  <1>2. least = SetMin({r \in lo..hi : r \notin L} \cup {hi + 1})
    BY DEF UsableMin
  <1>3. most = SetMax(up)
    BY DEF UsableMax
  <1>4. ~(most <= least)
    OBVIOUS
  <1> HIDE DEF lo, hi, L, least, most
  <1>5. least \in {r \in lo..hi : r \notin L} \cup {hi + 1} /\ \A r \in usable : least <= r
    <2> DEFINE S == {r \in lo..hi : r \notin L} \cup {hi + 1}
               b == IF lo <= hi + 1 THEN lo ELSE hi + 1
    <2>1. S \in SUBSET Int /\ S # {} /\ b \in Int /\ \A x \in S : b <= x
      BY <1>1
    <2>2. \A r \in usable : r \in S
      OBVIOUS
    <2>3. S = {r \in lo..hi : r \notin L} \cup {hi + 1}
      OBVIOUS
    <2> HIDE DEF S, b
    <2>4. SetMin(S) \in S /\ \A y \in S : SetMin(S) <= y
      BY <2>1, LeastInt
    <2> QED BY <1>2, <2>2, <2>3, <2>4
  <1>6. most \in up /\ \A r \in up : r <= most
    <2> DEFINE b == IF least - 1 <= hi THEN hi ELSE least - 1
    <2>1. up \in SUBSET Int /\ up # {} /\ b \in Int /\ \A x \in up : x <= b
      BY <1>1, <1>5
    <2> HIDE DEF up, b
    <2> QED BY <1>3, <2>1, GreatestInt
  <1>7. least < most /\ most \in usable /\ least \in usable
    BY <1>1, <1>4, <1>5, <1>6
  <1>8. \A r \in usable : r <= most
    BY <1>1, <1>5, <1>6
  <1>9. usable \in SUBSET Int
    BY <1>1
  <1> HIDE DEF usable
  <1>10. least = SetMin(usable) /\ most = SetMax(usable)
    BY <1>5, <1>7, <1>8, <1>9, SetMinIs, SetMaxIs
  <1> QED BY <1>5, <1>7, <1>8, <1>10 DEF usable, least, most, lo, hi, L

\* The steps of a scale over a span.
LEMMA StepsOfScale ==
  ASSUME NEW from \in Int, NEW to \in Int, from < to, NEW span \in Nat
  PROVE  LET step(v) == Rounded((v - from) * span, to - from)
         IN /\ step(from) = 0 /\ step(to) = span
            /\ \A v \in from..to : step(v) \in 0..span
            /\ \A v, w \in from..to : v <= w => step(v) <= step(w)
  <1> DEFINE step(v) == Rounded((v - from) * span, to - from)
  <1>1. to - from \in Nat \ {0}
    OBVIOUS
  <1>2. step(from) = 0
    <2>1. (from - from) * span = (to - from) * 0
      OBVIOUS
    <2> QED BY <1>1, <2>1, RoundedExact
  <1>3. step(to) = span
    BY <1>1, RoundedExact
  <1>4. ASSUME NEW v \in from..to, NEW w \in from..to, v <= w
        PROVE  step(v) \in Int /\ step(v) <= step(w)
    <2>1. /\ (v - from) * span \in Int /\ (w - from) * span \in Int
          /\ (v - from) * span <= (w - from) * span
      <3>1. v - from \in Int /\ w - from \in Int /\ v - from <= w - from
        BY <1>4
      <3>2. \A x, y \in Int : x <= y => x * span \in Int /\ y * span \in Int /\ x * span <= y * span
        OBVIOUS
      <3> QED BY <3>1, <3>2
    <2> QED BY <1>1, <2>1, RoundedOrder
  <1> HIDE DEF step
  <1>5. from \in from..to /\ to \in from..to
    OBVIOUS
  <1>6. ASSUME NEW v \in from..to
        PROVE  step(v) \in 0..span
    <2>1. step(v) \in Int /\ step(from) <= step(v) /\ step(v) <= step(to)
      BY <1>4, <1>5
    <2> QED BY <1>2, <1>3, <2>1
  <1> QED BY <1>2, <1>3, <1>4, <1>6 DEF step

\* A scale on the usable values of a range, where it comes to any.
LEMMA ScaleOnRange ==
  ASSUME NEW p, p.range[1] \in Int, p.range[2] \in Int, NEW scale,
         scale[1] \in Int, scale[2] \in Int, scale[1] < scale[2], NEW quirk,
         NEW x, RangeRaw(p, scale, x, quirk) # None
  PROVE  LET usable == p.range[1]..p.range[2] \ LabelledValues(p, OffLabels)
             raw(v) == RangeRaw(p, scale, v, quirk)
         IN /\ {raw(scale[1]), raw(scale[2])} = {SetMin(usable), SetMax(usable)}
            /\ \A v \in scale[1]..scale[2] : raw(v) \in usable
            /\ \A v, w \in scale[1]..scale[2] : v <= w =>
                 IF raw(scale[1]) < raw(scale[2]) THEN raw(v) <= raw(w) ELSE raw(v) >= raw(w)
  <1> DEFINE from    == scale[1]
             to      == scale[2]
             least   == UsableMin(p)
             most    == UsableMax(p)
             L       == LabelledValues(p, OffLabels)
             usable  == p.range[1]..p.range[2] \ L
             step(v) == Rounded((v - from) * (most - least), to - from)
             raw(v)  == RangeRaw(p, scale, v, quirk)
             back    == Descending(p, quirk)
  <1>1. /\ scale # None /\ p.range # None /\ ~(most <= least)
        /\ ~\E off \in L : least < off /\ off < most
    BY DEF RangeRaw
  <1>2. \A v : raw(v) = IF back THEN most - step(v) ELSE least + step(v)
    BY <1>1 DEF RangeRaw
  <1>3. /\ least \in usable /\ most \in usable /\ least < most
        /\ least = SetMin(usable) /\ most = SetMax(usable)
    BY <1>1, UsableEnds
  <1>4. least \in Int /\ most \in Int /\ most - least \in Nat /\ usable \subseteq Int
    BY <1>3
  <1>5. \A r \in least..most : r \in usable
    <2>1. \A r \in least..most : r \in p.range[1]..p.range[2]
      BY <1>3, <1>4
    <2>2. \A r \in least..most : r \notin L
      BY <1>1, <1>3, <1>4
    <2> QED BY <2>1, <2>2
  <1>6. from \in Int /\ to \in Int /\ from < to
    OBVIOUS
  <1> HIDE DEF from, to, least, most, usable, L, back
  <1>7. /\ step(from) = 0 /\ step(to) = most - least
        /\ \A v \in from..to : step(v) \in 0..(most - least)
        /\ \A v, w \in from..to : v <= w => step(v) <= step(w)
    BY <1>4, <1>6, StepsOfScale
  <1> HIDE DEF step, raw
  <1>8. {raw(from), raw(to)} = {least, most}
    BY <1>2, <1>4, <1>7
  <1>9. \A v \in from..to : raw(v) \in usable
    BY <1>2, <1>4, <1>5, <1>7
  <1>10. ASSUME NEW v \in from..to, NEW w \in from..to, v <= w
         PROVE  IF raw(from) < raw(to) THEN raw(v) <= raw(w) ELSE raw(v) >= raw(w)
    <2>1. step(v) \in Int /\ step(w) \in Int /\ step(v) <= step(w)
      BY <1>4, <1>7, <1>10
    <2>2. CASE back
      <3>1. ~(raw(from) < raw(to)) /\ raw(v) = most - step(v) /\ raw(w) = most - step(w)
        BY <1>2, <1>3, <1>4, <1>7, <2>2
      <3> QED BY <1>4, <2>1, <3>1
    <2>3. CASE ~back
      <3>1. raw(from) < raw(to) /\ raw(v) = least + step(v) /\ raw(w) = least + step(w)
        BY <1>2, <1>3, <1>4, <1>7, <2>3
      <3> QED BY <1>4, <2>1, <3>1
    <2> QED BY <2>2, <2>3
  <1> QED BY <1>3, <1>8, <1>9, <1>10 DEF usable, L, raw, from, to
-----------------------------------------------------------------------------
(* The laws.                                                               *)

\* The samples of a plan.
LEMMA PlanSamples ==
  ASSUME PolicySamples, sample.of = "plan"
  PROVE  /\ sample.input[2] \subseteq Policies
         /\ \A d \in sample.input[1] : \E n \in Fleet : d = Device(n)
  <1>1. PICK P \in SUBSET Policies, N \in SUBSET Fleet :
          sample = [of |-> "plan", input |-> <<{Device(n) : n \in N}, P>>]
    BY DEF PolicySamples
  <1> QED BY <1>1

\* The ask is what its fields are.
LEMMA AskFields ==
  ASSUME NEW D, NEW P, NEW a \in Asks(D, P)
  PROVE  /\ a.device \in D /\ a.policy \in P /\ a.concept \in Concepts
         /\ a.concept \in DOMAIN a.policy.settings /\ PolicyMatches(a.policy, a.device)
         /\ \A b \in Asks(D, P) : a.device = b.device /\ a.policy = b.policy
                                  /\ a.concept = b.concept => a = b
  BY DEF Asks

\* An answer is one of four.
LEMMA AnswerStatus ==
  ASSUME NEW a
  PROVE  /\ Answer(a).status \in {"resolved", "not_applicable", "ambiguous", "unmappable"}
         /\ Answer(a).status = "resolved" =>
              /\ a.concept \in DOMAIN Locators
              /\ \E p \in MatchingParams(a.device, Locators[a.concept]) : Answer(a).id = p.id
  <1>1. CASE a.concept \notin DOMAIN Locators
    BY <1>1 DEF Answer, Resolve, Failed
  <1>2. CASE a.concept \in DOMAIN Locators
    <2> DEFINE value == a.policy.settings[a.concept]
               found == MatchingParams(a.device, Locators[a.concept])
               key   == <<a.concept, a.device.maker, a.device.model>>
               quirk == IF key \in DOMAIN Quirks THEN Quirks[key] ELSE None
               p     == CHOOSE p \in found : TRUE
               raw   == Raw(p, a.concept, value, quirk)
    <2>1. Answer(a) = IF found = {} THEN Failed("not_applicable")
                      ELSE IF Cardinality(found) > 1 THEN Failed("ambiguous")
                      ELSE IF raw = None THEN Failed("unmappable")
                      ELSE [status |-> "resolved", id |-> p.id, value |-> raw]
      BY <1>2 DEF Answer, Resolve
    <2>2. found # {} => p \in found
      OBVIOUS
    <2> HIDE DEF raw, p, found
    <2> QED BY <1>2, <2>1, <2>2 DEF Failed, found
  <1> QED BY <1>1, <1>2

\* Two uncontested asks of a device for one concept are the same.
LEMMA AskedOnce ==
  ASSUME NEW D, NEW P, NEW a \in Asks(D, P), NEW b \in Asks(D, P),
         a.device = b.device, a.concept = b.concept, ~Contested(a, Asks(D, P))
  PROVE  a = b
  BY AskFields DEF Contested

\* Of three that say whether they are, exactly one is.
LEMMA OneOfThree ==
  ASSUME NEW x \in BOOLEAN, NEW y \in BOOLEAN, NEW z \in BOOLEAN,
         x \/ y \/ z, ~(x /\ y), ~(x /\ z), ~(y /\ z)
  PROVE  Cardinality({t \in {<<"write", x>>, <<"warning", y>>, <<"error", z>>} : t[2]}) = 1
  <1> DEFINE u == <<"write", x>>
             v == <<"warning", y>>
             w == <<"error", z>>
  <1>1. u[2] = x /\ v[2] = y /\ w[2] = z
    OBVIOUS
  <1> HIDE DEF u, v, w
  <1>2. \/ {t \in {u, v, w} : t[2]} = {u}
        \/ {t \in {u, v, w} : t[2]} = {v}
        \/ {t \in {u, v, w} : t[2]} = {w}
    BY <1>1, Zenon
  <1>3. Cardinality({t \in {u, v, w} : t[2]}) = 1
    BY <1>2, FS_Singleton
  <1> QED BY <1>3 DEF u, v, w

\* Every ask is answered by a write, a warning or an error, and no parameter of a
\* device is written two values, however policies overlap: for all devices no
\* parameter of which stands for two concepts.
THEOREM EveryAskIsAnswered == PolicySamples => OneAnswer
  <1> SUFFICES ASSUME PolicySamples, sample.of = "plan" PROVE OneAnswer
    BY DEF OneAnswer
  <1> DEFINE D    == sample.input[1]
             P    == sample.input[2]
             asks == Asks(D, P)
             plan == EvaluatePolicies(D, P)
             Written(a) == \E w \in plan.writes : w.device = a.device /\ w.concept = a.concept
             Warned(a)  == <<a.device, a.concept>> \in plan.warnings
             Wrong(a)   == \E e \in plan.errors : e[1] = a.device /\ e[2] = a.concept
  <1>0. /\ \A w : w \in plan.writes <=>
             \E a \in asks : /\ ~Contested(a, asks) /\ Answer(a).status = "resolved"
                             /\ w = Write(a)
        /\ \A w : w \in plan.warnings <=>
             \E a \in asks : /\ ~Contested(a, asks) /\ Answer(a).status = "not_applicable"
                             /\ w = <<a.device, a.concept>>
        /\ \A e : e \in plan.errors <=>
             \E a \in asks : Blocked(a, asks) /\ e = ErrorOf(a, asks)
    BY PlanOfAsks
  <1>1. \A a, b \in asks : a.device = b.device /\ a.concept = b.concept =>
          Contested(a, asks) \/ a = b
    BY AskedOnce
  <1> HIDE DEF plan, asks
  <1>2. ASSUME NEW a \in asks
        PROVE  /\ Written(a) <=> ~Contested(a, asks) /\ Answer(a).status = "resolved"
               /\ Warned(a) <=> ~Contested(a, asks) /\ Answer(a).status = "not_applicable"
               /\ Wrong(a) <=> Blocked(a, asks)
    <2>1. Written(a) <=> ~Contested(a, asks) /\ Answer(a).status = "resolved"
      <3>1. \A b : Write(b).device = b.device /\ Write(b).concept = b.concept
        BY DEF Write
      <3> QED BY <1>0, <1>1, <3>1
    <2>2. Warned(a) <=> ~Contested(a, asks) /\ Answer(a).status = "not_applicable"
      BY <1>0, <1>1
    <2>3. Wrong(a) <=> Blocked(a, asks)
      <3>1. \A b : ErrorOf(b, asks)[1] = b.device /\ ErrorOf(b, asks)[2] = b.concept
        BY DEF ErrorOf
      <3>2. Blocked(a, asks) => Wrong(a)
        BY <1>0, <3>1
      <3>3. ASSUME Wrong(a) PROVE Blocked(a, asks)
        <4>1. PICK b \in asks : Blocked(b, asks) /\ b.device = a.device /\ b.concept = a.concept
          BY <1>0, <3>1, <3>3
        <4> QED BY <1>1, <4>1 DEF Blocked
      <3> QED BY <3>2, <3>3
    <2> QED BY <2>1, <2>2, <2>3
  <1>3. ASSUME NEW a \in asks
        PROVE  Cardinality({x \in {<<"write", Written(a)>>, <<"warning", Warned(a)>>,
                                   <<"error", Wrong(a)>>} : x[2]}) = 1
    <2>1. /\ Written(a) \in BOOLEAN /\ Warned(a) \in BOOLEAN /\ Wrong(a) \in BOOLEAN
          /\ Written(a) \/ Warned(a) \/ Wrong(a)
          /\ ~(Written(a) /\ Warned(a)) /\ ~(Written(a) /\ Wrong(a)) /\ ~(Warned(a) /\ Wrong(a))
      <3>1. Written(a) \in BOOLEAN /\ Warned(a) \in BOOLEAN /\ Wrong(a) \in BOOLEAN
        OBVIOUS
      <3> HIDE DEF Written, Warned, Wrong
      <3>2. Answer(a).status \in {"resolved", "not_applicable", "ambiguous", "unmappable"}
        BY AnswerStatus
      <3>3. Blocked(a, asks) <=>
              Contested(a, asks) \/ Answer(a).status \in {"ambiguous", "unmappable"}
        BY DEF Blocked
      <3> QED BY <1>2, <3>1, <3>2, <3>3
    <2> HIDE DEF Written, Warned, Wrong
    <2> QED BY <2>1, OneOfThree
  <1>4. ASSUME NEW w \in plan.writes, NEW x \in plan.writes, w.device = x.device, w.id = x.id
        PROVE  w.value = x.value
    <2>1. PICK a \in asks : /\ ~Contested(a, asks) /\ Answer(a).status = "resolved"
                            /\ w = Write(a)
      BY <1>0
    <2>2. PICK b \in asks : Answer(b).status = "resolved" /\ x = Write(b)
      BY <1>0
    <2>3. a.device = b.device /\ Answer(a).id = Answer(b).id
      BY <1>4, <2>1, <2>2 DEF Write
    <2>4. PICK n \in Fleet : a.device = Device(n)
      BY AskFields, PlanSamples DEF asks
    <2>5. a.concept = b.concept
      <3>1. a.concept \in DOMAIN Locators /\ b.concept \in DOMAIN Locators
        BY <2>1, <2>2, AnswerStatus
      <3>2. PICK p \in MatchingParams(Device(n), Locators[a.concept]) : Answer(a).id = p.id
        BY <2>1, <2>4, AnswerStatus
      <3>3. PICK q \in MatchingParams(Device(n), Locators[b.concept]) : Answer(b).id = q.id
        BY <2>2, <2>3, <2>4, AnswerStatus
      <3>4. p.id = q.id
        BY <2>3, <3>2, <3>3
      <3>5. (\E v \in MatchingParams(Device(n), Locators[a.concept]),
                u \in MatchingParams(Device(n), Locators[b.concept]) : v.id = u.id)
            => a.concept = b.concept
        BY <3>1, LawsAssumption, Zenon
      <3> QED BY <3>4, <3>5
    <2>6. a = b
      BY <1>1, <2>1, <2>3, <2>5
    <2> QED BY <2>1, <2>2, <2>6
  <1>5. /\ \A a \in asks :
             Cardinality({x \in {<<"write", Written(a)>>, <<"warning", Warned(a)>>,
                                 <<"error", Wrong(a)>>} : x[2]}) = 1
        /\ \A w, x \in plan.writes : w.device = x.device /\ w.id = x.id => w.value = x.value
    <2> HIDE DEF Written, Warned, Wrong
    <2> QED BY <1>3, <1>4
  <1> QED BY <1>5, Zenon DEF OneAnswer, plan, asks
-----------------------------------------------------------------------------
(* A setting taken out of a policy.                                        *)

Instead(policies, p, c) == (policies \ {p}) \cup {Without(p, c)}

LEMMA WithoutFacts ==
  ASSUME NEW p \in Policies, NEW c
  PROVE  LET q == Without(p, c)
         IN /\ q.name = p.name
            /\ \A d : PolicyMatches(q, d) <=> PolicyMatches(p, d)
            /\ \A x : x \in DOMAIN q.settings <=> x \in DOMAIN p.settings /\ x # c
            /\ \A x \in DOMAIN q.settings : q.settings[x] = p.settings[x]
  <1> DEFINE kept == [x \in DOMAIN p.settings \ {c} |-> p.settings[x]]
             q    == [name |-> p.name, match |-> p.match, settings |-> kept,
                      exclude |-> p.exclude]
  <1>1. p = [name |-> p.name, match |-> p.match, settings |-> p.settings,
             exclude |-> p.exclude]
    BY LawsAssumption
  <1>2. Without(p, c) = q
    <2> HIDE DEF kept
    <2>1. [p EXCEPT !.settings = kept] = q
      BY <1>1
    <2> QED BY <2>1 DEF Without, kept
  <1>3. /\ \A x : x \in DOMAIN kept <=> x \in DOMAIN p.settings /\ x # c
        /\ \A x \in DOMAIN kept : kept[x] = p.settings[x]
    OBVIOUS
  <1> HIDE DEF kept
  <1>4. q.name = p.name /\ q.match = p.match /\ q.exclude = p.exclude /\ q.settings = kept
    OBVIOUS
  <1> HIDE DEF q
  <1> QED BY <1>2, <1>3, <1>4 DEF PolicyMatches

\* The same ask in both plans.
Like(a, b) ==
  /\ a.device = b.device /\ a.concept = b.concept /\ a.policy.name = b.policy.name
  /\ Answer(a) = Answer(b)

LEMMA AsksAlike ==
  ASSUME NEW D, NEW P \in SUBSET Policies, NEW p \in P, NEW c
  PROVE  LET asks == Asks(D, P)
             less == Asks(D, Instead(P, p, c))
         IN /\ \A a \in asks : (a.policy = p /\ a.concept = c) \/ \E b \in less : Like(a, b)
            /\ \A b \in less : \E a \in asks : Like(a, b) /\ ~(a.policy = p /\ a.concept = c)
            /\ \A a, x \in asks : a.policy.name = x.policy.name => a.policy = x.policy
            /\ \A b, y \in less : b.policy.name = y.policy.name => b.policy = y.policy
  <1> DEFINE q    == Without(p, c)
             P2   == Instead(P, p, c)
             asks == Asks(D, P)
             less == Asks(D, P2)
  <1>0. \A x, y \in P : x.name = y.name => x = y
    BY LawsAssumption
  <1>1. /\ q.name = p.name
        /\ \A d : PolicyMatches(q, d) <=> PolicyMatches(p, d)
        /\ \A x : x \in DOMAIN q.settings <=> x \in DOMAIN p.settings /\ x # c
        /\ \A x \in DOMAIN q.settings : q.settings[x] = p.settings[x]
    BY WithoutFacts
  <1> HIDE DEF q
  <1>2. \A x : x \in P2 <=> (x \in P /\ x # p) \/ x = q
    BY DEF Instead, q
  <1>3. \A x, y \in P2 : x.name = y.name => x = y
    BY <1>0, <1>1, <1>2
  <1> HIDE DEF P2
  <1>4. \A Q : \A d, x, e : [device |-> d, policy |-> x, concept |-> e] \in Asks(D, Q) <=>
          d \in D /\ x \in Q /\ e \in Concepts /\ PolicyMatches(x, d) /\ e \in DOMAIN x.settings
    BY DEF Asks
  <1>5. ASSUME NEW a \in asks, ~(a.policy = p /\ a.concept = c)
        PROVE  \E b \in less : Like(a, b)
    <2>1. /\ a.device \in D /\ a.policy \in P /\ a.concept \in Concepts
          /\ a.concept \in DOMAIN a.policy.settings /\ PolicyMatches(a.policy, a.device)
      BY AskFields
    <2>2. CASE a.policy # p
      <3>1. a = [device |-> a.device, policy |-> a.policy, concept |-> a.concept]
        BY DEF Asks
      <3>2. a \in less
        BY <1>2, <1>4, <2>1, <2>2, <3>1
      <3> QED BY <3>2 DEF Like
    <2>3. CASE a.policy = p
      <3> DEFINE b == [device |-> a.device, policy |-> q, concept |-> a.concept]
      <3>1. b \in less
        BY <1>1, <1>2, <1>4, <1>5, <2>1, <2>3
      <3>2. b.device = a.device /\ b.policy = q /\ b.concept = a.concept
        OBVIOUS
      <3> HIDE DEF b
      <3>3. Answer(b) = Answer(a)
        BY <1>1, <1>5, <2>1, <2>3, <3>2 DEF Answer
      <3> QED BY <1>1, <2>3, <3>1, <3>2, <3>3 DEF Like
    <2> QED BY <2>2, <2>3
  <1>6. ASSUME NEW b \in less
        PROVE  \E a \in asks : Like(a, b) /\ ~(a.policy = p /\ a.concept = c)
    <2>1. /\ b.device \in D /\ b.policy \in P2 /\ b.concept \in Concepts
          /\ b.concept \in DOMAIN b.policy.settings /\ PolicyMatches(b.policy, b.device)
      BY AskFields
    <2>2. CASE b.policy # q
      <3>1. b = [device |-> b.device, policy |-> b.policy, concept |-> b.concept]
        BY DEF Asks
      <3>2. b \in asks /\ b.policy # p
        BY <1>2, <1>4, <2>1, <2>2, <3>1
      <3> QED BY <3>2 DEF Like
    <2>3. CASE b.policy = q
      <3> DEFINE a == [device |-> b.device, policy |-> p, concept |-> b.concept]
      <3>1. a \in asks /\ b.concept # c
        BY <1>1, <1>4, <2>1, <2>3
      <3>2. b.device = a.device /\ a.policy = p /\ b.concept = a.concept
        OBVIOUS
      <3> HIDE DEF a
      <3>3. Answer(b) = Answer(a)
        BY <1>1, <2>1, <2>3, <3>2 DEF Answer
      <3> QED BY <1>1, <2>3, <3>1, <3>2, <3>3 DEF Like
    <2> QED BY <2>2, <2>3
  <1>7. \A a, x \in asks : a.policy.name = x.policy.name => a.policy = x.policy
    BY <1>0, AskFields
  <1>8. \A b, y \in less : b.policy.name = y.policy.name => b.policy = y.policy
    BY <1>3, AskFields
  <1> QED BY <1>5, <1>6, <1>7, <1>8 DEF P2

\* Nobody who has the name of the policy asks for the setting any more.
LEMMA NotAskedNow ==
  ASSUME NEW D, NEW P \in SUBSET Policies, NEW p \in P, NEW c,
         NEW b \in Asks(D, Instead(P, p, c)), b.policy.name = p.name
  PROVE  b.concept # c
  <1>1. b.policy \in Instead(P, p, c) /\ b.concept \in DOMAIN b.policy.settings
    BY AskFields
  <1>2. b.policy = Without(p, c)
    <2>1. \A x \in P : x.name = p.name => x = p
      BY LawsAssumption
    <2> QED BY <1>1, <2>1 DEF Instead
  <1> QED BY <1>1, <1>2, WithoutFacts

\* Where no ask of the setting is blocked, the others stay as they were.
LEMMA OthersStay ==
  ASSUME NEW D, NEW P \in SUBSET Policies, NEW p \in P, NEW c,
         \A r \in Asks(D, P) : r.policy = p /\ r.concept = c => ~Blocked(r, Asks(D, P)),
         NEW a \in Asks(D, P), ~(a.policy = p /\ a.concept = c),
         NEW b \in Asks(D, Instead(P, p, c)), Like(a, b)
  PROVE  /\ Write(a) = Write(b)
         /\ Contested(a, Asks(D, P)) <=> Contested(b, Asks(D, Instead(P, p, c)))
         /\ ErrorOf(a, Asks(D, P)) = ErrorOf(b, Asks(D, Instead(P, p, c)))
  <1> DEFINE asks == Asks(D, P)
             less == Asks(D, Instead(P, p, c))
             Gone(x) == x.policy = p /\ x.concept = c
  <1>1. /\ \A x \in asks : Gone(x) \/ \E y \in less : Like(x, y)
        /\ \A y \in less : \E x \in asks : Like(x, y) /\ ~Gone(x)
        /\ \A x, y \in asks : x.policy.name = y.policy.name => x.policy = y.policy
        /\ \A x, y \in less : x.policy.name = y.policy.name => x.policy = y.policy
    BY AsksAlike
  <1>2. \A r \in asks : Gone(r) => ~Contested(r, asks)
    BY DEF Blocked
  <1> HIDE DEF asks, less
  <1>3. Write(a) = Write(b)
    BY DEF Like, Write
  <1>4. \A x \in asks : x.device = a.device /\ x.concept = a.concept => ~Gone(x)
    BY <1>2 DEF Contested, asks
  <1>5. Contested(a, asks) <=> Contested(b, less)
    <2>1. ASSUME NEW x \in asks, x.device = a.device, x.concept = a.concept, x.policy # a.policy
          PROVE  Contested(b, less)
      <3>1. PICK y \in less : Like(x, y)
        BY <1>1, <1>4, <2>1
      <3>2. y.policy # b.policy
        BY <1>1, <2>1, <3>1 DEF Like, asks
      <3> QED BY <2>1, <3>1, <3>2 DEF Like, Contested
    <2>2. ASSUME NEW y \in less, y.device = b.device, y.concept = b.concept, y.policy # b.policy
          PROVE  Contested(a, asks)
      <3>1. PICK x \in asks : Like(x, y)
        BY <1>1
      <3>2. x.policy # a.policy
        BY <1>1, <2>2, <3>1 DEF Like, less
      <3> QED BY <2>2, <3>1, <3>2 DEF Like, Contested
    <2> QED BY <2>1, <2>2 DEF Contested
  <1>6. {x.policy.name : x \in {y \in asks : y.device = a.device /\ y.concept = a.concept}}
        = {x.policy.name : x \in {y \in less : y.device = b.device /\ y.concept = b.concept}}
    <2>1. \A x \in asks : x.device = a.device /\ x.concept = a.concept =>
            \E y \in less : /\ y.device = b.device /\ y.concept = b.concept
                            /\ y.policy.name = x.policy.name
      BY <1>1, <1>4 DEF Like
    <2>2. \A y \in less : y.device = b.device /\ y.concept = b.concept =>
            \E x \in asks : /\ x.device = a.device /\ x.concept = a.concept
                            /\ y.policy.name = x.policy.name
      BY <1>1 DEF Like
    <2> QED BY <2>1, <2>2
  <1>7. ErrorOf(a, asks) = ErrorOf(b, less)
    BY <1>6 DEF ErrorOf, Like
  <1> QED BY <1>3, <1>5, <1>7 DEF asks, less

\* A setting of one policy: whether it is reported, whether it matters.
LEMMA UnusedSetting ==
  ASSUME NEW D, NEW P \in SUBSET Policies, NEW p \in P, NEW c \in DOMAIN p.settings
  PROVE  LET plan  == EvaluatePolicies(D, P)
             other == EvaluatePolicies(D, Instead(P, p, c))
         IN ({<<p.name, None>>, <<p.name, c>>} \cap plan.unused # {})
            = ~(other.writes # plan.writes \/ other.errors # plan.errors)
  <1> DEFINE asks  == Asks(D, P)
             plan  == EvaluatePolicies(D, P)
             less  == Asks(D, Instead(P, p, c))
             other == EvaluatePolicies(D, Instead(P, p, c))
             Unused == {<<p.name, None>>, <<p.name, c>>} \cap plan.unused # {}
             Useful == other.writes # plan.writes \/ other.errors # plan.errors
             Gone(x) == x.policy = p /\ x.concept = c
  <1>1. /\ c \in Concepts /\ None \notin Concepts
        /\ \A x, y \in P : x.name = y.name => x = y
    BY LawsAssumption
  <1>2. /\ \A w : w \in plan.writes <=>
             \E a \in asks : /\ ~Contested(a, asks) /\ Answer(a).status = "resolved"
                             /\ w = Write(a)
        /\ \A e : e \in plan.errors <=>
             \E a \in asks : Blocked(a, asks) /\ e = ErrorOf(a, asks)
        /\ \A u : u \in plan.unused <=>
             \/ \E q \in P : (\A a \in asks : a.policy # q) /\ u = <<q.name, None>>
             \/ \E a \in asks :
                  /\ u = <<a.policy.name, a.concept>>
                  /\ \A x \in asks : x.policy = a.policy /\ x.concept = a.concept =>
                       ~Blocked(x, asks) /\ Answer(x).status # "resolved"
    BY PlanOfAsks
  <1>3. /\ \A w : w \in other.writes <=>
             \E a \in less : /\ ~Contested(a, less) /\ Answer(a).status = "resolved"
                             /\ w = Write(a)
        /\ \A e : e \in other.errors <=>
             \E a \in less : Blocked(a, less) /\ e = ErrorOf(a, less)
    BY PlanOfAsks
  <1>4. /\ \A x \in asks : Gone(x) \/ \E y \in less : Like(x, y)
        /\ \A y \in less : \E x \in asks : Like(x, y) /\ ~Gone(x)
        /\ \A y \in less : y.policy.name = p.name => y.concept # c
    <2>1. \A x \in asks : Gone(x) \/ \E y \in less : Like(x, y)
      BY AsksAlike
    <2>2. \A y \in less : \E x \in asks : Like(x, y) /\ ~Gone(x)
      BY AsksAlike
    <2>3. \A y \in less : y.policy.name = p.name => y.concept # c
      BY NotAskedNow
    <2> QED BY <2>1, <2>2, <2>3
  <1>5. ASSUME \A r \in asks : Gone(r) => ~Blocked(r, asks),
               NEW a \in asks, ~Gone(a), NEW b \in less, Like(a, b)
        PROVE  /\ Write(a) = Write(b) /\ ErrorOf(a, asks) = ErrorOf(b, less)
               /\ Contested(a, asks) <=> Contested(b, less)
               /\ Blocked(a, asks) <=> Blocked(b, less)
    <2>1. /\ Write(a) = Write(b)
          /\ Contested(a, asks) <=> Contested(b, less)
          /\ ErrorOf(a, asks) = ErrorOf(b, less)
      BY <1>5, OthersStay
    <2> QED BY <1>5, <2>1 DEF Blocked, Like
  <1>6. \A a \in asks : /\ a.policy \in P /\ a.concept \in Concepts
                        /\ PolicyMatches(a.policy, a.device) /\ a.device \in D
    BY AskFields
  <1>7. (\E a \in asks : a.policy = p) => \E a \in asks : Gone(a)
    <2> SUFFICES ASSUME NEW a \in asks, a.policy = p PROVE \E x \in asks : Gone(x)
      OBVIOUS
    <2> DEFINE x == [device |-> a.device, policy |-> p, concept |-> c]
    <2>1. x \in asks
      BY <1>1, <1>6 DEF Asks
    <2>2. Gone(x)
      OBVIOUS
    <2> HIDE DEF x, asks
    <2> QED BY <2>1, <2>2
  <1> HIDE DEF asks, less, plan, other
  <1>8. Unused <=> \A r \in asks : Gone(r) => ~Blocked(r, asks)
                                                    /\ Answer(r).status # "resolved"
    <2>1. <<p.name, None>> \in plan.unused <=> \A a \in asks : a.policy # p
      BY <1>1, <1>2, <1>6
    <2>2. <<p.name, c>> \in plan.unused <=>
            \E a \in asks : /\ Gone(a)
                            /\ \A x \in asks : Gone(x) => ~Blocked(x, asks)
                                                         /\ Answer(x).status # "resolved"
      BY <1>1, <1>2, <1>6
    <2>3. Unused <=> <<p.name, None>> \in plan.unused \/ <<p.name, c>> \in plan.unused
      OBVIOUS
    <2> QED BY <1>7, <2>1, <2>2, <2>3
  <1>9. ASSUME \A r \in asks : Gone(r) => ~Blocked(r, asks) /\ Answer(r).status # "resolved"
        PROVE  other.writes = plan.writes /\ other.errors = plan.errors
    <2>1. \A r \in asks : Gone(r) => ~Blocked(r, asks)
      BY <1>9
    <2>2. \A a \in asks, b \in less : ~Gone(a) /\ Like(a, b) =>
            /\ Write(a) = Write(b) /\ ErrorOf(a, asks) = ErrorOf(b, less)
            /\ Contested(a, asks) <=> Contested(b, less)
            /\ Blocked(a, asks) <=> Blocked(b, less)
            /\ Answer(a) = Answer(b)
      BY <1>5, <2>1 DEF Like
    <2>3. \A w : w \in other.writes <=> w \in plan.writes
      BY <1>2, <1>3, <1>4, <1>9, <2>2
    <2>4. \A e : e \in other.errors <=> e \in plan.errors
      BY <1>2, <1>3, <1>4, <1>9, <2>2
    <2> QED BY <2>3, <2>4
  <1>10. ASSUME NEW r \in asks, Gone(r), Blocked(r, asks)
         PROVE  other.errors # plan.errors
    <2>1. ErrorOf(r, asks) \in plan.errors
      BY <1>2, <1>10
    <2>2. p.name \in ErrorOf(r, asks)[3] /\ ErrorOf(r, asks)[2] = c
      BY <1>10 DEF ErrorOf
    <2>3. \A y \in less : ErrorOf(y, less)[2] = c => p.name \notin ErrorOf(y, less)[3]
      BY <1>4 DEF ErrorOf
    <2> QED BY <1>3, <2>1, <2>2, <2>3
  <1>11. ASSUME NEW r \in asks, Gone(r), ~Blocked(r, asks), Answer(r).status = "resolved"
         PROVE  other.writes # plan.writes
    <2>1. Write(r) \in plan.writes
      BY <1>2, <1>11 DEF Blocked
    <2>2. Write(r).policy = p.name /\ Write(r).concept = c
      BY <1>11 DEF Write
    <2>3. \A y \in less : Write(y).concept = c => Write(y).policy # p.name
      BY <1>4 DEF Write
    <2> QED BY <1>3, <2>1, <2>2, <2>3
  <1>12. Unused <=> ~(other.writes # plan.writes \/ other.errors # plan.errors)
    <2> HIDE DEF Unused
    <2> QED BY <1>8, <1>9, <1>10, <1>11
  <1>13. Unused \in BOOLEAN
    OBVIOUS
  <1> HIDE DEF Unused
  <1>14. Unused = ~(other.writes # plan.writes \/ other.errors # plan.errors)
    BY <1>12, <1>13, Zenon
  <1> QED BY <1>14, Zenon DEF other, plan, Unused

\* A setting is reported unused exactly when the plan without it writes and
\* complains the same: for all devices and policies.
THEOREM UnusedSettingsAreUseless == PolicySamples => UnusedIsUseless
  <1> SUFFICES ASSUME PolicySamples, sample.of = "plan" PROVE UnusedIsUseless
    BY DEF UnusedIsUseless
  <1> DEFINE devices  == sample.input[1]
             policies == sample.input[2]
             plan     == EvaluatePolicies(devices, policies)
             Less(p, c) == EvaluatePolicies(devices, Instead(policies, p, c))
             Useful(p, c) == Less(p, c).writes # plan.writes \/ Less(p, c).errors # plan.errors
             Unused(p, c) == {<<p.name, None>>, <<p.name, c>>} \cap plan.unused # {}
  <1>1. policies \in SUBSET Policies
    BY PlanSamples
  <1> HIDE DEF devices, policies
  <1>2. ASSUME NEW p \in policies, NEW c \in DOMAIN p.settings
        PROVE  Unused(p, c) = ~Useful(p, c)
    BY <1>1, UnusedSetting
  <1>3. \A p \in policies : \A c \in DOMAIN p.settings : Unused(p, c) = ~Useful(p, c)
    <2> HIDE DEF Unused, Useful
    <2> QED BY <1>2
  <1> QED BY <1>3, Zenon DEF UnusedIsUseless, plan, Instead, devices, policies
-----------------------------------------------------------------------------
(* The repair of disabled diagnostics.                                     *)

\* The fields of a registry entry that enabling it leaves alone.
SameEntry(e, f) ==
  /\ e.id = f.id /\ e.domain = f.domain /\ e.platform = f.platform
  /\ e.device = f.device /\ e.name = f.name /\ e.diag = f.diag

\* Two houses that differ in which entities are disabled.
SameHouse(h, g) ==
  /\ h.names = g.names /\ h.states = g.states /\ h.now = g.now
  /\ DOMAIN h.registry = DOMAIN g.registry
  /\ \A i \in DOMAIN h.registry : SameEntry(h.registry[i], g.registry[i])

\* Records with the fields of a house and of its entries.
Shaped(h) ==
  /\ DOMAIN h = {"names", "registry", "states", "now", "batteries"}
  /\ \A i \in DOMAIN h.registry :
       DOMAIN h.registry[i] = {"id", "domain", "platform", "device", "name", "diag", "disabled"}

\* What the fix does to a house.
LEMMA FixedHouse ==
  ASSUME NEW h, Shaped(h), NEW ids
  PROVE  LET g == FixDisabledDiagnostics(h, ids)
         IN /\ Shaped(g) /\ SameHouse(h, g)
            /\ \A i \in DOMAIN h.registry :
                 g.registry[i].disabled <=> h.registry[i].disabled /\ h.registry[i].id \notin ids
  <1> DEFINE reg == [i \in DOMAIN h.registry |-> IF h.registry[i].id \in ids
                                                 THEN [h.registry[i] EXCEPT !.disabled = FALSE]
                                                 ELSE h.registry[i]]
             g == [h EXCEPT !.registry = reg]
  <1>1. FixDisabledDiagnostics(h, ids) = g
    BY DEF FixDisabledDiagnostics
  <1>2. ASSUME NEW i \in DOMAIN h.registry
        PROVE  /\ DOMAIN reg[i] = DOMAIN h.registry[i]
               /\ SameEntry(h.registry[i], reg[i])
               /\ reg[i].disabled <=> h.registry[i].disabled /\ h.registry[i].id \notin ids
    <2> DEFINE e == h.registry[i]
               f == [e EXCEPT !.disabled = FALSE]
    <2>1. DOMAIN e = {"id", "domain", "platform", "device", "name", "diag", "disabled"}
      BY DEF Shaped
    <2>2. reg[i] = IF e.id \in ids THEN f ELSE e
      OBVIOUS
    <2> HIDE DEF e, reg
    <2>3. DOMAIN f = DOMAIN e /\ SameEntry(e, f) /\ f.disabled = FALSE
      BY <2>1 DEF SameEntry
    <2> HIDE DEF f
    <2> QED BY <2>2, <2>3 DEF e, SameEntry
  <1>3. DOMAIN reg = DOMAIN h.registry
    OBVIOUS
  <1> HIDE DEF reg
  <1>4. /\ DOMAIN g = DOMAIN h /\ g.registry = reg
        /\ g.names = h.names /\ g.states = h.states /\ g.now = h.now
    BY DEF Shaped
  <1> HIDE DEF g
  <1>5. SameHouse(h, g) /\ Shaped(g)
    BY <1>2, <1>3, <1>4 DEF SameHouse, Shaped
  <1>6. \A i \in DOMAIN h.registry :
          g.registry[i].disabled <=> h.registry[i].disabled /\ h.registry[i].id \notin ids
    BY <1>2, <1>4
  <1> QED BY <1>1, <1>5, <1>6

\* What a watchdog reads besides what is disabled.
LEMMA SameFindings ==
  ASSUME NEW h, NEW g, SameHouse(h, g), NEW o, NEW d
  PROVE  /\ Targets(h, o) = Targets(g, o)
         /\ DeviceExcluded(h, o, d) <=> DeviceExcluded(g, o, d)
         /\ DeviceFound(h, o, d) = DeviceFound(g, o, d)
  <1>0. /\ \A e : e \in Entries(h) <=> \E i \in DOMAIN h.registry : e = h.registry[i]
        /\ \A e : e \in Entries(g) <=> \E i \in DOMAIN g.registry : e = g.registry[i]
    BY DEF Entries, ToSet
  <1>1. /\ \A e \in Entries(h) : \E f \in Entries(g) : SameEntry(e, f)
        /\ \A f \in Entries(g) : \E e \in Entries(h) : SameEntry(e, f)
    BY <1>0 DEF SameHouse
  <1>2. Targets(h, o) = Targets(g, o)
    <2>1. AllIntegrations(h) = AllIntegrations(g)
      BY <1>1 DEF AllIntegrations, SameEntry
    <2> QED BY <2>1 DEF Targets
  <1>3. DeviceExcluded(h, o, d) <=> DeviceExcluded(g, o, d)
    <2>1. DevicesOf(h, o.exclude) = DevicesOf(g, o.exclude)
      BY <1>1 DEF DevicesOf, SameEntry
    <2> QED BY <2>1 DEF DeviceExcluded, SameHouse
  <1>4. /\ \A e \in Kept(h, o, d) : \E f \in Kept(g, o, d) : SameEntry(e, f)
        /\ \A f \in Kept(g, o, d) : \E e \in Kept(h, o, d) : SameEntry(e, f)
    <2>1. \A e, f : SameEntry(e, f) /\ e \in Entries(h) /\ f \in Entries(g) =>
            (e \in Kept(h, o, d) <=> f \in Kept(g, o, d))
      BY <1>2 DEF Kept, Inputs, SameHouse, SameEntry
    <2>2. Kept(h, o, d) \subseteq Entries(h) /\ Kept(g, o, d) \subseteq Entries(g)
      BY DEF Kept, Inputs
    <2> QED BY <1>1, <2>1, <2>2
  <1>5. {e.id : e \in {x \in Kept(h, o, d) : h.states[x.id].state \in {"unavailable", "unknown"}}}
        = {e.id : e \in {x \in Kept(g, o, d) : g.states[x.id].state \in {"unavailable", "unknown"}}}
    BY <1>4 DEF SameHouse, SameEntry
  <1>6. Stale(h, o, d) <=> Stale(g, o, d)
    <2>1. Kept(h, o, d) # {} <=> Kept(g, o, d) # {}
      BY <1>4
    <2>2. (\A e \in Kept(h, o, d) : h.now - h.states[e.id].reported > o.threshold) <=>
          (\A e \in Kept(g, o, d) : g.now - g.states[e.id].reported > o.threshold)
      <3>1. h.now = g.now /\ h.states = g.states
        BY DEF SameHouse
      <3> QED BY <1>4, <3>1 DEF SameEntry
    <2> QED BY <2>1, <2>2 DEF Stale
  <1>7. DeviceFound(h, o, d) = DeviceFound(g, o, d)
    <2>1. Stale(h, o, d) = Stale(g, o, d)
      BY <1>6 DEF Stale
    <2> QED BY <1>5, <2>1, Zenon DEF DeviceFound
  <1> QED BY <1>2, <1>3, <1>7
\* What one scan says of the diagnostics of a device after the fix.
LEMMA FixedDiagnostics ==
  ASSUME NEW h, NEW g, SameHouse(h, g), NEW o, NEW d, NEW ids,
         \A i, j \in DOMAIN h.registry : h.registry[i].id = h.registry[j].id => i = j,
         ids \subseteq DiagnosticsFound(h, o, d),
         \A i \in DOMAIN h.registry :
           g.registry[i].disabled <=> h.registry[i].disabled /\ h.registry[i].id \notin ids
  PROVE  /\ DiagnosticsFound(g, o, d) = DiagnosticsFound(h, o, d) \ ids
         /\ \A x : x # d => DiagnosticsFound(g, o, x) = DiagnosticsFound(h, o, x)
  <1> DEFINE Says(k, a, x) ==
        \E i \in DOMAIN Recommended \cap Targets(k, o) : \E name \in Recommended[i] :
          /\ Recommends(k.registry[a], x, i, name)
          /\ \A m \in DOMAIN k.registry : m < a => ~Recommends(k.registry[m], x, i, name)
  <1>1. \A k, x : \A id : id \in DisabledDiagnostics(k, o, x) <=>
          \E a \in DOMAIN k.registry : /\ id = k.registry[a].id /\ k.registry[a].disabled
                                       /\ Says(k, a, x)
    BY DEF DisabledDiagnostics
  <1>2. \A x : \A a \in DOMAIN h.registry : Says(g, a, x) <=> Says(h, a, x)
    <2>1. Targets(h, o) = Targets(g, o)
      BY SameFindings
    <2>2. \A m \in DOMAIN h.registry : \A x, i, name :
            Recommends(g.registry[m], x, i, name) <=> Recommends(h.registry[m], x, i, name)
      BY DEF Recommends, SameHouse, SameEntry
    <2>3. DOMAIN g.registry = DOMAIN h.registry
      BY DEF SameHouse
    <2> QED BY <2>1, <2>2, <2>3
  <1>3. \A a \in DOMAIN h.registry : \A x : Says(h, a, x) => h.registry[a].device = x
    BY DEF Recommends
  <1> HIDE DEF Says
  <1>4. \A id \in ids : \E a \in DOMAIN h.registry : id = h.registry[a].id /\ h.registry[a].device = d
    BY <1>1, <1>3 DEF DiagnosticsFound
  <1>5. /\ DOMAIN g.registry = DOMAIN h.registry
        /\ \A a \in DOMAIN h.registry : g.registry[a].id = h.registry[a].id
    BY DEF SameHouse, SameEntry
  <1>6. \A id : id \in DisabledDiagnostics(g, o, d) <=>
          id \in DisabledDiagnostics(h, o, d) /\ id \notin ids
    BY <1>1, <1>2, <1>5
  <1>7. ASSUME NEW x, x # d
        PROVE  \A id : id \in DisabledDiagnostics(g, o, x) <=> id \in DisabledDiagnostics(h, o, x)
    <2>1. \A a \in DOMAIN h.registry : Says(h, a, x) => h.registry[a].id \notin ids
      BY <1>3, <1>4, <1>7
    <2> QED BY <1>1, <1>2, <1>5, <2>1
  <1>8. DiagnosticsFound(g, o, d) = DiagnosticsFound(h, o, d) \ ids
    BY <1>6 DEF DiagnosticsFound
  <1>9. ASSUME NEW x, x # d
        PROVE  DiagnosticsFound(g, o, x) = DiagnosticsFound(h, o, x)
    BY <1>7, <1>9 DEF DiagnosticsFound
  <1> QED BY <1>8, <1>9

\* The repair of a device leaves none for the next scan and touches no other
\* device, also where some of its entities were enabled meanwhile: for all houses
\* and options.
THEOREM RepairIsDone == CheckSamples => FixLeavesNothing
  <1> SUFFICES ASSUME CheckSamples, sample.of = "dw" PROVE FixLeavesNothing
    BY DEF FixLeavesNothing
  <1> DEFINE h == sample.input[1]
             o == sample.input[2]
             ids(d) == DwFound(h, o)[d][2]
             fixed(d, done) == FixDisabledDiagnostics(FixDisabledDiagnostics(h, done), ids(d))
  <1>1. h \in Houses
    BY DEF CheckSamples
  <1> HIDE DEF h, o
  <1>2. \A k : /\ \A d : d \in DOMAIN DwFound(k, o) <=> d \in DOMAIN k.names /\ ~DeviceExcluded(k, o, d)
               /\ \A d \in DOMAIN k.names : ~DeviceExcluded(k, o, d) =>
                    DwFound(k, o)[d] = <<DeviceFound(k, o, d), DiagnosticsFound(k, o, d)>>
    BY DEF DwFound
  <1>3. ASSUME NEW d \in DOMAIN DwFound(h, o), NEW done \in SUBSET ids(d)
        PROVE  /\ DwFound(fixed(d, done), o)[d][2] = {}
               /\ \A x \in DOMAIN DwFound(h, o) \ {d} :
                    DwFound(fixed(d, done), o)[x] = DwFound(h, o)[x]
    <2> DEFINE found == DiagnosticsFound(h, o, d)
               part  == FixDisabledDiagnostics(h, done)
               g     == FixDisabledDiagnostics(part, found)
    <2>1. ids(d) = found /\ done \subseteq found /\ d \in DOMAIN h.names
      BY <1>2
    <2>2. fixed(d, done) = g
      BY <2>1
    <2>3. /\ Shaped(h)
          /\ \A i, j \in DOMAIN h.registry : h.registry[i].id = h.registry[j].id => i = j
      BY <1>1, ChecksAssumption DEF Shaped
    <2> HIDE DEF found, fixed, ids
    <2>4. /\ Shaped(part) /\ SameHouse(h, part)
          /\ \A i \in DOMAIN h.registry :
               part.registry[i].disabled <=> h.registry[i].disabled /\ h.registry[i].id \notin done
      BY <2>3, FixedHouse
    <2> HIDE DEF part
    <2>5. /\ SameHouse(part, g)
          /\ \A i \in DOMAIN part.registry :
               g.registry[i].disabled <=> part.registry[i].disabled /\ part.registry[i].id \notin found
      BY <2>4, FixedHouse
    <2> HIDE DEF g
    <2>6. /\ SameHouse(h, g)
          /\ \A i \in DOMAIN h.registry :
               g.registry[i].disabled <=> h.registry[i].disabled /\ h.registry[i].id \notin found
      BY <2>1, <2>4, <2>5 DEF SameHouse, SameEntry
    <2>7. /\ DiagnosticsFound(g, o, d) = {}
          /\ \A x : x # d => DiagnosticsFound(g, o, x) = DiagnosticsFound(h, o, x)
      <3>1. DiagnosticsFound(g, o, d) = DiagnosticsFound(h, o, d) \ found
        BY <2>3, <2>6, FixedDiagnostics DEF found
      <3>2. \A x : x # d => DiagnosticsFound(g, o, x) = DiagnosticsFound(h, o, x)
        BY <2>3, <2>6, FixedDiagnostics DEF found
      <3> QED BY <3>1, <3>2 DEF found
    <2>8. ASSUME NEW x \in DOMAIN DwFound(h, o)
          PROVE  /\ DwFound(g, o)[x] = <<DeviceFound(h, o, x), DiagnosticsFound(g, o, x)>>
                 /\ DwFound(h, o)[x] = <<DeviceFound(h, o, x), DiagnosticsFound(h, o, x)>>
      <3>1. /\ DeviceExcluded(h, o, x) <=> DeviceExcluded(g, o, x)
            /\ DeviceFound(h, o, x) = DeviceFound(g, o, x)
        BY <2>6, SameFindings
      <3>2. g.names = h.names
        BY <2>6 DEF SameHouse
      <3> QED BY <1>2, <3>1, <3>2
    <2> QED BY <2>2, <2>7, <2>8
  <1>4. \A d \in DOMAIN DwFound(h, o) : \A done \in SUBSET ids(d) :
          /\ DwFound(fixed(d, done), o)[d][2] = {}
          /\ \A x \in DOMAIN DwFound(h, o) \ {d} : DwFound(fixed(d, done), o)[x] = DwFound(h, o)[x]
    <2> HIDE DEF fixed, ids
    <2> QED BY <1>3
  <1> QED BY <1>4, Zenon DEF FixLeavesNothing, h, o
-----------------------------------------------------------------------------
(* Directives that match nothing.                                          *)

LEMMA LosesFacts ==
  ASSUME NEW o, NEW field \in DOMAIN o, NEW x
  PROVE  LET less == Loses(o, <<field, x>>)
         IN less[field] = o[field] \ {x} /\ \A k \in DOMAIN o \ {field} : less[k] = o[k]
  <1> DEFINE u == <<field, x>>
  <1>1. u[1] = field /\ u[2] = x
    OBVIOUS
  <1> HIDE DEF u
  <1>2. Loses(o, u) = [o EXCEPT ![field] = o[field] \ {x}]
    BY <1>1 DEF Loses
  <1>3. Loses(o, u)[field] = o[field] \ {x} /\ \A k \in DOMAIN o \ {field} : Loses(o, u)[k] = o[k]
    BY <1>2
  <1> QED BY <1>3 DEF u

\* What a scan reads of the options of a Device Watchdog.
LEMMA SameScan ==
  ASSUME NEW h, Nothing \notin DOMAIN h.names, NEW o, NEW less,
         less.checks = o.checks, less.domains = o.domains, less.threshold = o.threshold,
         \A i \in AllIntegrations(h) : i \in Targets(h, less) <=> i \in Targets(h, o),
         \A d \in DOMAIN h.names : DeviceExcluded(h, less, d) <=> DeviceExcluded(h, o, d),
         \A id \in DwIdCandidates(h, o) : Matched(id, less.ids) <=> Matched(id, o.ids)
  PROVE  DwFound(h, less) = DwFound(h, o)
  <1>0. \A e : e \in Entries(h) <=> \E i \in DOMAIN h.registry : e = h.registry[i]
    BY DEF Entries, ToSet
  <1>1. ASSUME NEW d
        PROVE  Kept(h, less, d) = Kept(h, o, d)
    <2>1. ASSUME NEW e \in Entries(h)
          PROVE  e \in Kept(h, less, d) <=> e \in Kept(h, o, d)
      <3>1. e.platform \in Targets(h, less) <=> e.platform \in Targets(h, o)
        BY DEF AllIntegrations
      <3>2. o.domains = {} \/ e.domain \in o.domains =>
              (Matched(e.id, less.ids) <=> Matched(e.id, o.ids))
        BY DEF DwIdCandidates
      <3> QED BY <3>1, <3>2 DEF Kept, Inputs
    <2>2. Kept(h, less, d) \subseteq Entries(h) /\ Kept(h, o, d) \subseteq Entries(h)
      BY DEF Kept, Inputs
    <2> QED BY <2>1, <2>2
  <1>2. ASSUME NEW d
        PROVE  DeviceFound(h, less, d) = DeviceFound(h, o, d)
    BY <1>1, Zenon DEF DeviceFound, Stale
  <1>3. ASSUME NEW d
        PROVE  DisabledDiagnostics(h, less, d) = DisabledDiagnostics(h, o, d)
    <2>1. ASSUME NEW k \in DOMAIN h.registry, NEW i, NEW name,
                 Recommends(h.registry[k], d, i, name)
          PROVE  i \in Targets(h, less) <=> i \in Targets(h, o)
      BY <1>0, <2>1 DEF Recommends, AllIntegrations
    <2> QED BY <2>1 DEF DisabledDiagnostics
  <1>4. ASSUME NEW d \in DOMAIN h.names
        PROVE  DiagnosticsFound(h, less, d) = DiagnosticsFound(h, o, d)
    <2>1. ASSUME "disabled-diagnostics" \in o.checks, NEW id \in DisabledDiagnostics(h, o, d)
          PROVE  Matched(id, less.ids) <=> Matched(id, o.ids)
      <3>1. PICK k \in DOMAIN h.registry :
              /\ id = h.registry[k].id /\ h.registry[k].disabled
              /\ \E i \in DOMAIN Recommended : \E name \in Recommended[i] :
                   Recommends(h.registry[k], d, i, name)
        BY <2>1 DEF DisabledDiagnostics
      <3>2. id \in DwIdCandidates(h, o)
        BY <1>0, <2>1, <3>1 DEF DwIdCandidates, Recommends
      <3> QED BY <3>2
    <2> QED BY <1>3, <2>1 DEF DiagnosticsFound
  <1>5. {x \in DOMAIN h.names : ~DeviceExcluded(h, less, x)}
        = {x \in DOMAIN h.names : ~DeviceExcluded(h, o, x)}
    OBVIOUS
  <1>6. \A d \in DOMAIN h.names :
          <<DeviceFound(h, less, d), DiagnosticsFound(h, less, d)>>
          = <<DeviceFound(h, o, d), DiagnosticsFound(h, o, d)>>
    BY <1>2, <1>4
  <1> QED BY <1>5, <1>6 DEF DwFound

\* A directive of a Device Watchdog.
LEMMA DwUnmatchedIsUseless ==
  ASSUME NEW h \in Houses, NEW o \in DwOptions, NEW u \in DwUnmatched(h, o),
         ~LastInclude(o, u), ~Miscased(u, DwCandidates(h, o))
  PROVE  DwFound(h, Loses(o, u)) = DwFound(h, o)
  <1> DEFINE less == Loses(o, u)
  <1>0. /\ DOMAIN o = {"include", "exclude", "names", "ids", "domains", "threshold", "checks"}
        /\ Nothing \notin DOMAIN h.names
    BY ChecksAssumption
  <1>1. PICK field, x :
          /\ u = <<field, x>>
          /\ \/ field \in {"include", "exclude"} /\ x \in o[field] \ AllIntegrations(h)
             \/ /\ field = "names" /\ x \in o.names
                /\ x.any \cap {h.names[d] : d \in DOMAIN h.names} = {}
             \/ field = "ids" /\ x \in o.ids /\ x.any \cap DwIdCandidates(h, o) = {}
    <2>1. PICK field, x :
            /\ u = <<field, x>>
            /\ \/ field \in {"include", "exclude"} /\ x \in o[field] \ AllIntegrations(h)
               \/ /\ field \in {"names", "ids"} /\ x \in o[field]
                  /\ x.exact \cap DwCandidates(h, o)[field] = {}
      BY DEF DwUnmatched, UnmatchedItems, UnmatchedLines
    <2>2. field \in {"names", "ids"} => x.any \cap DwCandidates(h, o)[field] = {}
      <3>1. DOMAIN DwCandidates(h, o) = {"names", "ids"}
        BY DEF DwCandidates
      <3> QED BY <2>1, <3>1 DEF Miscased
    <2> QED BY <2>1, <2>2 DEF DwCandidates
  <1>2. less[field] = o[field] \ {x} /\ \A k \in DOMAIN o \ {field} : less[k] = o[k]
    BY <1>0, <1>1, LosesFacts
  <1>3. field = "include" => o.include # {x}
    BY <1>1 DEF LastInclude
  <1> HIDE DEF less
  <1>4. less.checks = o.checks /\ less.domains = o.domains /\ less.threshold = o.threshold
    BY <1>0, <1>1, <1>2
  <1>5. ASSUME NEW i \in AllIntegrations(h)
        PROVE  i \in Targets(h, less) <=> i \in Targets(h, o)
    <2>1. CASE field = "include"
      BY <1>0, <1>1, <1>2, <1>3, <2>1 DEF Targets
    <2>2. CASE field = "exclude"
      BY <1>0, <1>1, <1>2, <2>2 DEF Targets
    <2>3. CASE field \in {"names", "ids"}
      BY <1>0, <1>2, <2>3 DEF Targets
    <2> QED BY <1>1, <2>1, <2>2, <2>3
  <1>6. ASSUME NEW d \in DOMAIN h.names
        PROVE  DeviceExcluded(h, less, d) <=> DeviceExcluded(h, o, d)
    <2>1. DevicesOf(h, less.exclude) = DevicesOf(h, o.exclude)
      <3>1. CASE field = "exclude"
        BY <1>1, <1>2, <3>1 DEF DevicesOf, AllIntegrations
      <3>2. CASE field # "exclude"
        BY <1>0, <1>2, <3>2
      <3> QED BY <3>1, <3>2
    <2>2. Matched(h.names[d], less.names) <=> Matched(h.names[d], o.names)
      <3>1. CASE field = "names"
        BY <1>0, <1>1, <1>2, <3>1 DEF Matched
      <3>2. CASE field # "names"
        BY <1>0, <1>2, <3>2
      <3> QED BY <3>1, <3>2
    <2> QED BY <2>1, <2>2 DEF DeviceExcluded
  <1>7. ASSUME NEW id \in DwIdCandidates(h, o)
        PROVE  Matched(id, less.ids) <=> Matched(id, o.ids)
    <2>1. CASE field = "ids"
      BY <1>0, <1>1, <1>2, <2>1 DEF Matched
    <2>2. CASE field # "ids"
      BY <1>0, <1>2, <2>2
    <2> QED BY <2>1, <2>2
  <1>8. DwFound(h, less) = DwFound(h, o)
    BY <1>0, <1>4, <1>5, <1>6, <1>7, SameScan
  <1> QED BY <1>8 DEF less

\* A directive of a Battery Watchdog.
LEMMA BwUnmatchedIsUseless ==
  ASSUME NEW h \in Houses, NEW o \in BwOptions, ~BwConflict(o), NEW u \in BwUnmatched(h, o),
         ~LastInclude(o, u), ~Miscased(u, BwCandidates(h))
  PROVE  BwFound(h, Loses(o, u)) = BwFound(h, o)
  <1> DEFINE less == Loses(o, u)
             all == Batteries(h)
             Keys == {"include", "exclude", "excludeIds", "names", "ids", "entityNames"}
  <1>0. /\ DOMAIN o = Keys \cup {"includeIds", "level"}
        /\ Nothing \notin o.include \cup o.exclude
    BY ChecksAssumption
  <1> HIDE DEF all
  <1>1. PICK field, x :
          /\ u = <<field, x>> /\ field \in Keys \cup {"includeIds"} /\ x \in o[field]
          /\ field = "include" => x \notin {b.integration : b \in all} \ {Nothing}
          /\ field = "exclude" => /\ x \notin {b.integration : b \in all} \ {Nothing}
                                  /\ \A b \in all : x \notin b.integrations
          /\ field \in {"includeIds", "excludeIds"} => x \notin {b.id : b \in all}
          /\ field = "names" =>
               x.any \cap {h.names[b.device] : b \in {y \in all : y.device # Nothing}} = {}
          /\ field = "ids" => x.any \cap {b.id : b \in all} = {}
          /\ field = "entityNames" => x.any \cap {b.name : b \in all} = {}
    <2> DEFINE Regexes == {"names", "ids", "entityNames"}
    <2>1. PICK field, x :
            /\ u = <<field, x>> /\ field \in Keys \cup {"includeIds"} /\ x \in o[field]
            /\ field = "include" => x \notin {b.integration : b \in all} \ {Nothing}
            /\ field = "exclude" => /\ x \notin {b.integration : b \in all} \ {Nothing}
                                    /\ \A b \in all : x \notin b.integrations
            /\ field \in {"includeIds", "excludeIds"} => x \notin {b.id : b \in all}
            /\ field \in Regexes => x.exact \cap BwCandidates(h)[field] = {}
      BY DEF BwUnmatched, UnmatchedItems, UnmatchedLines, BwCandidates, all
    <2>2. field \in Regexes => x.any \cap BwCandidates(h)[field] = {}
      <3>1. DOMAIN BwCandidates(h) = Regexes
        BY DEF BwCandidates
      <3> QED BY <2>1, <3>1 DEF Miscased
    <2>3. /\ BwCandidates(h).names = {h.names[b.device] : b \in {y \in all : y.device # Nothing}}
          /\ BwCandidates(h).ids = {b.id : b \in all}
          /\ BwCandidates(h).entityNames = {b.name : b \in all}
      BY DEF BwCandidates, all
    <2> QED BY <2>1, <2>2, <2>3
  <1>2. less[field] = o[field] \ {x} /\ \A k \in DOMAIN o \ {field} : less[k] = o[k]
    BY <1>0, <1>1, LosesFacts
  <1>3. field \in {"include", "includeIds"} => o[field] # {x}
    BY <1>1 DEF LastInclude
  <1>4. field # "includeIds" => o.includeIds = {}
    BY <1>1 DEF BwConflict
  <1> HIDE DEF less
  <1>5. less.level = o.level
    BY <1>0, <1>1, <1>2
  <1>6. ASSUME NEW b \in all
        PROVE  IsExcluded(h, less, b) <=> IsExcluded(h, o, b)
    <2>1. CASE field = "includeIds"
      BY <1>0, <1>1, <1>2, <1>3, <2>1 DEF IsExcluded
    <2>2. CASE field = "include"
      BY <1>0, <1>1, <1>2, <1>3, <2>2 DEF IsExcluded
    <2>3. CASE field = "exclude"
      BY <1>0, <1>1, <1>2, <2>3 DEF IsExcluded
    <2>4. CASE field = "excludeIds"
      BY <1>0, <1>1, <1>2, <2>4 DEF IsExcluded
    <2>5. CASE field = "names"
      <3>1. b.device # Nothing =>
              (Matched(h.names[b.device], less.names) <=> Matched(h.names[b.device], o.names))
        BY <1>0, <1>1, <1>2, <2>5 DEF Matched
      <3> QED BY <1>0, <1>2, <2>5, <3>1 DEF IsExcluded
    <2>6. CASE field = "ids"
      <3>1. Matched(b.id, less.ids) <=> Matched(b.id, o.ids)
        BY <1>0, <1>1, <1>2, <2>6 DEF Matched
      <3> QED BY <1>0, <1>2, <2>6, <3>1 DEF IsExcluded
    <2>7. CASE field = "entityNames"
      <3>1. Matched(b.name, less.entityNames) <=> Matched(b.name, o.entityNames)
        BY <1>0, <1>1, <1>2, <2>7 DEF Matched
      <3> QED BY <1>0, <1>2, <2>7, <3>1 DEF IsExcluded
    <2> QED BY <1>1, <2>1, <2>2, <2>3, <2>4, <2>5, <2>6, <2>7
  <1>7. {b \in all : ~IsExcluded(h, less, b) /\ IsLow(b, less.level)}
        = {b \in all : ~IsExcluded(h, o, b) /\ IsLow(b, o.level)}
    BY <1>5, <1>6
  <1>8. BwFound(h, less) = BwFound(h, o)
    BY <1>7, Zenon DEF BwFound, all
  <1> QED BY <1>8 DEF less

\* Whoever removes a directive reported as unmatched changes nothing of what the
\* watchdog finds, or the directive finds a candidate in another case than it is
\* written in: for all houses, options and regex lines.
THEOREM UnmatchedDirectivesAreUseless == CheckSamples => UnmatchedIsUseless
  <1> SUFFICES ASSUME CheckSamples PROVE UnmatchedIsUseless
    OBVIOUS
  <1> DEFINE h == sample.input[1]
             o == sample.input[2]
  <1>1. /\ sample.of = "dw" => h \in Houses /\ o \in DwOptions
        /\ sample.of = "bw" => h \in Houses /\ o \in BwOptions /\ ~BwConflict(o)
    BY DEF CheckSamples
  <1> HIDE DEF h, o
  <1>2. /\ sample.of = "dw" =>
             \A u \in DwUnmatched(h, o) :
               LastInclude(o, u) \/ Miscased(u, DwCandidates(h, o))
                 \/ DwFound(h, Loses(o, u)) = DwFound(h, o)
        /\ sample.of = "bw" =>
             \A u \in BwUnmatched(h, o) :
               LastInclude(o, u) \/ Miscased(u, BwCandidates(h))
                 \/ BwFound(h, Loses(o, u)) = BwFound(h, o)
    BY <1>1, DwUnmatchedIsUseless, BwUnmatchedIsUseless
  <1> QED BY <1>2, Zenon DEF UnmatchedIsUseless, h, o
-----------------------------------------------------------------------------
(* A scale and a quantity on a parameter.                                  *)

\* A concept that is resolved on a device is resolved by one of its parameters,
\* whatever the value.
LEMMA ResolvedBy ==
  ASSUME NEW d, NEW c, NEW x, Resolve(d, c, x).status = "resolved"
  PROVE  /\ c \in DOMAIN Locators
         /\ \E p \in MatchingParams(d, Locators[c]) : \E quirk :
              /\ p \in d.params
              /\ Raw(p, c, x, quirk) # None
              /\ \A v : Raw(p, c, v, quirk) # None =>
                   Resolve(d, c, v) = [status |-> "resolved", id |-> p.id,
                                       value |-> Raw(p, c, v, quirk)]
  <1>1. c \in DOMAIN Locators
    BY DEF Resolve, Failed
  <1> DEFINE found == MatchingParams(d, Locators[c])
             key   == <<c, d.maker, d.model>>
             quirk == IF key \in DOMAIN Quirks THEN Quirks[key] ELSE None
             p     == CHOOSE p \in found : TRUE
             raw(v) == Raw(p, c, v, quirk)
  <1>2. \A v : Resolve(d, c, v) =
          IF found = {} THEN Failed("not_applicable")
          ELSE IF Cardinality(found) > 1 THEN Failed("ambiguous")
          ELSE IF raw(v) = None THEN Failed("unmappable")
          ELSE [status |-> "resolved", id |-> p.id, value |-> raw(v)]
    BY <1>1 DEF Resolve
  <1>3. found # {} => p \in found
    OBVIOUS
  <1>4. \A q \in found : q \in d.params
    BY DEF MatchingParams
  <1> HIDE DEF p, found, raw
  <1>5. \A s : Failed(s).status = s
    BY DEF Failed
  <1>6. found # {} /\ ~(Cardinality(found) > 1) /\ raw(x) # None
    BY <1>2, <1>5
  <1>7. p \in found /\ p \in d.params
    BY <1>3, <1>4, <1>6
  <1>8. \A v : raw(v) # None =>
          Resolve(d, c, v) = [status |-> "resolved", id |-> p.id, value |-> raw(v)]
    BY <1>2, <1>6
  <1> QED BY <1>1, <1>6, <1>7, <1>8 DEF found, raw

\* A device of a node.
LEMMA DeviceSample ==
  ASSUME PolicySamples, sample.of = "device"
  PROVE  \E n \in Nodes : sample.input = Device(n)
  BY DEF PolicySamples

\* A scale concept lands on the usable values of its parameter, its ends on their
\* ends, and more is never less: for all nodes, scales, ranges and labels.
THEOREM ScalesKeepOrder == PolicySamples => ScaleKeepsOrder
  <1> SUFFICES ASSUME PolicySamples, sample.of = "device" PROVE ScaleKeepsOrder
    BY DEF ScaleKeepsOrder
  <1> DEFINE d       == sample.input
             R(c, v) == Resolve(d, c, 10 * v)
             low(c)  == Catalog[c].scale[1]
             par(c)  == ParamOf(d, R(c, low(c)).id)
             usable(c) == par(c).range[1]..par(c).range[2] \ LabelledValues(par(c), OffLabels)
             lowest(c) == R(c, low(c)).value
             most(c)   == R(c, Catalog[c].scale[2]).value
             Keeps(c) == /\ {lowest(c), most(c)} = {SetMin(usable(c)), SetMax(usable(c))}
                         /\ \A v \in Scale(c) : R(c, v).value \in usable(c)
                         /\ \A v, w \in Scale(c) : v <= w =>
                              IF lowest(c) < most(c) THEN R(c, v).value <= R(c, w).value
                                                     ELSE R(c, v).value >= R(c, w).value
  <1>1. PICK n \in Nodes : d = Device(n)
    BY DeviceSample
  <1> HIDE DEF d
  <1>2. ASSUME NEW c \in Ranges, NEW x \in Scale(c), R(c, x).status = "resolved"
        PROVE  Keeps(c)
    <2> DEFINE scale == Catalog[c].scale
    <2>1. /\ scale[1] \in Int /\ scale[2] \in Int /\ scale[1] < scale[2]
          /\ Scale(c) = scale[1]..scale[2] /\ None \notin Int
      BY CatalogAssumption DEF Scale
    <2> DEFINE Answers(p, quirk) ==
                 /\ p \in d.params
                 /\ Raw(p, c, 10 * x, quirk) # None
                 /\ \A v : Raw(p, c, v, quirk) # None =>
                      Resolve(d, c, v) = [status |-> "resolved", id |-> p.id,
                                          value |-> Raw(p, c, v, quirk)]
    <2>17. PICK p \in MatchingParams(d, Locators[c]) : \E quirk : Answers(p, quirk)
      BY <1>2, ResolvedBy
    <2>2. PICK quirk : Answers(p, quirk)
      BY <2>17
    <2> DEFINE raw(v) == RangeRaw(p, scale, v, quirk)
    <2>3. \A v \in Int : Raw(p, c, 10 * v, quirk) = raw(v)
      <3>1. \A v \in Int : (10 * v) \div 10 = v
        OBVIOUS
      <3>2. Catalog[c].type = "range"
        BY DEF Ranges
      <3> QED BY <3>1, <3>2 DEF Raw
    <2> HIDE DEF scale
    <2>4. x \in Int /\ raw(x) # None
      BY <2>1, <2>2, <2>3
    <2>5. p.range # None
      BY <2>4 DEF RangeRaw
    <2>6. p.range[1] \in Int /\ p.range[2] \in Int
      BY <1>1, <2>2, <2>5, CatalogAssumption
    <2> DEFINE good == p.range[1]..p.range[2] \ LabelledValues(p, OffLabels)
    <2>7. /\ {raw(scale[1]), raw(scale[2])} = {SetMin(good), SetMax(good)}
          /\ \A v \in scale[1]..scale[2] : raw(v) \in good
          /\ \A v, w \in scale[1]..scale[2] : v <= w =>
               IF raw(scale[1]) < raw(scale[2]) THEN raw(v) <= raw(w) ELSE raw(v) >= raw(w)
      BY <2>1, <2>4, <2>6, ScaleOnRange
    <2>8. good \subseteq Int
      BY <2>6
    <2> HIDE DEF raw, good
    <2>9. \A v \in scale[1]..scale[2] : R(c, v).value = raw(v) /\ R(c, v).id = p.id
      <3> SUFFICES ASSUME NEW v \in scale[1]..scale[2]
                   PROVE  R(c, v).value = raw(v) /\ R(c, v).id = p.id
        OBVIOUS
      <3>1. v \in Int
        BY <2>1
      <3>2. Raw(p, c, 10 * v, quirk) = raw(v)
        BY <2>3, <3>1
      <3>3. raw(v) # None
        BY <2>1, <2>7, <2>8
      <3>4. R(c, v) = [status |-> "resolved", id |-> p.id, value |-> raw(v)]
        BY <2>2, <3>2, <3>3
      <3> QED BY <3>4
    <2>10. scale[1] \in scale[1]..scale[2] /\ scale[2] \in scale[1]..scale[2]
      BY <2>1
    <2> HIDE DEF R
    <2>11. par(c) = p
      <3>1. R(c, low(c)).id = p.id
        BY <2>9, <2>10 DEF scale
      <3>2. \A q \in d.params : q.id = p.id => q = p
        BY <1>1, <2>2, CatalogAssumption
      <3> QED BY <2>2, <3>1, <3>2 DEF ParamOf
    <2>12. usable(c) = good /\ lowest(c) = raw(scale[1]) /\ most(c) = raw(scale[2])
      BY <2>9, <2>10, <2>11 DEF good, scale
    <2> HIDE DEF usable, lowest, most, par
    <2>13. \A v \in Scale(c) : R(c, v).value = raw(v) /\ raw(v) \in good
      BY <2>1, <2>7, <2>9
    <2>14. {lowest(c), most(c)} = {SetMin(usable(c)), SetMax(usable(c))}
      BY <2>7, <2>12
    <2>15. \A v \in Scale(c) : R(c, v).value \in usable(c)
      BY <2>12, <2>13
    <2>16. ASSUME NEW v \in Scale(c), NEW w \in Scale(c), v <= w
           PROVE  IF lowest(c) < most(c) THEN R(c, v).value <= R(c, w).value
                                         ELSE R(c, v).value >= R(c, w).value
      BY <2>1, <2>7, <2>12, <2>13, <2>16
    <2> QED BY <2>14, <2>15, <2>16
  <1>3. \A c \in Ranges : (\E v \in Scale(c) : R(c, v).status = "resolved") => Keeps(c)
    <2> HIDE DEF R, Keeps
    <2> QED BY <1>2 DEF R
  <1> QED BY <1>3, Zenon DEF ScaleKeepsOrder, d

\* A quantity becomes the nearest value its parameter can take, in the unit of the
\* parameter: for all nodes, units and ranges.
THEOREM QuantitiesAreNearest == PolicySamples => QuantityIsNearest
  <1> SUFFICES ASSUME PolicySamples, sample.of = "device" PROVE QuantityIsNearest
    BY DEF QuantityIsNearest
  <1> DEFINE device       == sample.input
             Unit(u) == IF u \in DOMAIN TimeUnits THEN TimeUnits[u] ELSE 1
             Abs(y)  == IF y < 0 THEN -y ELSE y
             res(c, tenths) == Resolve(device, c, tenths)
             par(c, tenths) == ParamOf(device, res(c, tenths).id)
             Off(c, tenths, raw) ==
               LET p == par(c, tenths)
               IN IF Catalog[c].unit \in DOMAIN TimeUnits
                  THEN Abs(10 * raw * Unit(p.unit) - tenths * Unit(Catalog[c].unit))
                  ELSE Abs(10 * raw - tenths * PercentUnits[p.unit])
             Near(c, tenths) ==
               /\ res(c, tenths).value \in par(c, tenths).range[1]..par(c, tenths).range[2]
               /\ \A raw \in par(c, tenths).range[1]..par(c, tenths).range[2] :
                    Off(c, tenths, res(c, tenths).value) <= Off(c, tenths, raw)
  <1>1. PICK n \in Nodes : device = Device(n)
    BY DeviceSample
  <1> HIDE DEF device
  <1>2. ASSUME NEW c \in Values, NEW tenths \in Nat,
               res(c, tenths).status = "resolved", par(c, tenths).range # None
        PROVE  Near(c, tenths)
    <2> DEFINE unit == Catalog[c].unit
    <2> DEFINE Answers(p, quirk) ==
                 /\ p \in device.params
                 /\ Raw(p, c, tenths, quirk) # None
                 /\ Resolve(device, c, tenths) = [status |-> "resolved", id |-> p.id,
                                                  value |-> Raw(p, c, tenths, quirk)]
    <2>10. PICK p \in MatchingParams(device, Locators[c]) : \E quirk : Answers(p, quirk)
      BY <1>2, ResolvedBy
    <2>1. PICK quirk : Answers(p, quirk)
      BY <2>10
    <2>2. par(c, tenths) = p
      <3>1. \A q \in device.params : q.id = p.id => q = p
        BY <1>1, <2>1, CatalogAssumption
      <3> QED BY <2>1, <3>1 DEF ParamOf
    <2>3. p.range # None
      BY <1>2, <2>2
    <2>4. p.range[1] \in Int /\ p.range[2] \in Int /\ p.range[1] <= p.range[2]
      BY <1>1, <2>1, <2>3, CatalogAssumption
    <2>5. Raw(p, c, tenths, quirk) = ValueRaw(p, unit, tenths)
      BY DEF Raw, Values
    <2>6. /\ Converted(tenths, unit, p.unit) # None
          /\ res(c, tenths).value
             = SetMax({p.range[1], SetMin({Converted(tenths, unit, p.unit), p.range[2]})})
      BY <2>1, <2>3, <2>5 DEF ValueRaw
    <2> HIDE DEF unit, res, par
    <2>7. ASSUME NEW a \in Int, NEW e \in Nat \ {0}, Converted(tenths, unit, p.unit) = Rounded(a, e),
                 \A raw \in Int : Off(c, tenths, raw) = Distance(e * raw, a)
          PROVE  Near(c, tenths)
      <3> DEFINE v == Clamped(Rounded(a, e), p.range[1], p.range[2])
      <3>1. /\ v \in p.range[1]..p.range[2]
            /\ \A k \in p.range[1]..p.range[2] : Distance(e * v, a) <= Distance(e * k, a)
        <4> DEFINE lo == p.range[1]
                   hi == p.range[2]
                   w  == Clamped(Rounded(a, e), lo, hi)
        <4>1. lo \in Int /\ hi \in Int /\ lo <= hi
          BY <2>4
        <4> HIDE DEF lo, hi
        <4>2. w \in lo..hi /\ \A k \in lo..hi : Distance(e * w, a) <= Distance(e * k, a)
          BY <4>1, ClampedNearest
        <4> QED BY <4>2 DEF lo, hi
      <3>2. res(c, tenths).value = v
        BY <2>6, <2>7 DEF Clamped
      <3>3. \A k \in p.range[1]..p.range[2] : k \in Int
        BY <2>4
      <3> HIDE DEF v, Off
      <3> QED BY <2>2, <2>7, <3>1, <3>2, <3>3
    <2>8. CASE unit \in DOMAIN TimeUnits
      <3>1. {unit, p.unit} \cap DOMAIN PercentUnits = {}
        BY <1>1, <2>1, <2>8, CatalogAssumption DEF unit
      <3>2. p.unit \in DOMAIN TimeUnits
        BY <2>6, <3>1 DEF Converted
      <3> DEFINE t == TimeUnits[p.unit]
                 a == tenths * TimeUnits[unit]
      <3>3. t \in Nat \ {0} /\ TimeUnits[unit] \in Nat
        BY <2>8, <3>2, CatalogAssumption
      <3>4. Converted(tenths, unit, p.unit) = Rounded(a, 10 * t)
        BY <2>8, <3>1, <3>2 DEF Converted
      <3>5. a \in Int
        BY <3>3
      <3>6. \A raw : Off(c, tenths, raw) = Abs(10 * raw * t - a)
        BY <2>2, <2>8, <3>2 DEF unit
      <3> HIDE DEF t, a, Off
      <3>7. ASSUME NEW raw \in Int
            PROVE  Off(c, tenths, raw) = Distance((10 * t) * raw, a)
        <4>1. 10 * raw * t = (10 * t) * raw /\ 10 * raw * t \in Int
          BY <3>3
        <4> QED BY <3>5, <3>6, <4>1 DEF Distance
      <3>8. 10 * t \in Nat \ {0}
        BY <3>3
      <3> QED BY <2>7, <3>4, <3>5, <3>7, <3>8
    <2>9. CASE unit \notin DOMAIN TimeUnits
      <3>1. p.unit \in DOMAIN PercentUnits
        BY <2>6, <2>9 DEF Converted
      <3> DEFINE a == tenths * PercentUnits[p.unit]
      <3>2. Converted(tenths, unit, p.unit) = Rounded(a, 10)
        BY <3>1 DEF Converted
      <3>3. a \in Int
        BY <3>1, CatalogAssumption
      <3>4. \A raw : Off(c, tenths, raw) = Abs(10 * raw - a)
        BY <2>2, <2>9 DEF unit
      <3> HIDE DEF a, Off
      <3>5. ASSUME NEW raw \in Int
            PROVE  Off(c, tenths, raw) = Distance(10 * raw, a)
        BY <3>3, <3>4 DEF Distance
      <3> QED BY <2>7, <3>2, <3>3, <3>5
    <2> QED BY <2>8, <2>9
  <1>3. \A c \in Values, tenths \in Nat :
          res(c, tenths).status = "resolved" => (par(c, tenths).range # None => Near(c, tenths))
    <2> HIDE DEF res, par, Near
    <2> QED BY <1>2
  <1>4. \A c \in Values, tenths \in {0, 5, 10, 15, 200, 6000} :
          res(c, tenths).status = "resolved" => (par(c, tenths).range # None => Near(c, tenths))
    <2> HIDE DEF res, par, Near
    <2> QED BY <1>3
  <1> QED BY <1>4, Zenon DEF QuantityIsNearest, device
================================================================================
