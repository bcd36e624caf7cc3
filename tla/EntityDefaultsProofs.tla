-------------------------- MODULE EntityDefaultsProofs --------------------------
(***************************************************************************)
(* Theorems about EntityDefaults, for every device, every set of entities  *)
(* without one, whatever people do to the registry: ids stay apart, no     *)
(* repair of a scan is refused but for a script key that two blocks have,  *)
(* and submitting repairs comes to an end.                                 *)
(***************************************************************************)
EXTENDS EntityDefaults, FiniteSetTheorems, WellFoundedInduction, TLAPS

-----------------------------------------------------------------------------
(* A number that is free.                                                  *)

LEMMA LeastNat ==
  ASSUME NEW T \in SUBSET Nat, T # {}
  PROVE  \E x \in T : \A y \in T : x <= y
  <1>1. PICK x \in T : \A y \in T : <<y, x>> \notin OpToRel(<, Nat)
    BY NatLessThanWellFounded, WFMin
  <1>2. \A y \in T : ~(y < x)
    BY <1>1 DEF OpToRel
  <1> QED BY <1>2

LEMMA FiniteImage ==
  ASSUME NEW S, IsFiniteSet(S), NEW f
  PROVE  /\ IsFiniteSet({f[x] : x \in S})
         /\ Cardinality({f[x] : x \in S}) <= Cardinality(S)
  <1> DEFINE T == {f[x] : x \in S}
             g == [x \in S |-> f[x]]
  <1>1. g \in Surjection(S, T)
    BY DEF Surjection
  <1> HIDE DEF g, T
  <1>2. IsFiniteSet(T) /\ Cardinality(T) <= Cardinality(S)
    BY <1>1, FS_Surjection
  <1> QED BY <1>2 DEF T

LEMMA OneIsOutside ==
  ASSUME NEW U, IsFiniteSet(U), NEW K \in Nat, Cardinality(U) < K, NEW f,
         \A m, n \in 1..K : f[m] = f[n] => m = n
  PROVE  \E n \in 1..K : f[n] \notin U
  <1> SUFFICES ASSUME \A n \in 1..K : f[n] \in U
               PROVE  FALSE
    OBVIOUS
  <1> DEFINE g == [n \in 1..K |-> f[n]]
  <1>1. g \in Injection(1..K, U)
    BY DEF Injection, IsInjective
  <1> HIDE DEF g
  <1>2. Cardinality(1..K) <= Cardinality(U)
    BY <1>1, FS_Injection
  <1>3. Cardinality(1..K) = K
    BY FS_Interval
  <1>4. Cardinality(U) \in Nat
    BY FS_CardinalityType
  <1> QED BY <1>2, <1>3, <1>4

\* A suffix is found; it is one that nobody else has, and the first of them.
LEMMA AvailableIsFree ==
  ASSUME NEW R, IsFiniteSet(DOMAIN R), IsFiniteSet(orphans),
         NEW reserved, IsFiniteSet(reserved), NEW e
  PROVE  LET id == Available(R, e, reserved) IN
         /\ id \in {Domain(e)} \X {Name(R[e])} \X (Nat \ {0})
         /\ ~IdTaken(R, e, id) /\ id \notin reserved
         /\ \A n \in Nat \ {0} :
              /\ ~IdTaken(R, e, <<Domain(e), Name(R[e]), n>>)
              /\ <<Domain(e), Name(R[e]), n>> \notin reserved
              => id[3] <= n
  <1> DEFINE id(n)   == <<Domain(e), Name(R[e]), n>>
             Free(n) == ~IdTaken(R, e, id(n)) /\ id(n) \notin reserved
             idOf    == [d \in DOMAIN R |-> R[d].id]
             held    == {idOf[d] : d \in DOMAIN R}
             used    == (held \cup orphans) \cup reserved
             K       == Cardinality(DOMAIN R) + Cardinality(orphans) + Cardinality(reserved) + 1
             ids     == [n \in 1..K |-> id(n)]
  <1>1. IsFiniteSet(held) /\ Cardinality(held) <= Cardinality(DOMAIN R)
    BY FiniteImage
  <1>2. /\ Cardinality(DOMAIN R) \in Nat /\ Cardinality(orphans) \in Nat
        /\ Cardinality(reserved) \in Nat /\ Cardinality(held) \in Nat
    BY <1>1, FS_CardinalityType
  <1>3. IsFiniteSet(used) /\ Cardinality(used) < K
    <2>1. /\ IsFiniteSet(held \cup orphans)
          /\ Cardinality(held \cup orphans) = Cardinality(held) + Cardinality(orphans)
                                                - Cardinality(held \cap orphans)
          /\ Cardinality(held \cap orphans) \in Nat
      <3> HIDE DEF held
      <3>1. IsFiniteSet(held \cap orphans)
        BY <1>1, FS_Intersection
      <3> QED BY <3>1, <1>1, FS_Union, FS_CardinalityType
    <2>2. /\ IsFiniteSet(used)
          /\ Cardinality(used) = Cardinality(held \cup orphans) + Cardinality(reserved)
                                   - Cardinality((held \cup orphans) \cap reserved)
          /\ Cardinality((held \cup orphans) \cap reserved) \in Nat
      <3> DEFINE first == held \cup orphans
      <3>0. IsFiniteSet(first)
        BY <2>1
      <3> HIDE DEF first
      <3>1. IsFiniteSet(first \cap reserved)
        BY <3>0, FS_Intersection
      <3>2. /\ IsFiniteSet(first \cup reserved)
            /\ Cardinality(first \cup reserved) = Cardinality(first) + Cardinality(reserved)
                                                    - Cardinality(first \cap reserved)
            /\ Cardinality(first \cap reserved) \in Nat
        BY <3>0, <3>1, FS_Union, FS_CardinalityType
      <3> QED BY <3>2 DEF first
    <2> HIDE DEF held, used
    <2> QED BY <1>1, <1>2, <2>1, <2>2
  <1>4. \E n \in 1..K : Free(n)
    <2>1. \A m, n \in 1..K : ids[m] = ids[n] => m = n
      OBVIOUS
    <2>2. K \in Nat
      BY <1>2
    <2>3. \E n \in 1..K : ids[n] \notin used
      <3> HIDE DEF ids, used, K
      <3> QED BY <1>3, <2>1, <2>2, OneIsOutside
    <2>4. PICK n \in 1..K : ids[n] \notin used
      BY <2>3
    <2>5. id(n) \notin used
      BY <2>4
    <2> QED BY <2>5 DEF IdTaken
  <1>5. \E n \in 1..K : Free(n) /\ \A m \in 1..(n - 1) : ~Free(m)
    <2> DEFINE T == {n \in 1..K : Free(n)}
    <2>0. K \in Nat
      BY <1>2
    <2> HIDE DEF K, Free
    <2>1. PICK n \in T : \A m \in T : n <= m
      <3>1. T \in SUBSET Nat /\ T # {}
        BY <1>4, <2>0
      <3> HIDE DEF T
      <3> QED BY <3>1, LeastNat
    <2>2. \A m \in 1..(n - 1) : ~Free(m)
      BY <2>0, <2>1
    <2> QED BY <2>1, <2>2
  <1> DEFINE number == CHOOSE n \in 1..K : Free(n) /\ \A m \in 1..(n - 1) : ~Free(m)
  <1>6. number \in 1..K /\ Free(number) /\ \A m \in 1..(number - 1) : ~Free(m)
    <2> HIDE DEF K, Free
    <2> QED BY <1>5
  <1>7. Available(R, e, reserved) = id(number)
    BY DEF Available, Numbers
  <1>8. number \in Nat \ {0}
    <2>0. K \in Nat
      BY <1>2
    <2> HIDE DEF number, K
    <2> QED BY <1>6, <2>0
  <1> HIDE DEF number
  <1>9. \A n \in Nat \ {0} : Free(n) => number <= n
    <2> HIDE DEF Free
    <2> QED BY <1>6, <1>8
  <1>10. id(number)[3] = number
    OBVIOUS
  <1> QED BY <1>6, <1>7, <1>8, <1>9, <1>10
-----------------------------------------------------------------------------
(* What a scan hands out.                                                  *)

\* A registry that a scan may meet.
RegistryOK(R) ==
  /\ IsFiniteSet(DOMAIN R) /\ R \in [DOMAIN R -> Entry]
  /\ \A e \in DOMAIN R : R[e].id[1] = Domain(e)

LEMMA OrderType ==
  /\ Order \in Seq(Entities) /\ Len(Order) \in Nat
  /\ Len(Device) \in Nat /\ Len(Device) <= Len(Order)
  <1>1. Device \in Seq(Entities) /\ Others \in Seq(Entities)
    BY DefaultsAssumption
  <1> QED BY <1>1 DEF Order

\* What holds of the ids of the first n places.
GivenOut(R, n, ids) ==
  /\ ids \in Seq(Ids \cup {None}) /\ Len(ids) = n
  /\ \A i \in 1..n : Order[i] \in DOMAIN R =>
       /\ Keeps(R, Order[i]) => ids[i] = R[Order[i]].id
       /\ ~Keeps(R, Order[i]) =>
            /\ ids[i] \in Ids /\ ids[i][1] = Domain(Order[i])
            /\ ids[i][2] = Name(R[Order[i]])
            /\ ~IdTaken(R, Order[i], ids[i])
            /\ R[Order[i]].id[2] = Name(R[Order[i]]) /\ ~IdTaken(R, Order[i], R[Order[i]].id)
                 => ids[i][3] <= R[Order[i]].id[3]
  /\ \A i, j \in Handing(R) \cap 1..n : ids[i] = ids[j] => i = j

LEMMA AssignStep ==
  ASSUME NEW R, RegistryOK(R), IsFiniteSet(orphans),
         NEW n \in Nat, n < Len(Order), NEW ids, GivenOut(R, n, ids)
  PROVE  GivenOut(R, n + 1, Assign(R, ids))
  <1> DEFINE k        == n + 1
             e        == Order[k]
             reserved == {ids[i] : i \in Handing(R) \cap 1..n}
             v        == IF e \notin DOMAIN R THEN None
                         ELSE IF Keeps(R, e) THEN R[e].id
                         ELSE Available(R, e, reserved)
             new      == Append(ids, v)
  <1>0. ids \in Seq(Ids \cup {None}) /\ Len(ids) = n
    BY DEF GivenOut
  <1>1. Assign(R, ids) = new
    BY <1>0 DEF Assign
  <1>2. IsFiniteSet(reserved)
    <2>0. IsFiniteSet(1..n)
      BY FS_Interval
    <2>1. IsFiniteSet(Handing(R) \cap 1..n)
      BY <2>0, FS_Intersection
    <2> QED BY <2>1, FiniteImage
  <1>3. ASSUME e \in DOMAIN R
        PROVE  /\ Name(R[e]) \in Names /\ Domain(e) \in {"light", "script"} /\ R[e].id \in Ids
    <2>1. R[e] \in Entry
      BY <1>3 DEF RegistryOK
    <2> QED BY <2>1 DEF Name, Domain, Entry
  <1>4. ASSUME e \in DOMAIN R, ~Keeps(R, e)
        PROVE  /\ v \in Ids /\ v[1] = Domain(e) /\ v[2] = Name(R[e])
               /\ ~IdTaken(R, e, v) /\ v \notin reserved
               /\ R[e].id[2] = Name(R[e]) /\ ~IdTaken(R, e, R[e].id) => v[3] <= R[e].id[3]
    <2>1. IsFiniteSet(DOMAIN R)
      BY DEF RegistryOK
    <2>2. v = Available(R, e, reserved)
      BY <1>4
    <2>3. /\ v \in {Domain(e)} \X {Name(R[e])} \X (Nat \ {0})
          /\ ~IdTaken(R, e, v) /\ v \notin reserved
          /\ \A m \in Nat \ {0} :
               /\ ~IdTaken(R, e, <<Domain(e), Name(R[e]), m>>)
               /\ <<Domain(e), Name(R[e]), m>> \notin reserved
               => v[3] <= m
      <3> HIDE DEF reserved, v, e
      <3> QED BY <1>2, <2>1, <2>2, AvailableIsFree
    <2>4. ~IdTaken(R, e, R[e].id) => R[e].id \notin reserved
      <3> SUFFICES ASSUME NEW j \in Handing(R) \cap 1..n
                   PROVE  ids[j] # R[e].id
        OBVIOUS
      <3>1. Order[j] \in DOMAIN R /\ ~IdTaken(R, Order[j], ids[j])
        BY DEF GivenOut, Handing
      <3>2. Order[j] # e
        BY OrderType, DefaultsAssumption DEF Places
      <3> HIDE DEF reserved, v
      <3> QED BY <1>4, <3>1, <3>2 DEF IdTaken
    <2>5. /\ R[e].id = <<R[e].id[1], R[e].id[2], R[e].id[3]>>
          /\ R[e].id[3] \in Nat \ {0} /\ R[e].id[1] = Domain(e)
      BY <1>3, <1>4 DEF Ids, RegistryOK
    <2> HIDE DEF reserved, v, e
    <2>6. v \in Ids /\ v[1] = Domain(e) /\ v[2] = Name(R[e])
      BY <1>3, <1>4, <2>3 DEF Ids
    <2>7. ASSUME R[e].id[2] = Name(R[e]), ~IdTaken(R, e, R[e].id)
          PROVE  v[3] <= R[e].id[3]
      BY <2>3, <2>4, <2>5, <2>7
    <2> QED BY <2>3, <2>6, <2>7
  <1>5. v \in Ids \cup {None}
    <2> HIDE DEF reserved, e
    <2> QED BY <1>3, <1>4
  <1> HIDE DEF v
  <1>6. /\ new \in Seq(Ids \cup {None}) /\ Len(new) = k
        /\ \A i \in 1..n : new[i] = ids[i]
        /\ new[k] = v
    BY <1>0, <1>5
  <1> HIDE DEF new
  <1>7. ASSUME NEW i \in 1..k, Order[i] \in DOMAIN R
        PROVE  /\ Keeps(R, Order[i]) => new[i] = R[Order[i]].id
               /\ ~Keeps(R, Order[i]) =>
                    /\ new[i] \in Ids /\ new[i][1] = Domain(Order[i])
                    /\ new[i][2] = Name(R[Order[i]])
                    /\ ~IdTaken(R, Order[i], new[i])
                    /\ /\ R[Order[i]].id[2] = Name(R[Order[i]])
                       /\ ~IdTaken(R, Order[i], R[Order[i]].id)
                       => new[i][3] <= R[Order[i]].id[3]
    <2>1. CASE i = k
      <3>1. Keeps(R, e) => v = R[e].id
        BY <1>7, <2>1 DEF v
      <3> QED BY <1>4, <1>6, <1>7, <2>1, <3>1
    <2>2. CASE i # k
      <3>1. i \in 1..n
        BY <2>2
      <3> QED BY <1>6, <1>7, <3>1 DEF GivenOut
    <2> QED BY <2>1, <2>2
  <1>8. ASSUME NEW i \in Handing(R) \cap 1..k, NEW j \in Handing(R) \cap 1..k, new[i] = new[j]
        PROVE  i = j
    <2>1. \A h \in Handing(R) \cap 1..n : k \in Handing(R) => new[h] # new[k]
      <3> SUFFICES ASSUME NEW h \in Handing(R) \cap 1..n, k \in Handing(R)
                   PROVE  new[h] # new[k]
        OBVIOUS
      <3>1. e \in DOMAIN R /\ ~Keeps(R, e)
        BY DEF Handing
      <3>2. ids[h] \in reserved
        OBVIOUS
      <3> HIDE DEF reserved
      <3> QED BY <1>4, <1>6, <3>1, <3>2
    <2>2. \A h \in 1..k : h = k \/ h \in 1..n
      OBVIOUS
    <2>3. CASE i \in 1..n /\ j \in 1..n
      BY <1>6, <1>8, <2>3 DEF GivenOut
    <2> QED BY <1>8, <2>1, <2>2, <2>3
  <1> QED BY <1>1, <1>6, <1>7, <1>8 DEF GivenOut

LEMMA ExpectedIsGivenOut ==
  ASSUME NEW R, RegistryOK(R), IsFiniteSet(orphans)
  PROVE  GivenOut(R, Len(Order), Expected(R))
  <1> DEFINE L == Len(Order)
             Recurses(m, g) == g = [n \in 0..m |-> IF n = 0 THEN <<>> ELSE Assign(R, g[n - 1])]
             f == CHOOSE g : Recurses(L, g)
  <1>1. L \in Nat
    BY OrderType
  <1> HIDE DEF L
  <1>2. \E g : Recurses(L, g)
    <2> SUFFICES ASSUME ~ \E g : Recurses(L, g)
                 PROVE  FALSE
      OBVIOUS
    <2> DEFINE T == {m \in Nat : ~ \E g : Recurses(m, g)}
    <2>1. PICK m \in T : \A y \in T : m <= y
      <3>1. T \in SUBSET Nat /\ T # {}
        BY <1>1
      <3> HIDE DEF T
      <3> QED BY <3>1, LeastNat
    <2>2. Recurses(0, [n \in 0..0 |-> <<>>])
      OBVIOUS
    <2>3. m # 0
      BY <2>1, <2>2
    <2>4. m \in Nat /\ m - 1 \in Nat /\ m - 1 \notin T
      BY <2>1, <2>3
    <2>5. PICK g : Recurses(m - 1, g)
      BY <2>4
    <2> DEFINE h == [n \in 0..m |-> IF n = m THEN Assign(R, g[m - 1]) ELSE g[n]]
    <2>6. Recurses(m, h)
      <3>1. \A n \in 0..(m - 1) : g[n] = IF n = 0 THEN <<>> ELSE Assign(R, g[n - 1])
        BY <2>5
      <3>2. \A n \in 0..m : h[n] = IF n = 0 THEN <<>> ELSE Assign(R, h[n - 1])
        BY <2>3, <2>4, <3>1
      <3> QED BY <3>2
    <2>7. m \notin T
      BY <2>6
    <2> QED BY <2>1, <2>7
  <1>3. Recurses(L, f)
    BY <1>2
  <1>4. Expected(R) = f[L]
    BY DEF Expected, L
  <1> HIDE DEF f
  <1>5. f[0] = <<>> /\ \A n \in 1..L : f[n] = Assign(R, f[n - 1])
    BY <1>1, <1>3
  <1>6. \A n \in 0..L : GivenOut(R, n, f[n])
    <2> SUFFICES ASSUME ~ \A n \in 0..L : GivenOut(R, n, f[n])
                 PROVE  FALSE
      OBVIOUS
    <2> DEFINE T == {n \in 0..L : ~GivenOut(R, n, f[n])}
    <2>1. PICK n \in T : \A y \in T : n <= y
      <3>1. T \in SUBSET Nat /\ T # {}
        BY <1>1
      <3> HIDE DEF T
      <3> QED BY <3>1, LeastNat
    <2>2. GivenOut(R, 0, <<>>)
      BY DEF GivenOut
    <2>3. n # 0
      BY <1>5, <2>1, <2>2
    <2>4. n \in 1..L /\ n - 1 \in Nat /\ n - 1 < L /\ GivenOut(R, n - 1, f[n - 1])
      BY <1>1, <2>1, <2>3
    <2>5. GivenOut(R, (n - 1) + 1, Assign(R, f[n - 1]))
      BY <2>4, AssignStep DEF L
    <2>6. GivenOut(R, n, f[n])
      BY <1>5, <2>4, <2>5
    <2> QED BY <2>1, <2>6
  <1> QED BY <1>1, <1>4, <1>6 DEF L
-----------------------------------------------------------------------------
(* One rename after the other.                                             *)

\* The renames of a payload, by place.
RenamesOK(renames) ==
  /\ DOMAIN renames \subseteq Places
  /\ \A i \in DOMAIN renames :
       renames[i] \in Ids \X Ids /\ renames[i][1][1] = renames[i][2][1]

\* Ids of a registry apart, and each in the domain of its entity.
IdsApart(R) ==
  /\ \A e \in DOMAIN R : R[e].id[1] = Domain(e)
  /\ \A d, e \in DOMAIN R : R[d].id = R[e].id => d = e

\* How far the registry may be from R after the first n places.
Along(R, renames, n, acc) ==
  /\ acc \in [reg : [DOMAIN R -> Entry], ok : BOOLEAN]
  /\ IdsApart(acc.reg)
  /\ \A e \in DOMAIN R :
       /\ acc.reg[e] = [R[e] EXCEPT !.id = acc.reg[e].id]
       /\ acc.reg[e].id # R[e].id =>
            /\ acc.reg[e].id \notin orphans
            /\ \E i \in DOMAIN renames : i <= n /\ acc.reg[e].id = renames[i][2]

\* No rename goes to where another comes from.
Onward(renames) == \A i, j \in DOMAIN renames : renames[i][2] # renames[j][1]

\* Then an entity takes one rename at most, its own, and none keeps an old id.
Moved(R, renames, n, acc) ==
  /\ \A e \in DOMAIN R : acc.reg[e].id # R[e].id =>
       \E i \in DOMAIN renames : i <= n /\ renames[i] = <<R[e].id, acc.reg[e].id>>
  /\ acc.ok => \A i \in DOMAIN renames : i <= n => At(acc.reg, renames[i][1]) = {}

\* Nothing is in the way of these renames.
Unopposed(R, renames) ==
  /\ \A i, j \in DOMAIN renames : renames[i][2] = renames[j][2] => i = j
  /\ \A i \in DOMAIN renames :
       renames[i][2] \notin orphans /\ \A e \in DOMAIN R : R[e].id # renames[i][2]

LEMMA RenameStep ==
  ASSUME NEW R, R \in [DOMAIN R -> Entry],
         NEW renames, RenamesOK(renames), NEW n \in Nat, n + 1 \in DOMAIN renames,
         NEW acc, Along(R, renames, n, acc)
  PROVE  LET next == RenameOne(acc, renames[n + 1]) IN
         /\ Along(R, renames, n + 1, next)
         /\ Unopposed(R, renames) /\ acc.ok => next.ok
  <1> DEFINE k    == n + 1
             p    == renames[k]
             next == RenameOne(acc, p)
             at   == At(acc.reg, p[1])
             e    == CHOOSE d \in at : TRUE
             stop == [acc EXCEPT !.ok = FALSE]
             go   == [acc EXCEPT !.reg[e].id = p[2]]
  <1> SUFFICES /\ Along(R, renames, k, next)
               /\ Unopposed(R, renames) /\ acc.ok => next.ok
    OBVIOUS
  <1>0. p \in Ids \X Ids /\ p[1][1] = p[2][1]
    BY DEF RenamesOK
  <1>1. /\ acc = [reg |-> acc.reg, ok |-> acc.ok]
        /\ acc.reg \in [DOMAIN R -> Entry] /\ acc.ok \in BOOLEAN
        /\ DOMAIN acc.reg = DOMAIN R
    BY DEF Along
  <1>2. CASE ~acc.ok \/ at = {} \/ p[1] = p[2]
    <2>1. next = acc
      BY <1>2 DEF RenameOne
    <2>2. Along(R, renames, k, acc)
      <3>1. \A i \in DOMAIN renames : i <= n => i <= k
        BY DEF RenamesOK, Places
      <3> HIDE DEF k
      <3> QED BY <3>1 DEF Along
    <2> QED BY <2>1, <2>2
  <1>3. CASE acc.ok /\ at # {} /\ p[1] # p[2] /\ IdTaken(acc.reg, e, p[2])
    <2>1. next = stop
      BY <1>3 DEF RenameOne
    <2>2. stop.reg = acc.reg /\ stop \in [reg : [DOMAIN R -> Entry], ok : BOOLEAN]
      BY <1>1
    <2>3. Along(R, renames, k, stop)
      <3>1. \A i \in DOMAIN renames : i <= n => i <= k
        BY DEF RenamesOK, Places
      <3> HIDE DEF k, stop
      <3> QED BY <2>2, <3>1 DEF Along
    <2>4. ~Unopposed(R, renames)
      <3> SUFFICES ASSUME Unopposed(R, renames)
                   PROVE  FALSE
        OBVIOUS
      <3>1. p[2] \notin orphans
        BY DEF Unopposed
      <3>2. PICK d \in DOMAIN R \ {e} : acc.reg[d].id = p[2]
        BY <1>1, <1>3, <3>1 DEF IdTaken
      <3>3. acc.reg[d].id # R[d].id
        BY <3>2 DEF Unopposed
      <3>4. PICK i \in DOMAIN renames : i <= n /\ acc.reg[d].id = renames[i][2]
        BY <3>2, <3>3 DEF Along
      <3>5. i = k
        BY <3>2, <3>4 DEF Unopposed
      <3> QED BY <3>4, <3>5
    <2> QED BY <2>1, <2>3, <2>4
  <1>4. CASE acc.ok /\ at # {} /\ p[1] # p[2] /\ ~IdTaken(acc.reg, e, p[2])
    <2>1. next = go
      BY <1>4 DEF RenameOne
    <2>2. e \in at
      BY <1>4
    <2>3. e \in DOMAIN R /\ acc.reg[e].id = p[1] /\ acc.reg[e] \in Entry
      BY <1>1, <2>2 DEF At
    <2> HIDE DEF e, at, next, p
    <2> DEFINE entry == [acc.reg[e] EXCEPT !.id = p[2]]
    <2>4. /\ entry \in Entry /\ entry.id = p[2]
          /\ entry = [R[e] EXCEPT !.id = entry.id]
      <3>1. R[e] \in Entry /\ acc.reg[e] = [R[e] EXCEPT !.id = acc.reg[e].id]
        BY <2>3 DEF Along
      <3> QED BY <1>0, <2>3, <3>1 DEF Entry
    <2>5. /\ go = [reg |-> [acc.reg EXCEPT ![e] = entry], ok |-> acc.ok]
      BY <1>1, <2>3
    <2> HIDE DEF entry, go
    <2>6. /\ go.ok = acc.ok /\ DOMAIN go.reg = DOMAIN R
          /\ go.reg[e] = entry
          /\ \A d \in DOMAIN R : d # e => go.reg[d] = acc.reg[d]
          /\ go \in [reg : [DOMAIN R -> Entry], ok : BOOLEAN]
      BY <1>1, <2>3, <2>4, <2>5
    <2>7. \A d \in DOMAIN R : d # e => acc.reg[d].id # p[2]
      BY <1>1, <1>4 DEF IdTaken
    <2>8. IdsApart(go.reg)
      <3>1. IdsApart(acc.reg)
        BY DEF Along
      <3>2. go.reg[e].id[1] = Domain(e)
        BY <1>0, <1>1, <2>3, <2>4, <2>6, <3>1 DEF IdsApart
      <3> QED BY <1>1, <2>3, <2>4, <2>6, <2>7, <3>1, <3>2 DEF IdsApart
    <2>9. ASSUME NEW d \in DOMAIN R
          PROVE  /\ go.reg[d] = [R[d] EXCEPT !.id = go.reg[d].id]
                 /\ go.reg[d].id # R[d].id =>
                      /\ go.reg[d].id \notin orphans
                      /\ \E i \in DOMAIN renames : i <= k /\ go.reg[d].id = renames[i][2]
      <3>1. \A i \in DOMAIN renames : i <= n => i <= k
        BY DEF RenamesOK, Places
      <3>2. k <= k /\ k \in DOMAIN renames
        OBVIOUS
      <3> HIDE DEF k
      <3>3. CASE d = e
        <4>1. p[2] \notin orphans
          BY <1>4 DEF IdTaken
        <4> QED BY <2>3, <2>4, <2>6, <3>2, <3>3, <4>1 DEF p
      <3>4. CASE d # e
        BY <2>6, <3>1, <3>4 DEF Along
      <3> QED BY <3>3, <3>4
    <2> HIDE DEF k
    <2>10. Along(R, renames, k, go)
      BY <2>6, <2>8, <2>9 DEF Along
    <2>11. go.ok
      BY <1>4, <2>6
    <2> QED BY <2>1, <2>10, <2>11
  <1> HIDE DEF at, e, next
  <1>5. acc.ok \in BOOLEAN
    BY <1>1
  <1> QED BY <1>2, <1>3, <1>4, <1>5

\* What one rename may come to: nothing, the end of all, or the rename.
RenameResult(D, acc, p, next) ==
  \/ next = acc /\ (~acc.ok \/ At(acc.reg, p[1]) = {} \/ p[1] = p[2])
  \/ next.reg = acc.reg /\ ~next.ok
  \/ \E e \in D :
       /\ acc.reg[e].id = p[1] /\ acc.ok /\ next.ok
       /\ next.reg = [acc.reg EXCEPT ![e] = [acc.reg[e] EXCEPT !.id = p[2]]]

LEMMA RenameOneCases ==
  ASSUME NEW D, NEW acc, acc \in [reg : [D -> Entry], ok : BOOLEAN], NEW p
  PROVE  RenameResult(D, acc, p, RenameOne(acc, p))
  <1> DEFINE next == RenameOne(acc, p)
             at   == At(acc.reg, p[1])
             e    == CHOOSE d \in at : TRUE
             stop == [acc EXCEPT !.ok = FALSE]
             go   == [acc EXCEPT !.reg[e].id = p[2]]
  <1>1. /\ acc = [reg |-> acc.reg, ok |-> acc.ok]
        /\ acc.reg \in [D -> Entry] /\ acc.ok \in BOOLEAN
    OBVIOUS
  <1>2. CASE ~acc.ok \/ at = {} \/ p[1] = p[2]
    BY <1>2 DEF RenameOne, RenameResult
  <1>3. CASE acc.ok /\ at # {} /\ p[1] # p[2] /\ IdTaken(acc.reg, e, p[2])
    <2>1. next = stop
      BY <1>3 DEF RenameOne
    <2>2. stop.reg = acc.reg /\ ~stop.ok
      BY <1>1
    <2> QED BY <2>1, <2>2 DEF RenameResult
  <1>4. CASE acc.ok /\ at # {} /\ p[1] # p[2] /\ ~IdTaken(acc.reg, e, p[2])
    <2>1. next = go
      BY <1>4 DEF RenameOne
    <2>2. e \in at
      BY <1>4
    <2>3. e \in D /\ acc.reg[e].id = p[1]
      BY <1>1, <2>2 DEF At
    <2> HIDE DEF e, at
    <2>4. go.reg = [acc.reg EXCEPT ![e] = [acc.reg[e] EXCEPT !.id = p[2]]] /\ go.ok
      BY <1>1, <1>4, <2>3
    <2> QED BY <2>1, <2>3, <2>4 DEF RenameResult
  <1> HIDE DEF at, e
  <1> QED BY <1>1, <1>2, <1>3, <1>4 DEF RenameResult

LEMMA MoveStep ==
  ASSUME NEW R, R \in [DOMAIN R -> Entry],
         NEW renames, RenamesOK(renames), Onward(renames),
         NEW n \in Nat, n + 1 \in DOMAIN renames,
         NEW acc, Along(R, renames, n, acc), Moved(R, renames, n, acc)
  PROVE  Moved(R, renames, n + 1, RenameOne(acc, renames[n + 1]))
  <1> DEFINE k    == n + 1
             p    == renames[k]
             next == RenameOne(acc, p)
  <1> SUFFICES Moved(R, renames, k, next)
    OBVIOUS
  <1>0. p \in Ids \X Ids
    BY DEF RenamesOK
  <1>1. /\ acc \in [reg : [DOMAIN R -> Entry], ok : BOOLEAN]
        /\ acc.reg \in [DOMAIN R -> Entry] /\ DOMAIN acc.reg = DOMAIN R
        /\ IdsApart(acc.reg)
    BY DEF Along
  <1>2. \A i \in DOMAIN renames : (i <= n => i <= k) /\ (i <= k => i <= n \/ i = k)
    BY DEF RenamesOK, Places
  <1>3. k \in DOMAIN renames /\ k <= k
    OBVIOUS
  <1>4. p[1] # p[2] /\ \A i \in DOMAIN renames : p[2] # renames[i][1] /\ renames[i][2] # p[1]
    BY DEF Onward
  <1> HIDE DEF k
  <1>5. CASE next = acc /\ (~acc.ok \/ At(acc.reg, p[1]) = {} \/ p[1] = p[2])
    <2>1. next = acc /\ (acc.ok => At(acc.reg, p[1]) = {})
      BY <1>4, <1>5
    <2> HIDE DEF next
    <2>2. Moved(R, renames, k, acc)
      BY <1>2, <2>1 DEF Moved, p
    <2> QED BY <2>1, <2>2
  <1>6. CASE next.reg = acc.reg /\ ~next.ok
    <2> HIDE DEF next
    <2>1. Moved(R, renames, k, next)
      BY <1>2, <1>6 DEF Moved
    <2> QED BY <2>1
  <1>7. CASE \E e \in DOMAIN R :
               /\ acc.reg[e].id = p[1] /\ acc.ok /\ next.ok
               /\ next.reg = [acc.reg EXCEPT ![e] = [acc.reg[e] EXCEPT !.id = p[2]]]
    <2>1. PICK e \in DOMAIN R :
            /\ acc.reg[e].id = p[1] /\ acc.ok /\ next.ok
            /\ next.reg = [acc.reg EXCEPT ![e] = [acc.reg[e] EXCEPT !.id = p[2]]]
      BY <1>7
    <2>2. /\ DOMAIN next.reg = DOMAIN R /\ next.reg[e].id = p[2]
          /\ \A d \in DOMAIN R : d # e => next.reg[d] = acc.reg[d]
      BY <1>1, <2>1 DEF Entry
    <2>3. R[e].id = p[1]
      <3> SUFFICES ASSUME acc.reg[e].id # R[e].id
                   PROVE  FALSE
        BY <2>1
      <3>1. PICK i \in DOMAIN renames : renames[i] = <<R[e].id, acc.reg[e].id>>
        BY DEF Moved
      <3> QED BY <1>4, <2>1, <3>1
    <2>4. renames[k] = <<R[e].id, next.reg[e].id>>
      BY <1>0, <2>2, <2>3
    <2> HIDE DEF p, next
    <2>5. ASSUME NEW d \in DOMAIN R, next.reg[d].id # R[d].id
          PROVE  \E i \in DOMAIN renames : i <= k /\ renames[i] = <<R[d].id, next.reg[d].id>>
      BY <1>2, <1>3, <2>2, <2>4, <2>5 DEF Moved
    <2>6. ASSUME NEW i \in DOMAIN renames, i <= k, NEW d \in DOMAIN R,
                 next.reg[d].id = renames[i][1]
          PROVE  FALSE
      <3>1. d # e /\ acc.reg[d].id = renames[i][1]
        BY <1>4, <2>2, <2>6
      <3>2. CASE i = k
        BY <1>1, <2>1, <3>1, <3>2 DEF IdsApart, p
      <3>3. CASE i <= n
        <4>1. At(acc.reg, renames[i][1]) # {}
          BY <1>1, <3>1 DEF At
        <4>2. ~acc.ok
          BY <3>3, <4>1 DEF Moved
        <4> QED BY <2>1, <4>2
      <3> QED BY <1>2, <2>6, <3>2, <3>3
    <2>7. \A i \in DOMAIN renames : i <= k => At(next.reg, renames[i][1]) = {}
      BY <2>2, <2>6 DEF At
    <2> QED BY <2>5, <2>7 DEF Moved
  <1> DEFINE D == DOMAIN R
  <1>8. acc \in [reg : [D -> Entry], ok : BOOLEAN]
    BY <1>1
  <1> HIDE DEF D, p
  <1>9. RenameResult(D, acc, p, next)
    BY <1>8, RenameOneCases
  <1> HIDE DEF next
  <1> QED BY <1>5, <1>6, <1>7, <1>9 DEF D, RenameResult

LEMMA RenamedAlong ==
  ASSUME NEW R, R \in [DOMAIN R -> Entry], IdsApart(R), NEW renames, RenamesOK(renames)
  PROVE  LET done == Renamed(R, renames) IN
         /\ Along(R, renames, Len(Order), done) /\ (Unopposed(R, renames) => done.ok)
         /\ Onward(renames) => Moved(R, renames, Len(Order), done)
  <1> DEFINE L == Len(Order)
             start == [reg |-> R, ok |-> TRUE]
             Step(i, acc) == IF i \in DOMAIN renames THEN RenameOne(acc, renames[i]) ELSE acc
             Recurses(m, g) == g = [i \in 0..m |-> IF i = 0 THEN start ELSE Step(i, g[i - 1])]
             Good(n, acc) == /\ Along(R, renames, n, acc) /\ (Unopposed(R, renames) => acc.ok)
                             /\ Onward(renames) => Moved(R, renames, n, acc)
             f == CHOOSE g : Recurses(L, g)
  <1>1. L \in Nat
    BY OrderType
  <1>2. Renamed(R, renames) = f[L]
    BY DEF Renamed
  <1>3. Good(0, start)
    <2>1. \A e \in DOMAIN R : R[e] = [R[e] EXCEPT !.id = R[e].id]
      BY DEF Entry
    <2>2. Along(R, renames, 0, start) /\ start.ok
      BY <2>1 DEF Along
    <2>3. Moved(R, renames, 0, start)
      BY DEF Moved, RenamesOK, Places
    <2> QED BY <2>2, <2>3
  <1>4. ASSUME NEW n \in Nat, NEW acc, Good(n, acc)
        PROVE  Good(n + 1, Step(n + 1, acc))
    <2>1. CASE n + 1 \in DOMAIN renames
      BY <1>4, <2>1, RenameStep, MoveStep
    <2>2. CASE n + 1 \notin DOMAIN renames
      <3>1. \A i \in DOMAIN renames : i <= n => i <= n + 1
        BY DEF RenamesOK, Places
      <3>2. \A i \in DOMAIN renames : i <= n + 1 => i <= n
        BY <2>2 DEF RenamesOK, Places
      <3> QED BY <1>4, <2>2, <3>1, <3>2 DEF Along, Moved
    <2> QED BY <2>1, <2>2
  <1> HIDE DEF L, start, Step, Good
  <1>5. \E g : Recurses(L, g)
    <2> SUFFICES ASSUME ~ \E g : Recurses(L, g)
                 PROVE  FALSE
      OBVIOUS
    <2> DEFINE T == {m \in Nat : ~ \E g : Recurses(m, g)}
    <2>1. PICK m \in T : \A y \in T : m <= y
      <3>1. T \in SUBSET Nat /\ T # {}
        BY <1>1
      <3> HIDE DEF T
      <3> QED BY <3>1, LeastNat
    <2>2. Recurses(0, [i \in 0..0 |-> start])
      OBVIOUS
    <2>3. m # 0
      BY <2>1, <2>2
    <2>4. m \in Nat /\ m - 1 \in Nat /\ m - 1 \notin T
      BY <2>1, <2>3
    <2>5. PICK g : Recurses(m - 1, g)
      BY <2>4
    <2> DEFINE h == [i \in 0..m |-> IF i = m THEN Step(m, g[m - 1]) ELSE g[i]]
    <2>6. Recurses(m, h)
      <3>1. \A i \in 0..(m - 1) : g[i] = IF i = 0 THEN start ELSE Step(i, g[i - 1])
        BY <2>5
      <3>2. \A i \in 0..m : h[i] = IF i = 0 THEN start ELSE Step(i, h[i - 1])
        BY <2>3, <2>4, <3>1
      <3> QED BY <3>2
    <2>7. m \notin T
      BY <2>6
    <2> QED BY <2>1, <2>7
  <1>6. Recurses(L, f)
    BY <1>5
  <1> HIDE DEF f
  <1>7. f[0] = start /\ \A i \in 1..L : f[i] = Step(i, f[i - 1])
    BY <1>1, <1>6
  <1>8. Good(L, f[L])
    <2> SUFFICES ASSUME ~Good(L, f[L])
                 PROVE  FALSE
      OBVIOUS
    <2> DEFINE T == {n \in 0..L : ~Good(n, f[n])}
    <2>1. PICK n \in T : \A y \in T : n <= y
      <3>1. T \in SUBSET Nat /\ T # {}
        BY <1>1
      <3> HIDE DEF T
      <3> QED BY <3>1, LeastNat
    <2>2. n # 0
      BY <1>3, <1>7, <2>1
    <2>3. n \in 1..L /\ n - 1 \in Nat /\ Good(n - 1, f[n - 1])
      BY <1>1, <2>1, <2>2
    <2>4. Good((n - 1) + 1, Step((n - 1) + 1, f[n - 1]))
      BY <1>4, <2>3
    <2>5. (n - 1) + 1 = n
      BY <2>3
    <2>6. Good(n, f[n])
      BY <1>7, <2>3, <2>4, <2>5
    <2> QED BY <2>1, <2>6
  <1> QED BY <1>2, <1>8 DEF Good, L

-----------------------------------------------------------------------------
(* The invariant.                                                          *)

\* Every script has a key, and one of its own.
KeysApart ==
  \A s \in Scripts \cap Present :
    reg[s].key \in Slugs /\ \A t \in Scripts \cap Present : reg[s].key = reg[t].key => s = t

\* Where the renames of a payload end, by place.
Ends(x) == IF x.kind = "id" THEN {<<i, x.renames[i][2]>> : i \in DOMAIN x.renames} ELSE {}

\* While nobody touches the registry, what is left of a scan does not compete:
\* no two renames have one target, no target is taken, and none is the id a
\* script gets back with its key, whose block is there, once, unless its key has
\* two.
FreshOf(S) ==
  /\ \A x, y \in S : \A p \in Ends(x), q \in Ends(y) : p[2] = q[2] => x = y /\ p = q
  /\ \A x \in S : \A p \in Ends(x) : p[2] \notin orphans /\ At(reg, p[2]) = {}
  /\ \A x, y \in S : y.kind = "key" => \A p \in Ends(x) : p[2] # y.id
  /\ \A x \in S : x.kind = "key" =>
       /\ (\E s \in Scripts : Keyed(x.old) = {s}) \/ x.old \in doubled
       /\ \A y \in S : y.kind = "key" /\ y.old = x.old => y = x

Inv == TypeOK /\ KeysApart /\ (since # "hands" => FreshOf(repairs)) /\ FixesDoNotClash

\* An id made of the current name, and nearer to it than the one the record has.
Closer(e, id, r) ==
  id[1] = Domain(e) /\ id[2] = Name(r) /\ (r.id[2] = Name(r) => id[3] < r.id[3])

\* How a fix of a scan may change what the scan saw of an entity.
Improved(e, r, s) ==
  /\ r.has = s.has /\ r.original = s.original
  /\ (r.stale => s.stale) /\ (r.aliased => s.aliased)
  /\ r.override # s.override => r.override = Recommended(e, s)
  /\ r.id # s.id => Closer(e, r.id, s)
  /\ r.key # s.key => e \in Scripts /\ r.key = Slug(s.id)

\* What a scan that saw S has in mind with a payload: none is without effect.
Planned(S, x) ==
  /\ x.kind = "id" =>
       /\ DOMAIN x.renames # {}
       /\ \A i \in DOMAIN x.renames :
            /\ Order[i] \in DOMAIN S /\ x.renames[i][1] = S[Order[i]].id
            /\ Closer(Order[i], x.renames[i][2], S[Order[i]])
            /\ At(S, x.renames[i][2]) = {}
  /\ x.kind = "name" =>
       /\ x.targets # {}
       /\ \A p \in x.targets : \E e \in DOMAIN S :
            /\ p[1] = S[e].id /\ p[2] = Recommended(e, S[e])
            /\ S[e].override # Recommended(e, S[e])
  /\ x.kind = "cached" =>
       x.ids # {} /\ \A id \in x.ids : \E e \in DOMAIN S : id = S[e].id /\ S[e].stale
  /\ x.kind = "aliased" => \E e \in DOMAIN S : x.id = S[e].id /\ S[e].aliased
  /\ x.kind = "key" =>
       \E s \in Scripts \cap DOMAIN S :
         x.id = S[s].id /\ x.old = S[s].key /\ x.new = Slug(S[s].id) /\ x.old # x.new

\* Every registry entry has an id of its own, those of former scripts too.
OrphansApart == \A e \in Present : reg[e].id \notin orphans

\* Where the fixes have come since the scan: it saw a registry,
SawRegistry == seen \in [Present -> Entry] /\ IdsApart(seen)

\* each entity is as it was or improved, under an id that was nobody's,
AllImproved ==
  \A e \in Present :
    /\ Improved(e, reg[e], seen[e])
    /\ reg[e].id # seen[e].id => At(seen, reg[e].id) = {}

\* what is left is what the scan had in mind, no script has its new key already,
AllPlanned ==
  \A x \in repairs :
    /\ Planned(seen, x)
    /\ x.kind = "key" => \A s \in Scripts \cap Present : x.id = seen[s].id => reg[s].key = x.old

\* and whatever was submitted shows.
FixesShow == (since = "nothing" => reg = seen) /\ (since = "fixes" => reg # seen)

SinceScan == SawRegistry /\ AllImproved /\ AllPlanned /\ FixesShow

\* A script was lost since: the scan saw more.
ScriptLost == since = "fixes" /\ Present \subseteq DOMAIN seen /\ Present # DOMAIN seen

Whole == since # "hands" /\ ~ScriptLost

Progress == OrphansApart /\ (Whole => SinceScan)

LEMMA EntitiesAreFinite == IsFiniteSet(Entities)
  <1>1. \A seq : seq \in Seq(Entities) => IsFiniteSet(ToSet(seq))
    <2> SUFFICES ASSUME NEW seq \in Seq(Entities)
                 PROVE  IsFiniteSet(ToSet(seq))
      OBVIOUS
    <2>1. DOMAIN seq = 1..Len(seq) /\ Len(seq) \in Nat
      OBVIOUS
    <2>2. IsFiniteSet(DOMAIN seq)
      BY <2>1, FS_Interval
    <2>3. IsFiniteSet({seq[i] : i \in DOMAIN seq})
      BY <2>2, FiniteImage
    <2> QED BY <2>3 DEF ToSet
  <1>2. IsFiniteSet(ToSet(Device)) /\ IsFiniteSet(ToSet(Others))
    BY <1>1, DefaultsAssumption
  <1> QED BY <1>2, FS_Union DEF Entities

LEMMA TypeGivesRegistry ==
  ASSUME TypeOK
  PROVE  RegistryOK(reg) /\ IsFiniteSet(orphans) /\ IdsApart(reg)
  <1>1. IsFiniteSet(Present)
    BY EntitiesAreFinite, FS_Subset DEF TypeOK
  <1> QED BY <1>1 DEF TypeOK, RegistryOK, IdsApart, Present

-----------------------------------------------------------------------------
(* A scan.                                                                 *)

\* The places of the device whose ids a scan finds to differ.
DriftedOfDevice(R) ==
  {i \in 1..Len(Device) :
     Order[i] \in DOMAIN R /\ IdDrifted(Order[i], R[Order[i]], Expected(R)[i])}

\* The places of the payload in which a place is renamed.
PlacesWith(R, i) == IF i \in 1..Len(Device) THEN DriftedOfDevice(R) ELSE {i}

LEMMA ScannedRenames ==
  ASSUME NEW R, NEW x \in Scanned(R), x.kind = "id"
  PROVE  /\ DOMAIN x.renames \subseteq Places /\ DOMAIN x.renames # {}
         /\ \A i \in DOMAIN x.renames :
              /\ Order[i] \in DOMAIN R /\ Expected(R)[i] # R[Order[i]].id
              /\ x.renames[i] = <<R[Order[i]].id, Expected(R)[i]>>
              /\ x = IdRepair(R, Expected(R), PlacesWith(R, i))
  <1> DEFINE drifted == DriftedOfDevice(R)
             ids     == Expected(R)
  <1>1. \/ x = IdRepair(R, ids, drifted) /\ drifted # {}
        \/ \E i \in {j \in Places \ 1..Len(Device) :
                       Order[j] \in DOMAIN R /\ DevicelessDrifted(R, Order[j], ids[j])} :
             x = IdRepair(R, ids, {i})
    <2>1. CASE x \in DeviceRepairs(R, ids)
      <3> DEFINE named == {e \in ToSet(Device) \cap DOMAIN R : NameDrifted(e, R[e])}
                 names == [kind |-> "name", targets |-> {<<R[e].id, Recommended(e, R[e])>> : e \in named}]
      <3>1. \/ x \in {IdRepair(R, ids, places) : places \in {drifted} \ {{}}}
            \/ x \in {y \in {names} : named # {}}
        BY <2>1, Zenon DEF DeviceRepairs, DriftedOfDevice
      <3> HIDE DEF drifted, ids
      <3>2. CASE x \in {IdRepair(R, ids, places) : places \in {drifted} \ {{}}}
        BY <3>2
      <3>3. CASE x \in {y \in {names} : named # {}}
        <4>1. names.kind = "name"
          OBVIOUS
        <4> HIDE DEF names, named
        <4> QED BY <3>3, <4>1
      <3> QED BY <3>1, <3>2, <3>3
    <2>2. CASE x \in DevicelessRepairs(R, ids)
      BY <2>2 DEF DevicelessRepairs
    <2>3. CASE x \in CachedRepairs(R) \cup AliasedRepairs(R) \cup KeyRepairs(R)
      BY <2>3 DEF CachedRepairs, AliasedRepairs, KeyRepairs
    <2> QED BY <2>1, <2>2, <2>3 DEF Scanned
  <1>2. \A S : /\ DOMAIN IdRepair(R, ids, S).renames = S
               /\ \A i \in S : IdRepair(R, ids, S).renames[i] = <<R[Order[i]].id, ids[i]>>
    BY DEF IdRepair
  <1>3. CASE x = IdRepair(R, ids, drifted) /\ drifted # {}
    <2>1. \A i \in drifted : i \in Places /\ Order[i] \in DOMAIN R /\ ids[i] # R[Order[i]].id
      BY OrderType DEF DriftedOfDevice, IdDrifted, Places
    <2>2. \A i \in drifted : PlacesWith(R, i) = drifted
      BY DEF PlacesWith, DriftedOfDevice
    <2> HIDE DEF drifted, ids
    <2> QED BY <1>2, <1>3, <2>1, <2>2 DEF ids
  <1>4. CASE \E i \in {j \in Places \ 1..Len(Device) :
                         Order[j] \in DOMAIN R /\ DevicelessDrifted(R, Order[j], ids[j])} :
               x = IdRepair(R, ids, {i})
    <2>1. PICK i \in Places \ 1..Len(Device) :
            /\ Order[i] \in DOMAIN R /\ ids[i] # R[Order[i]].id
            /\ x = IdRepair(R, ids, {i})
      BY <1>4 DEF DevicelessDrifted
    <2>2. PlacesWith(R, i) = {i}
      BY DEF PlacesWith
    <2> HIDE DEF ids
    <2> QED BY <1>2, <2>1, <2>2 DEF ids
  <1> QED BY <1>1, <1>3, <1>4

LEMMA ScannedKeys ==
  ASSUME NEW R, NEW x \in Scanned(R), x.kind = "key"
  PROVE  \E s \in Scripts \cap DOMAIN R :
           /\ R[s].key # Slug(R[s].id)
           /\ x = [kind |-> "key", id |-> R[s].id, old |-> R[s].key, new |-> Slug(R[s].id)]
  <1> DEFINE ids == Expected(R)
  <1>1. CASE x \in DeviceRepairs(R, ids)
    BY <1>1 DEF DeviceRepairs, IdRepair
  <1>2. CASE x \in DevicelessRepairs(R, ids)
    <2>1. PICK i \in Places : x = IdRepair(R, ids, {i})
      BY <1>2 DEF DevicelessRepairs
    <2> QED BY <2>1 DEF IdRepair
  <1>3. CASE x \in CachedRepairs(R) \cup AliasedRepairs(R)
    BY <1>3 DEF CachedRepairs, AliasedRepairs
  <1>4. CASE x \in KeyRepairs(R)
    BY <1>4 DEF KeyRepairs, KeyDrifted
  <1> QED BY <1>1, <1>2, <1>3, <1>4 DEF Scanned

\* A target of a scan: handed out, and nobody's.
LEMMA ScannedTargets ==
  ASSUME TypeOK, NEW i \in Places, Order[i] \in Present,
         Expected(reg)[i] # reg[Order[i]].id
  PROVE  /\ i \in Handing(reg) \cap 1..Len(Order)
         /\ Expected(reg)[i] \in Ids /\ Expected(reg)[i][1] = Domain(Order[i])
         /\ Expected(reg)[i] \notin orphans /\ At(reg, Expected(reg)[i]) = {}
  <1> DEFINE ids == Expected(reg)
  <1>1. GivenOut(reg, Len(Order), ids)
    BY TypeGivesRegistry, ExpectedIsGivenOut
  <1> HIDE DEF ids
  <1>2. i \in 1..Len(Order) /\ Order[i] \in DOMAIN reg /\ ids[i] # reg[Order[i]].id
    BY DEF Places, Present, ids
  <1>3. ~Keeps(reg, Order[i])
    BY <1>1, <1>2 DEF GivenOut
  <1>4. ids[i] \in Ids /\ ids[i][1] = Domain(Order[i]) /\ ~IdTaken(reg, Order[i], ids[i])
    BY <1>1, <1>2, <1>3 DEF GivenOut
  <1>5. ids[i] \notin orphans /\ At(reg, ids[i]) = {}
    BY <1>2, <1>4 DEF IdTaken, At
  <1>6. i \in Handing(reg)
    BY <1>2, <1>3 DEF Handing
  <1> QED BY <1>2, <1>4, <1>5, <1>6 DEF ids

LEMMA ScannedIsFresh ==
  ASSUME TypeOK, KeysApart
  PROVE  FreshOf(Scanned(reg))
  <1> DEFINE S   == Scanned(reg)
             ids == Expected(reg)
  <1>1. \A x \in S : \A p \in Ends(x) :
          /\ p[1] \in Places /\ Order[p[1]] \in Present
          /\ p = <<p[1], ids[p[1]]>> /\ ids[p[1]] # reg[Order[p[1]]].id
          /\ x = IdRepair(reg, ids, PlacesWith(reg, p[1]))
    <2> SUFFICES ASSUME NEW x \in S, NEW p \in Ends(x)
                 PROVE  /\ p[1] \in Places /\ Order[p[1]] \in Present
                        /\ p = <<p[1], ids[p[1]]>> /\ ids[p[1]] # reg[Order[p[1]]].id
                        /\ x = IdRepair(reg, ids, PlacesWith(reg, p[1]))
      OBVIOUS
    <2>1. x.kind = "id" /\ p \in {<<i, x.renames[i][2]>> : i \in DOMAIN x.renames}
      BY DEF Ends
    <2>2. PICK i \in DOMAIN x.renames : p = <<i, x.renames[i][2]>>
      BY <2>1
    <2>3. /\ i \in Places /\ Order[i] \in Present /\ ids[i] # reg[Order[i]].id
          /\ x.renames[i] = <<reg[Order[i]].id, ids[i]>>
          /\ x = IdRepair(reg, ids, PlacesWith(reg, i))
      BY <2>1, ScannedRenames DEF Present
    <2> QED BY <2>2, <2>3
  <1>2. \A x \in S : x.kind = "key" =>
          \E s \in Scripts \cap Present :
            x = [kind |-> "key", id |-> reg[s].id, old |-> reg[s].key, new |-> Slug(reg[s].id)]
    BY ScannedKeys DEF Present
  <1> HIDE DEF S
  <1>3. \A x \in S : \A p \in Ends(x) :
          /\ p[1] \in Handing(reg) \cap 1..Len(Order)
          /\ p[2] = ids[p[1]] /\ p[2] \notin orphans /\ At(reg, p[2]) = {}
    <2> SUFFICES ASSUME NEW x \in S, NEW p \in Ends(x)
                 PROVE  /\ p[1] \in Handing(reg) \cap 1..Len(Order)
                        /\ p[2] = ids[p[1]] /\ p[2] \notin orphans /\ At(reg, p[2]) = {}
      OBVIOUS
    <2>1. /\ p[1] \in Places /\ Order[p[1]] \in Present /\ ids[p[1]] # reg[Order[p[1]]].id
          /\ p = <<p[1], ids[p[1]]>>
      BY <1>1
    <2>2. p[2] = ids[p[1]]
      BY <2>1
    <2>3. /\ p[1] \in Handing(reg) \cap 1..Len(Order)
          /\ ids[p[1]] \notin orphans /\ At(reg, ids[p[1]]) = {}
      BY <2>1, ScannedTargets
    <2> QED BY <2>2, <2>3
  <1>4. GivenOut(reg, Len(Order), ids)
    BY TypeGivesRegistry, ExpectedIsGivenOut
  <1> HIDE DEF ids
  <1>5. \A x, y \in S : \A p \in Ends(x), q \in Ends(y) : p[2] = q[2] => x = y /\ p = q
    <2> SUFFICES ASSUME NEW x \in S, NEW y \in S, NEW p \in Ends(x), NEW q \in Ends(y),
                        p[2] = q[2]
                 PROVE  x = y /\ p = q
      OBVIOUS
    <2>1. ids[p[1]] = ids[q[1]]
      BY <1>3
    <2>2. p[1] = q[1]
      BY <1>3, <1>4, <2>1 DEF GivenOut
    <2> QED BY <1>1, <2>2
  <1>6. \A x, y \in S : y.kind = "key" => \A p \in Ends(x) : p[2] # y.id
    <2> SUFFICES ASSUME NEW x \in S, NEW y \in S, y.kind = "key", NEW p \in Ends(x)
                 PROVE  p[2] # y.id
      OBVIOUS
    <2>1. PICK s \in Scripts \cap Present : y.id = reg[s].id
      BY <1>2
    <2>2. At(reg, p[2]) = {}
      BY <1>3
    <2> QED BY <2>1, <2>2 DEF At, Present
  <1>7. \A x \in S : x.kind = "key" =>
          /\ \E s \in Scripts : Keyed(x.old) = {s}
          /\ \A y \in S : y.kind = "key" /\ y.old = x.old => y = x
    <2> SUFFICES ASSUME NEW x \in S, x.kind = "key"
                 PROVE  /\ \E s \in Scripts : Keyed(x.old) = {s}
                        /\ \A y \in S : y.kind = "key" /\ y.old = x.old => y = x
      OBVIOUS
    <2>1. PICK s \in Scripts \cap Present :
            x = [kind |-> "key", id |-> reg[s].id, old |-> reg[s].key, new |-> Slug(reg[s].id)]
      BY <1>2
    <2>2. Keyed(x.old) = {s}
      BY <2>1 DEF Keyed, KeysApart
    <2>3. ASSUME NEW y \in S, y.kind = "key", y.old = x.old
          PROVE  y = x
      <3>1. PICK t \in Scripts \cap Present :
              y = [kind |-> "key", id |-> reg[t].id, old |-> reg[t].key, new |-> Slug(reg[t].id)]
        BY <1>2, <2>3
      <3>2. reg[t].key = reg[s].key
        BY <2>1, <2>3, <3>1
      <3>3. s = t
        BY <3>2 DEF KeysApart
      <3> QED BY <2>1, <3>1, <3>3
    <2> QED BY <2>2, <2>3
  <1>8. \A x \in S : \A p \in Ends(x) : p[2] \notin orphans /\ At(reg, p[2]) = {}
    BY <1>3
  <1> HIDE DEF Ends
  <1>9. FreshOf(S)
    BY <1>5, <1>6, <1>7, <1>8 DEF FreshOf
  <1> QED BY <1>9 DEF S
LEMMA ScannedPayloads ==
  ASSUME TypeOK, KeysApart, NEW x \in Scanned(reg)
  PROVE  PayloadOK(x)
  <1> DEFINE ids == Expected(reg)
  <1>1. \A e \in Present : reg[e] \in Entry /\ reg[e].id \in Ids /\ reg[e].id[1] = Domain(e)
    BY DEF TypeOK, Entry
  <1>2. CASE x.kind = "id"
    <2>1. /\ DOMAIN x.renames \subseteq Places
          /\ \A i \in DOMAIN x.renames :
               /\ Order[i] \in Present /\ ids[i] # reg[Order[i]].id
               /\ x.renames[i] = <<reg[Order[i]].id, ids[i]>>
      BY <1>2, ScannedRenames DEF Present
    <2>2. \A i \in DOMAIN x.renames : ids[i] \in Ids /\ ids[i][1] = Domain(Order[i])
      BY <2>1, ScannedTargets
    <2> HIDE DEF ids
    <2>3. \A i \in DOMAIN x.renames :
            x.renames[i] \in Ids \X Ids /\ x.renames[i][1][1] = x.renames[i][2][1]
      <3> SUFFICES ASSUME NEW i \in DOMAIN x.renames
                   PROVE  /\ x.renames[i] \in Ids \X Ids
                          /\ x.renames[i][1][1] = x.renames[i][2][1]
        OBVIOUS
      <3>1. PICK old \in Ids, new \in Ids : x.renames[i] = <<old, new>> /\ old[1] = new[1]
        BY <1>1, <2>1, <2>2
      <3> QED BY <3>1
    <2> QED BY <1>2, <2>1, <2>3 DEF PayloadOK
  <1>3. CASE x.kind = "key"
    <2>1. PICK s \in Scripts \cap Present :
            /\ reg[s].key # Slug(reg[s].id)
            /\ x = [kind |-> "key", id |-> reg[s].id, old |-> reg[s].key, new |-> Slug(reg[s].id)]
      BY <1>3, ScannedKeys DEF Present
    <2>2. reg[s].id \in Ids /\ reg[s].id[1] = "script" /\ reg[s].key \in Slugs
      BY <1>1 DEF KeysApart, Domain
    <2>3. Slug(reg[s].id) \in Slugs
      BY <2>2 DEF Slug, Slugs, Ids
    <2> QED BY <2>1, <2>2, <2>3 DEF PayloadOK
  <1>4. CASE x \in DeviceRepairs(reg, ids) /\ x.kind # "id"
    <2> DEFINE named == {e \in ToSet(Device) \cap Present : NameDrifted(e, reg[e])}
               names == [kind |-> "name",
                         targets |-> {<<reg[e].id, Recommended(e, reg[e])>> : e \in named}]
    <2>1. \/ \E places : x = IdRepair(reg, ids, places)
          \/ x \in {y \in {names} : named # {}}
      BY <1>4, Zenon DEF DeviceRepairs, Present
    <2>2. x = names
      BY <1>4, <2>1 DEF IdRepair
    <2>3. ASSUME NEW e \in Present
          PROVE  Recommended(e, reg[e]) \in Names \cup {None}
      <3>1. reg[e].original \in Names
        BY <1>1 DEF Entry
      <3> QED BY <3>1 DEF Recommended, StripDevicePrefix, Names
    <2>4. x.kind = "name" /\ x.targets = {<<reg[e].id, Recommended(e, reg[e])>> : e \in named}
      BY <2>2
    <2>5. x.targets \subseteq Ids \X (Names \cup {None})
      BY <1>1, <2>3, <2>4
    <2> QED BY <2>4, <2>5 DEF PayloadOK
  <1>5. CASE x \in CachedRepairs(reg)
    <2>1. x = [kind |-> "cached", ids |-> {reg[e].id : e \in CachedFound(reg)}]
      BY <1>5 DEF CachedRepairs
    <2>2. CachedFound(reg) \subseteq Present
      BY DEF CachedFound, Present
    <2> QED BY <1>1, <2>1, <2>2 DEF PayloadOK
  <1>6. CASE x \in AliasedRepairs(reg)
    <2>1. PICK e \in Present : x = [kind |-> "aliased", id |-> reg[e].id]
      BY <1>6 DEF AliasedRepairs, AliasedFound, Present
    <2> QED BY <1>1, <2>1 DEF PayloadOK
  <1>7. CASE x \in DevicelessRepairs(reg, ids)
    <2>1. PICK i \in Places : x = IdRepair(reg, ids, {i})
      BY <1>7 DEF DevicelessRepairs
    <2>2. x.kind = "id"
      BY <2>1 DEF IdRepair
    <2> QED BY <1>2, <2>2
  <1>8. CASE x \in KeyRepairs(reg)
    <2>1. x.kind = "key"
      BY <1>8 DEF KeyRepairs
    <2> QED BY <1>3, <2>1
  <1> QED BY <1>2, <1>4, <1>5, <1>6, <1>7, <1>8 DEF Scanned

LEMMA ScanKeeps ==
  ASSUME Inv, Scan
  PROVE  Inv'
  <1>1. TypeOK /\ KeysApart /\ FixesDoNotClash
    BY DEF Inv, FixesDoNotClash
  <1>2. /\ since' = "nothing" /\ seen' = reg /\ repairs' = Scanned(reg)
        /\ UNCHANGED <<reg, excluded, orphans, doubled, failed, trouble>>
    BY DEF Scan
  <1>3. TypeOK'
    <2>1. \A x \in repairs' \cup failed' : PayloadOK(x)
      BY <1>1, <1>2, ScannedPayloads DEF TypeOK
    <2> QED BY <1>1, <1>2, <2>1 DEF TypeOK, Present
  <1>4. KeysApart'
    BY <1>1, <1>2 DEF KeysApart, Present
  <1>5. FreshOf(repairs)'
    <2>1. FreshOf(Scanned(reg))
      BY <1>1, ScannedIsFresh
    <2> DEFINE S == Scanned(reg)
    <2>2. FreshOf(S) /\ repairs' = S
      BY <1>2, <2>1
    <2> HIDE DEF S
    <2> QED BY <1>2, <2>2 DEF FreshOf, Keyed, Present
  <1> QED BY <1>1, <1>2, <1>3, <1>4, <1>5 DEF Inv, FixesDoNotClash
-----------------------------------------------------------------------------
(* The fix services.                                                       *)

\* Enough for what is left of a scan to stay free of competition.
LEMMA StaysFresh ==
  ASSUME FreshOf(repairs), repairs' \subseteq repairs,
         \A x \in repairs' : \A p \in Ends(x) :
           p[2] \notin orphans' /\ \A e \in Present' : reg'[e].id # p[2],
         doubled \subseteq doubled',
         \A x \in repairs' : x.kind = "key" =>
           x.old \in doubled' \/ Keyed(x.old)' = Keyed(x.old)
  PROVE  FreshOf(repairs)'
  <1>1. \A x, y \in repairs' : \A p \in Ends(x), q \in Ends(y) : p[2] = q[2] => x = y /\ p = q
    BY DEF FreshOf
  <1>2. \A x \in repairs' : \A p \in Ends(x) : p[2] \notin orphans' /\ At(reg', p[2]) = {}
    BY DEF At, Present
  <1>3. \A x, y \in repairs' : y.kind = "key" => \A p \in Ends(x) : p[2] # y.id
    BY DEF FreshOf
  <1>4. \A x \in repairs' : x.kind = "key" =>
          /\ (\E s \in Scripts : Keyed(x.old)' = {s}) \/ x.old \in doubled'
          /\ \A y \in repairs' : y.kind = "key" /\ y.old = x.old => y = x
    BY DEF FreshOf
  <1> QED BY <1>1, <1>2, <1>3, <1>4 DEF FreshOf, Keyed

\* What changes no id and no key.
LEMMA EditKeeps ==
  ASSUME Inv, reg' \in [Present -> Entry],
         \A e \in Present : reg'[e].id = reg[e].id /\ reg'[e].key = reg[e].key,
         UNCHANGED <<excluded, orphans, doubled>>, trouble' \in 0..MaxTrouble,
         failed' \subseteq failed \cup {x \in repairs : x.kind = "key" /\ x.old \in doubled},
         repairs' \subseteq repairs, seen' = seen \/ seen' = <<>>,
         since' \in {"nothing", "fixes", "hands"}, since' # "hands" => since # "hands"
  PROVE  Inv'
  <1>1. TypeOK /\ KeysApart /\ FixesDoNotClash
    BY DEF Inv, FixesDoNotClash
  <1>2. Present' = Present
    BY DEF Present
  <1>3. TypeOK'
    BY <1>1, <1>2 DEF TypeOK
  <1>4. KeysApart'
    BY <1>1, <1>2 DEF KeysApart
  <1>5. ASSUME since' # "hands"
        PROVE  FreshOf(repairs)'
    <2>1. FreshOf(repairs)
      BY <1>5 DEF Inv
    <2>2. \A x \in repairs' : \A p \in Ends(x) :
            p[2] \notin orphans' /\ \A e \in Present' : reg'[e].id # p[2]
      BY <1>2, <2>1 DEF FreshOf, At, Present
    <2>3. \A key : Keyed(key)' = Keyed(key)
      BY <1>2 DEF Keyed
    <2> QED BY <2>1, <2>2, <2>3, StaysFresh
  <1> QED BY <1>1, <1>3, <1>4, <1>5 DEF Inv, FixesDoNotClash

\* No rename of what is left of a scan is refused.
LEMMA RenamesSucceed ==
  ASSUME Inv, NEW x \in repairs, x.kind = "id", since # "hands"
  PROVE  Renamed(reg, x.renames).ok
  <1> SUFFICES Unopposed(reg, x.renames)
    <2>1. reg \in [Present -> Entry] /\ Present = DOMAIN reg /\ IdsApart(reg)
      BY TypeGivesRegistry DEF Inv, TypeOK, Present
    <2>2. RenamesOK(x.renames)
      BY DEF Inv, TypeOK, PayloadOK, RenamesOK
    <2> QED BY <2>1, <2>2, RenamedAlong
  <1>1. FreshOf(repairs)
    BY DEF Inv
  <1>2. \A i \in DOMAIN x.renames : <<i, x.renames[i][2]>> \in Ends(x)
    BY DEF Ends
  <1>3. ASSUME NEW i \in DOMAIN x.renames, NEW j \in DOMAIN x.renames,
               x.renames[i][2] = x.renames[j][2]
        PROVE  i = j
    <2> DEFINE p == <<i, x.renames[i][2]>>
               q == <<j, x.renames[j][2]>>
    <2>1. p \in Ends(x) /\ q \in Ends(x) /\ p[2] = q[2]
      BY <1>2, <1>3
    <2> HIDE DEF p, q
    <2>2. p = q
      BY <1>1, <2>1 DEF FreshOf
    <2> QED BY <2>2 DEF p, q
  <1>4. ASSUME NEW i \in DOMAIN x.renames
        PROVE  x.renames[i][2] \notin orphans /\ \A e \in DOMAIN reg : reg[e].id # x.renames[i][2]
    <2> DEFINE p == <<i, x.renames[i][2]>>
    <2>1. p \in Ends(x) /\ p[2] = x.renames[i][2]
      BY <1>2
    <2> HIDE DEF p
    <2>2. p[2] \notin orphans /\ At(reg, p[2]) = {}
      BY <1>1, <2>1 DEF FreshOf
    <2> QED BY <2>1, <2>2 DEF At
  <1> QED BY <1>3, <1>4 DEF Unopposed

LEMMA FixIdDriftKeeps ==
  ASSUME Inv, NEW x \in repairs, FixIdDrift(x)
  PROVE  Inv'
  <1> DEFINE done == Renamed(reg, x.renames)
  <1>1. TypeOK /\ KeysApart /\ FixesDoNotClash
    BY DEF Inv, FixesDoNotClash
  <1>2. /\ x.kind = "id" /\ reg' = done.reg /\ Settle(x, done.ok)
        /\ UNCHANGED <<excluded, orphans, doubled, trouble>>
    BY DEF FixIdDrift
  <1>3. reg \in [Present -> Entry] /\ Present = DOMAIN reg /\ IdsApart(reg)
    BY <1>1, TypeGivesRegistry DEF TypeOK, Present
  <1>4. RenamesOK(x.renames)
    BY <1>1, <1>2 DEF TypeOK, PayloadOK, RenamesOK
  <1>5. /\ Along(reg, x.renames, Len(Order), done)
        /\ Unopposed(reg, x.renames) => done.ok
    BY <1>3, <1>4, RenamedAlong
  <1> HIDE DEF done
  <1>6. /\ reg' \in [Present -> Entry] /\ Present' = Present /\ IdsApart(reg') /\ done.ok \in BOOLEAN
        /\ \A e \in Present :
             /\ reg'[e] = [reg[e] EXCEPT !.id = reg'[e].id]
             /\ reg'[e].key = reg[e].key
             /\ reg'[e].id # reg[e].id => \E i \in DOMAIN x.renames : reg'[e].id = x.renames[i][2]
    <2>1. /\ reg' \in [Present -> Entry] /\ Present' = Present /\ IdsApart(reg')
          /\ done.ok \in BOOLEAN
          /\ \A e \in Present :
               /\ reg'[e] = [reg[e] EXCEPT !.id = reg'[e].id]
               /\ reg'[e].id # reg[e].id => \E i \in DOMAIN x.renames : reg'[e].id = x.renames[i][2]
      BY <1>2, <1>3, <1>5 DEF Along, Present
    <2>2. \A e \in Present : reg'[e].key = reg[e].key
      <3> SUFFICES ASSUME NEW e \in Present
                   PROVE  reg'[e].key = reg[e].key
        OBVIOUS
      <3>1. reg[e] \in Entry
        BY <1>3
      <3> QED BY <2>1, <3>1 DEF Entry
    <2> QED BY <2>1, <2>2
  <1>7. since # "hands" => done.ok
    BY <1>2, RenamesSucceed DEF done
  <1>8. /\ repairs' \subseteq repairs /\ failed' = failed /\ seen' = seen
        /\ since' \in {"nothing", "fixes", "hands"} /\ (since' # "hands" => since # "hands")
        /\ since # "hands" => repairs' = repairs \ {x}
    BY <1>1, <1>2, <1>6, <1>7 DEF Settle, TypeOK
  <1>9. TypeOK'
    BY <1>1, <1>2, <1>3, <1>6, <1>8 DEF TypeOK, IdsApart
  <1>10. KeysApart'
    BY <1>1, <1>6 DEF KeysApart
  <1>11. ASSUME since' # "hands"
         PROVE  FreshOf(repairs)'
    <2>1. FreshOf(repairs) /\ repairs' = repairs \ {x}
      BY <1>8, <1>11 DEF Inv
    <2>2. ASSUME NEW y \in repairs', NEW p \in Ends(y)
          PROVE  p[2] \notin orphans' /\ \A e \in Present' : reg'[e].id # p[2]
      <3>1. p[2] \notin orphans /\ \A e \in Present : reg[e].id # p[2]
        BY <2>1, <2>2 DEF FreshOf, At, Present
      <3>2. \A i \in DOMAIN x.renames : x.renames[i][2] # p[2]
        <4> SUFFICES ASSUME NEW i \in DOMAIN x.renames, x.renames[i][2] = p[2]
                     PROVE  FALSE
          OBVIOUS
        <4> DEFINE q == <<i, x.renames[i][2]>>
        <4>1. q \in Ends(x) /\ q[2] = p[2]
          BY <1>2 DEF Ends
        <4> HIDE DEF q
        <4> QED BY <2>1, <2>2, <4>1 DEF FreshOf
      <3>3. \A e \in Present : reg'[e].id # p[2]
        <4>1. \A e \in Present :
                reg'[e].id # reg[e].id => \E i \in DOMAIN x.renames : reg'[e].id = x.renames[i][2]
          BY <1>6
        <4> QED BY <3>1, <3>2, <4>1
      <3> QED BY <1>2, <1>6, <3>1, <3>3
    <2>3. \A key : Keyed(key)' = Keyed(key)
      BY <1>6 DEF Keyed
    <2> QED BY <1>2, <1>8, <2>1, <2>2, <2>3, StaysFresh
  <1> QED BY <1>1, <1>2, <1>8, <1>9, <1>10, <1>11 DEF Inv, FixesDoNotClash

LEMMA FixScriptKeyKeeps ==
  ASSUME Inv, NEW x \in repairs, NEW s \in Scripts, FixScriptKey(x, s)
  PROVE  Inv'
  <1>1. TypeOK /\ KeysApart /\ FixesDoNotClash
    BY DEF Inv, FixesDoNotClash
  <1>2. /\ x.kind = "key" /\ Keyed(x.old) = {s} /\ Keyed(x.new) = {}
        /\ reg[s].id = x.id \/ At(reg, x.id) = {}
        /\ orphans' = (orphans \cup {reg[s].id}) \ {x.id}
        /\ reg' = [reg EXCEPT ![s].key = x.new, ![s].override = None, ![s].id = x.id]
        /\ Settle(x, TRUE) /\ UNCHANGED <<excluded, doubled, trouble>>
    BY DEF FixScriptKey, Rewrites
  <1>3. x.id \in Ids /\ x.id[1] = "script" /\ x.new \in Slugs
    BY <1>1, <1>2 DEF TypeOK, PayloadOK
  <1>4. s \in Present /\ reg[s] \in Entry /\ reg[s].key = x.old /\ reg[s].id \in Ids
    <2>1. s \in Present /\ reg[s].key = x.old
      BY <1>2 DEF Keyed
    <2> QED BY <1>1, <2>1 DEF TypeOK, Entry
  <1> DEFINE entry == [reg[s] EXCEPT !.key = x.new, !.override = None, !.id = x.id]
  <1>5. entry \in Entry /\ entry.key = x.new /\ entry.id = x.id
    BY <1>3, <1>4 DEF Entry
  <1>6. reg' = [reg EXCEPT ![s] = entry] /\ reg \in [Present -> Entry]
    BY <1>1, <1>2, <1>4 DEF TypeOK
  <1> HIDE DEF entry
  <1>7. /\ reg' \in [Present -> Entry] /\ Present' = Present
        /\ reg'[s].key = x.new /\ reg'[s].id = x.id
        /\ \A e \in Present : e # s => reg'[e] = reg[e]
    BY <1>4, <1>5, <1>6 DEF Present
  <1>8. /\ repairs' = repairs \ {x} /\ failed' = failed /\ seen' = seen
        /\ since' \in {"fixes", "hands"} /\ (since' # "hands" => since # "hands")
    BY <1>1, <1>2 DEF Settle, TypeOK
  <1>9. \A e \in Present : e # s => reg[e].id # x.id
    BY <1>1, <1>2, <1>4 DEF TypeOK, At, Present
  <1>10. TypeOK'
    <2>1. orphans' \subseteq Ids /\ IsFiniteSet(orphans')
      <3>1. IsFiniteSet(orphans \cup {reg[s].id}) /\ orphans \cup {reg[s].id} \subseteq Ids
        BY <1>1, <1>4, FS_AddElement DEF TypeOK
      <3> QED BY <1>2, <3>1, FS_Subset
    <2>2. \A e \in Present : reg'[e].id[1] = Domain(e)
      BY <1>1, <1>3, <1>7 DEF TypeOK, Domain
    <2>3. \A d, e \in Present : reg'[d].id = reg'[e].id => d = e
      BY <1>1, <1>7, <1>9 DEF TypeOK
    <2> QED BY <1>1, <1>2, <1>7, <1>8, <2>1, <2>2, <2>3 DEF TypeOK
  <1>11. KeysApart'
    <2>1. \A t \in Scripts \cap Present : reg[t].key # x.new
      BY <1>2 DEF Keyed
    <2> QED BY <1>1, <1>3, <1>7, <2>1 DEF KeysApart
  <1>12. ASSUME since' # "hands"
         PROVE  FreshOf(repairs)'
    <2>1. FreshOf(repairs)
      BY <1>8, <1>12 DEF Inv
    <2>2. ASSUME NEW y \in repairs', NEW p \in Ends(y)
          PROVE  p[2] \notin orphans' /\ \A e \in Present' : reg'[e].id # p[2]
      <3>1. p[2] \notin orphans /\ \A e \in Present : reg[e].id # p[2]
        BY <1>8, <2>1, <2>2 DEF FreshOf, At, Present
      <3>2. p[2] # x.id
        BY <1>2, <1>8, <2>1, <2>2 DEF FreshOf
      <3> QED BY <1>2, <1>4, <1>7, <3>1, <3>2
    <2>3. ASSUME NEW y \in repairs', y.kind = "key", y.old \notin doubled'
          PROVE  Keyed(y.old)' = Keyed(y.old)
      <3>1. y.old # x.old
        BY <1>2, <1>8, <2>1, <2>3 DEF FreshOf
      <3>2. Keyed(y.old) # {}
        BY <1>2, <1>8, <2>1, <2>3 DEF FreshOf
      <3>3. y.old # x.new
        BY <1>2, <3>2
      <3> QED BY <1>4, <1>7, <3>1, <3>3 DEF Keyed
    <2> QED BY <1>2, <1>8, <2>1, <2>2, <2>3, StaysFresh
  <1> QED BY <1>1, <1>2, <1>8, <1>10, <1>11, <1>12 DEF Inv, FixesDoNotClash

\* What is left where two blocks have one key.
\* What is left where a script is lost.
LoseEffects(x, s, t, w) ==
  /\ x.kind = "key" /\ Keyed(x.old) = {s} /\ x.id \in Ids /\ x.new \in Slugs
  /\ s \in Present /\ t \in Present /\ w \in {s, t}
  /\ s # t => reg[s].key # x.new
  /\ reg[s].key = x.old /\ reg[t].key = x.new
  /\ Present' = Present \ ({s, t} \ {w}) /\ w \in Present'
  /\ reg' \in [Present' -> Entry] /\ reg'[w].key = x.new /\ reg'[w].id = x.id
  /\ \A e \in Present' : e # w => e # s /\ e # t /\ reg'[e] = reg[e]
  /\ \A e \in Present : e # s => reg[e].id # x.id
  /\ x.id[1] = "script" /\ reg[s].id \in Ids
  /\ orphans' = (orphans \cup {reg[s].id}) \ {x.id}
  /\ doubled' = doubled \cup {x.new} /\ Settle(x, TRUE)
  /\ UNCHANGED <<excluded, trouble>>

LEMMA LosesEffect ==
  ASSUME TypeOK, NEW x \in repairs, NEW s \in Scripts, NEW t \in Scripts, NEW w \in Scripts,
         FixScriptKeyLoses(x, s, t, w)
  PROVE  LoseEffects(x, s, t, w)
  <1>1. /\ x.kind = "key" /\ Keyed(x.old) = {s} /\ t \in Keyed(x.new) /\ w \in {s, t}
        /\ reg[s].id = x.id \/ At(reg, x.id) = {}
        /\ orphans' = (orphans \cup {reg[s].id}) \ {x.id}
        /\ reg' = [e \in Present \ ({s, t} \ {w}) |->
                     IF e = w
                     THEN [reg[w] EXCEPT !.key = x.new, !.override = reg[t].override, !.id = x.id]
                     ELSE reg[e]]
        /\ doubled' = doubled \cup {x.new} /\ Settle(x, TRUE) /\ UNCHANGED <<excluded, trouble>>
    BY DEF FixScriptKeyLoses, Rewrites
  <1>2. x.id \in Ids /\ x.id[1] = "script" /\ x.new \in Slugs
    BY <1>1 DEF TypeOK, PayloadOK
  <1>3. s \in Present /\ t \in Present /\ reg[s].key = x.old /\ reg[t].key = x.new
    BY <1>1 DEF Keyed
  <1>4. reg[s] \in Entry /\ reg[t] \in Entry /\ reg[w] \in Entry /\ reg \in [Present -> Entry]
    BY <1>1, <1>3 DEF TypeOK
  <1> DEFINE entry == [reg[w] EXCEPT !.key = x.new, !.override = reg[t].override, !.id = x.id]
  <1>5. entry \in Entry /\ entry.key = x.new /\ entry.id = x.id
    BY <1>2, <1>4 DEF Entry
  <1>6. reg' = [e \in Present \ ({s, t} \ {w}) |-> IF e = w THEN entry ELSE reg[e]]
    BY <1>1
  <1> HIDE DEF entry
  <1>7. /\ Present' = Present \ ({s, t} \ {w}) /\ w \in Present'
        /\ reg' \in [Present' -> Entry] /\ reg'[w] = entry
        /\ \A e \in Present' : e # w => e # s /\ e # t /\ reg'[e] = reg[e]
    BY <1>1, <1>3, <1>4, <1>5, <1>6 DEF Present
  <1>8. \A e \in Present : e # s => reg[e].id # x.id
    BY <1>1, <1>3 DEF TypeOK, At, Present
  <1>9. reg[s].id \in Ids
    BY <1>4 DEF Entry
  <1>10. s # t => reg[s].key # x.new
    <2> SUFFICES ASSUME s # t, reg[s].key = x.new
                 PROVE  FALSE
      OBVIOUS
    <2>1. t \in Keyed(x.old)
      BY <1>1, <1>3 DEF Keyed
    <2> QED BY <1>1, <2>1
  <1> QED BY <1>1, <1>2, <1>3, <1>5, <1>7, <1>8, <1>9, <1>10 DEF LoseEffects

LEMMA FixScriptKeyLosesKeeps ==
  ASSUME Inv, NEW x \in repairs, NEW s \in Scripts, NEW t \in Scripts, NEW w \in Scripts,
         FixScriptKeyLoses(x, s, t, w)
  PROVE  Inv'
  <1>1. TypeOK /\ KeysApart /\ FixesDoNotClash
    BY DEF Inv
  <1>2. /\ x.kind = "key" /\ Keyed(x.old) = {s} /\ x.id \in Ids /\ x.new \in Slugs
        /\ s \in Present /\ t \in Present /\ w \in {s, t}
        /\ reg[s].key = x.old /\ reg[t].key = x.new
        /\ Present' = Present \ ({s, t} \ {w}) /\ w \in Present'
        /\ reg' \in [Present' -> Entry] /\ reg'[w].key = x.new /\ reg'[w].id = x.id
        /\ \A e \in Present' : e # w => e # s /\ e # t /\ reg'[e] = reg[e]
        /\ \A e \in Present : e # s => reg[e].id # x.id
        /\ x.id[1] = "script" /\ reg[s].id \in Ids
        /\ orphans' = (orphans \cup {reg[s].id}) \ {x.id}
        /\ doubled' = doubled \cup {x.new} /\ UNCHANGED <<excluded, trouble>>
    <2>1. LoseEffects(x, s, t, w)
      BY <1>1, LosesEffect
    <2> QED BY <2>1 DEF LoseEffects
  <1>3. /\ repairs' = repairs \ {x} /\ failed' = failed /\ seen' = seen
        /\ since' \in {"fixes", "hands"} /\ (since' # "hands" => since # "hands")
    <2>1. Settle(x, TRUE)
      BY DEF FixScriptKeyLoses
    <2> QED BY <1>1, <2>1 DEF Settle, TypeOK
  <1>4. TypeOK'
    <2>1. orphans' \subseteq Ids /\ IsFiniteSet(orphans')
      <3>1. IsFiniteSet(orphans \cup {reg[s].id}) /\ orphans \cup {reg[s].id} \subseteq Ids
        BY <1>1, <1>2, FS_AddElement DEF TypeOK
      <3> QED BY <1>2, <3>1, FS_Subset
    <2>2. \A e \in Present' : reg'[e].id[1] = Domain(e)
      BY <1>1, <1>2 DEF TypeOK, Domain
    <2>3. \A d, e \in Present' : reg'[d].id = reg'[e].id => d = e
      BY <1>1, <1>2 DEF TypeOK
    <2>4. Present' \subseteq Entities /\ doubled' \subseteq Slugs
      BY <1>1, <1>2 DEF TypeOK
    <2>5. seen' = <<>> \/ seen' \in [DOMAIN seen' -> Entry]
      BY <1>1, <1>3 DEF TypeOK
    <2>6. \A y \in repairs' \cup failed' : PayloadOK(y)
      BY <1>1, <1>3 DEF TypeOK
    <2> QED BY <1>1, <1>2, <1>3, <2>1, <2>2, <2>3, <2>4, <2>5, <2>6 DEF TypeOK
  <1>5. KeysApart'
    <2>1. \A e \in Scripts \cap Present' : e # w => reg'[e].key = reg[e].key /\ reg[e].key # x.new
      BY <1>1, <1>2 DEF KeysApart
    <2> QED BY <1>1, <1>2, <2>1 DEF KeysApart
  <1>6. ASSUME since' # "hands"
        PROVE  FreshOf(repairs)'
    <2>1. FreshOf(repairs)
      BY <1>3, <1>6 DEF Inv
    <2>2. ASSUME NEW y \in repairs', NEW p \in Ends(y)
          PROVE  p[2] \notin orphans' /\ \A e \in Present' : reg'[e].id # p[2]
      <3>1. p[2] \notin orphans /\ \A e \in Present : reg[e].id # p[2]
        BY <1>3, <2>1, <2>2 DEF FreshOf, At, Present
      <3>2. p[2] # x.id
        BY <1>2, <1>3, <2>1, <2>2 DEF FreshOf
      <3> QED BY <1>2, <3>1, <3>2
    <2>3. ASSUME NEW y \in repairs', y.kind = "key", y.old \notin doubled'
          PROVE  Keyed(y.old)' = Keyed(y.old)
      <3>1. y.old # x.old
        BY <1>2, <1>3, <2>1, <2>3 DEF FreshOf
      <3>2. y.old # x.new
        BY <1>2, <2>3
      <3> QED BY <1>2, <3>1, <3>2 DEF Keyed
    <2> QED BY <1>2, <1>3, <2>1, <2>2, <2>3, StaysFresh
  <1> QED BY <1>1, <1>2, <1>3, <1>4, <1>5, <1>6 DEF Inv, FixesDoNotClash

LEMMA SubmitKeeps ==
  ASSUME Inv, NEW x \in repairs, Submit(x)
  PROVE  Inv'
  <1>1. TypeOK /\ PayloadOK(x)
    BY DEF Inv, TypeOK
  <1>2. reg \in [Present -> Entry] /\ Present = DOMAIN reg
    BY <1>1 DEF TypeOK, Present
  <1>3. ASSUME Settle(x, TRUE)
        PROVE  /\ repairs' \subseteq repairs /\ failed' = failed /\ seen' = seen
               /\ since' \in {"fixes", "hands"} /\ (since' # "hands" => since # "hands")
    BY <1>1, <1>3 DEF Settle, TypeOK
  <1>4. CASE FixIdDrift(x)
    BY <1>4, FixIdDriftKeeps
  <1>5. CASE FixNameDrift(x)
    <2> DEFINE Chosen(e) == {p \in x.targets : p[1] = reg[e].id}
               name(e)   == (CHOOSE p \in Chosen(e) : TRUE)[2]
    <2>1. /\ reg' = [e \in Present |->
                       IF Chosen(e) = {} THEN reg[e] ELSE [reg[e] EXCEPT !.override = name(e)]]
          /\ Settle(x, TRUE) /\ UNCHANGED <<excluded, orphans, doubled, trouble>>
      BY <1>5 DEF FixNameDrift
    <2>2. x.targets \subseteq Ids \X (Names \cup {None})
      BY <1>1, <1>5 DEF PayloadOK, FixNameDrift
    <2>3. \A e \in Present : Chosen(e) # {} => name(e) \in Names \cup {None}
      <3> SUFFICES ASSUME NEW e \in Present, Chosen(e) # {}
                   PROVE  name(e) \in Names \cup {None}
        OBVIOUS
      <3>1. PICK p \in x.targets : p = CHOOSE q \in Chosen(e) : TRUE
        OBVIOUS
      <3> QED BY <2>2, <3>1
    <2> HIDE DEF Chosen, name
    <2>4. ASSUME NEW e \in Present
          PROVE  reg'[e] \in Entry /\ reg'[e].id = reg[e].id /\ reg'[e].key = reg[e].key
      <3>1. reg[e] \in Entry
        BY <1>2
      <3> QED BY <2>1, <2>3, <3>1 DEF Entry
    <2>5. reg' \in [Present -> Entry]
      BY <2>1, <2>4
    <2> QED BY <1>1, <1>3, <2>1, <2>4, <2>5, EditKeeps DEF TypeOK
  <1>6. CASE FixCachedName(x)
    <2>1. /\ reg' = [e \in Present |->
                       IF reg[e].id \in x.ids THEN [reg[e] EXCEPT !.stale = FALSE] ELSE reg[e]]
          /\ Settle(x, TRUE) /\ UNCHANGED <<excluded, orphans, doubled, trouble>>
      BY <1>6 DEF FixCachedName
    <2>2. ASSUME NEW e \in Present
          PROVE  reg'[e] \in Entry /\ reg'[e].id = reg[e].id /\ reg'[e].key = reg[e].key
      <3>1. reg[e] \in Entry
        BY <1>2
      <3> QED BY <2>1, <3>1 DEF Entry
    <2>3. reg' \in [Present -> Entry]
      BY <2>1, <2>2
    <2> QED BY <1>1, <1>3, <2>1, <2>2, <2>3, EditKeeps DEF TypeOK
  <1>7. CASE FixVisibleAliased(x)
    <2>1. /\ reg' = [e \in Present |->
                       IF reg[e].id = x.id THEN [reg[e] EXCEPT !.aliased = FALSE] ELSE reg[e]]
          /\ Settle(x, TRUE) /\ UNCHANGED <<excluded, orphans, doubled, trouble>>
      BY <1>7 DEF FixVisibleAliased
    <2>2. ASSUME NEW e \in Present
          PROVE  reg'[e] \in Entry /\ reg'[e].id = reg[e].id /\ reg'[e].key = reg[e].key
      <3>1. reg[e] \in Entry
        BY <1>2
      <3> QED BY <2>1, <3>1 DEF Entry
    <2>3. reg' \in [Present -> Entry]
      BY <2>1, <2>2
    <2> QED BY <1>1, <1>3, <2>1, <2>2, <2>3, EditKeeps DEF TypeOK
  <1>8. CASE FixScriptKeyFails(x)
    <2>1. /\ x.kind = "key"
          /\ Cardinality(Keyed(x.old)) # 1 \/ x.old \in doubled
          /\ UNCHANGED <<reg, excluded, orphans, doubled, trouble>> /\ Settle(x, FALSE)
      BY <1>8 DEF FixScriptKeyFails
    <2>2. since # "hands" => x.old \in doubled
      <3> SUFFICES ASSUME since # "hands", x.old \notin doubled
                   PROVE  FALSE
        OBVIOUS
      <3>1. PICK s \in Scripts : Keyed(x.old) = {s}
        BY <2>1 DEF Inv, FreshOf
      <3> QED BY <2>1, <3>1, FS_Singleton
    <2>3. /\ repairs' = repairs /\ seen' = seen /\ since' = since
          /\ failed' \subseteq failed \cup {y \in repairs : y.kind = "key" /\ y.old \in doubled}
      BY <2>1, <2>2 DEF Settle
    <2>4. since \in {"nothing", "fixes", "hands"} /\ trouble' \in 0..MaxTrouble
      BY <1>1, <2>1 DEF TypeOK
    <2> QED BY <1>1, <1>2, <2>1, <2>3, <2>4, EditKeeps
  <1>9. CASE \E s \in Scripts : FixScriptKey(x, s)
    BY <1>9, FixScriptKeyKeeps
  <1>10. CASE \E s, t, w \in Scripts : FixScriptKeyLoses(x, s, t, w)
    BY <1>10, FixScriptKeyLosesKeeps
  <1> QED BY <1>4, <1>5, <1>6, <1>7, <1>8, <1>9, <1>10 DEF Submit
-----------------------------------------------------------------------------
(* People and integrations, and how it begins.                             *)

LEMMA FirstIdsType ==
  ASSUME NEW e, NEW id \in FirstIds(e)
  PROVE  id \in Ids /\ id[1] = Domain(e) /\ Slug(id) \in Slugs
  <1>1. Domain(e) \in {"light", "script"}
    BY DEF Domain
  <1> DEFINE firsts == {<<FALSE, r>> : r \in Rests \ {None}}
  <1>2. ASSUME NEW r \in Rests
        PROVE  <<FALSE, r>> \in Names
    BY DEF Names
  <1>3. firsts \subseteq Names
    BY <1>2
  <1>4. id \in {Domain(e)} \X firsts \X (1..2)
    BY DEF FirstIds
  <1> HIDE DEF firsts
  <1>5. /\ id = <<id[1], id[2], id[3]>>
        /\ id[1] = Domain(e) /\ id[2] \in Names /\ id[3] \in Nat \ {0}
    BY <1>3, <1>4
  <1> QED BY <1>1, <1>5 DEF Ids, Slug, Slugs

LEMMA NewNamesType ==
  ASSUME NEW e, NEW n \in NewNames(e)
  PROVE  n.has \in BOOLEAN /\ n.original \in Names
  <1>1. \E h \in BOOLEAN, b \in BOOLEAN, r \in Rests : n = [has |-> h, original |-> <<b, r>>]
    BY DEF NewNames
  <1> QED BY <1>1 DEF Names

LEMMA HandsKeep ==
  ASSUME Inv, NEW e \in Present,
         \/ \E id \in FirstIds(e) : RenameId(e, id)
         \/ \E r \in Rests : Override(e, <<FALSE, r>>)
         \/ CacheGoesStale(e) \/ Unhide(e)
  PROVE  Inv'
  <1>1. TypeOK /\ KeysApart /\ FixesDoNotClash
    BY DEF Inv, FixesDoNotClash
  <1>2. reg \in [Present -> Entry] /\ Present = DOMAIN reg /\ reg[e] \in Entry
    BY <1>1 DEF TypeOK, Present
  <1>3. ASSUME May("id") \/ May("name") \/ May("cache") \/ May("unhide"), Interfere
        PROVE  trouble' \in 0..MaxTrouble /\ since' = "hands" /\ seen' = <<>>
    BY <1>1, <1>3, DefaultsAssumption DEF May, Interfere, TypeOK
  <1>4. ASSUME NEW id \in FirstIds(e), RenameId(e, id)
        PROVE  Inv'
    <2>1. /\ May("id") /\ id[1] = Domain(e) /\ ~IdTaken(reg, e, id)
          /\ reg' = [reg EXCEPT ![e].id = id] /\ Interfere
          /\ UNCHANGED <<excluded, repairs, orphans, doubled, failed>>
      BY <1>4 DEF RenameId
    <2>2. id \in Ids
      BY FirstIdsType
    <2> DEFINE entry == [reg[e] EXCEPT !.id = id]
    <2>3. entry \in Entry /\ entry.id = id /\ entry.key = reg[e].key
      BY <1>2, <2>2 DEF Entry
    <2>4. reg' = [reg EXCEPT ![e] = entry]
      BY <1>2, <2>1
    <2> HIDE DEF entry
    <2>5. /\ reg' \in [Present -> Entry] /\ Present' = Present
          /\ reg'[e].id = id /\ reg'[e].key = reg[e].key
          /\ \A d \in Present : d # e => reg'[d] = reg[d]
      BY <1>2, <2>3, <2>4 DEF Present
    <2>6. \A d \in Present : d # e => reg[d].id # id
      BY <1>2, <2>1 DEF IdTaken
    <2>7. TypeOK'
      BY <1>1, <1>3, <2>1, <2>5, <2>6 DEF TypeOK
    <2>8. KeysApart'
      BY <1>1, <2>5 DEF KeysApart
    <2> QED BY <1>1, <1>3, <2>1, <2>7, <2>8 DEF Inv, FixesDoNotClash
  <1>5. ASSUME NEW r \in Rests, Override(e, <<FALSE, r>>)
        PROVE  Inv'
    <2>1. /\ May("name") /\ Interfere /\ reg' = [reg EXCEPT ![e].override = <<FALSE, r>>]
          /\ UNCHANGED <<excluded, repairs, orphans, doubled, failed>>
      BY <1>5 DEF Override
    <2>2. /\ reg' \in [Present -> Entry]
          /\ \A d \in Present : reg'[d].id = reg[d].id /\ reg'[d].key = reg[d].key
      BY <1>2, <2>1 DEF Entry, Names
    <2> QED BY <1>3, <2>1, <2>2, EditKeeps
  <1>6. ASSUME CacheGoesStale(e)
        PROVE  Inv'
    <2>1. /\ May("cache") /\ Interfere /\ reg' = [reg EXCEPT ![e].stale = TRUE]
          /\ UNCHANGED <<excluded, repairs, orphans, doubled, failed>>
      BY <1>6 DEF CacheGoesStale
    <2>2. /\ reg' \in [Present -> Entry]
          /\ \A d \in Present : reg'[d].id = reg[d].id /\ reg'[d].key = reg[d].key
      BY <1>2, <2>1 DEF Entry
    <2> QED BY <1>3, <2>1, <2>2, EditKeeps
  <1>7. ASSUME Unhide(e)
        PROVE  Inv'
    <2>1. /\ May("unhide") /\ Interfere /\ reg' = [reg EXCEPT ![e].aliased = TRUE]
          /\ UNCHANGED <<excluded, repairs, orphans, doubled, failed>>
      BY <1>7 DEF Unhide
    <2>2. /\ reg' \in [Present -> Entry]
          /\ \A d \in Present : reg'[d].id = reg[d].id /\ reg'[d].key = reg[d].key
      BY <1>2, <2>1 DEF Entry
    <2> QED BY <1>3, <2>1, <2>2, EditKeeps
  <1> QED BY <1>4, <1>5, <1>6, <1>7

\* A registry of distinct ids and keys, and nothing scanned.
LEMMA BeginHolds ==
  ASSUME NEW fleet \in Fleets, NEW ids, NEW names, NEW keys,
         \A e \in fleet : ids[e] \in FirstIds(e) /\ names[e] \in NewNames(e),
         \A d, e \in fleet : ids[d] = ids[e] => d = e,
         \A e \in fleet : keys[e] \in Slugs \cup {None} /\ (e \in Scripts => keys[e] \in Slugs),
         \A s, t \in fleet \cap Scripts : keys[s] = keys[t] => s = t,
         reg = [e \in fleet |->
                  [id |-> ids[e], has |-> names[e].has, original |-> names[e].original,
                   override |-> None, stale |-> FALSE, aliased |-> FALSE, key |-> keys[e]]],
         excluded \subseteq {ids[e] : e \in fleet},
         repairs = {}, since = "hands", seen = <<>>, orphans = {}, doubled = {}, failed = {},
         trouble = MaxTrouble
  PROVE  Inv
  <1>1. fleet \subseteq Entities /\ fleet # {} /\ MaxTrouble \in Nat
    BY DefaultsAssumption
  <1>2. \A e \in fleet : ids[e] \in Ids /\ ids[e][1] = Domain(e)
    BY FirstIdsType
  <1>3. \A e \in fleet : names[e].has \in BOOLEAN /\ names[e].original \in Names
    BY NewNamesType
  <1>4. DOMAIN reg = fleet /\ reg \in [fleet -> Entry]
    BY <1>2, <1>3 DEF Entry
  <1>5. \A e \in fleet : reg[e].id = ids[e] /\ reg[e].key = keys[e]
    OBVIOUS
  <1>6. excluded \subseteq Ids
    BY <1>2
  <1>7. IsFiniteSet(orphans)
    BY FS_EmptySet
  <1>8. TypeOK
    <2>1. /\ \A e \in fleet : reg[e].id[1] = Domain(e)
          /\ \A d, e \in fleet : reg[d].id = reg[e].id => d = e
      BY <1>2, <1>5
    <2>2. orphans \subseteq Ids /\ doubled \subseteq Slugs /\ \A x \in repairs \cup failed : PayloadOK(x)
      OBVIOUS
    <2>3. since \in {"nothing", "fixes", "hands"}
      OBVIOUS
    <2>4. trouble \in 0..MaxTrouble
      BY <1>1
    <2> QED BY <1>1, <1>4, <1>6, <1>7, <2>1, <2>2, <2>3, <2>4 DEF TypeOK, Present
  <1>9. KeysApart
    BY <1>4, <1>5 DEF KeysApart, Present
  <1> QED BY <1>8, <1>9 DEF Inv, FixesDoNotClash

LEMMA InitHolds ==
  ASSUME Init
  PROVE  Inv
  <1> DEFINE IdsOf(fleet)   == {f \in [fleet -> UNION {FirstIds(e) : e \in fleet}] :
                                 \A e \in fleet :
                                   f[e] \in FirstIds(e) /\ \A d \in fleet \ {e} : f[d] # f[e]}
             NamesOf(fleet) == {f \in [fleet -> UNION {NewNames(e) : e \in fleet}] :
                                 \A e \in fleet : f[e] \in NewNames(e)}
             KeysOf(fleet)  == {f \in [fleet -> {Slug(id) : id \in UNION {FirstIds(e) : e \in fleet}}
                                               \cup {None}] :
                                 \A e \in fleet : (f[e] = None) = (e \notin Scripts)}
             Begins(fleet, ids, names, keys) ==
               /\ \A s, t \in fleet \cap Scripts : keys[s] = keys[t] => s = t
               /\ reg = [e \in fleet |->
                           [id |-> ids[e], has |-> names[e].has, original |-> names[e].original,
                            override |-> None, stale |-> FALSE, aliased |-> FALSE, key |-> keys[e]]]
               /\ excluded \in {{}, {ids[CHOOSE e \in fleet : TRUE]}}
               /\ repairs = {} /\ since = "hands" /\ seen = <<>> /\ orphans = {}
               /\ doubled = {} /\ failed = {}
               /\ trouble = MaxTrouble
  <1>1. \E fleet \in Fleets :
          \E ids \in IdsOf(fleet), names \in NamesOf(fleet), keys \in KeysOf(fleet) :
            Begins(fleet, ids, names, keys)
    BY Zenon DEF Init
  <1>2. PICK fleet \in Fleets :
          \E ids \in IdsOf(fleet), names \in NamesOf(fleet), keys \in KeysOf(fleet) :
            Begins(fleet, ids, names, keys)
    BY <1>1, Zenon
  <1>3. PICK ids \in IdsOf(fleet), names \in NamesOf(fleet), keys \in KeysOf(fleet) :
          Begins(fleet, ids, names, keys)
    BY <1>2, Zenon
  <1>4. \A e \in fleet : ids[e] \in FirstIds(e) /\ names[e] \in NewNames(e)
    OBVIOUS
  <1>5. \A d, e \in fleet : ids[d] = ids[e] => d = e
    OBVIOUS
  <1>6. \A e \in fleet : keys[e] \in Slugs \cup {None} /\ (e \in Scripts => keys[e] \in Slugs)
    <2> SUFFICES ASSUME NEW e \in fleet
                 PROVE  keys[e] \in Slugs \cup {None} /\ (e \in Scripts => keys[e] \in Slugs)
      OBVIOUS
    <2>1. /\ keys[e] \in {Slug(id) : id \in UNION {FirstIds(d) : d \in fleet}} \cup {None}
          /\ (keys[e] = None) = (e \notin Scripts)
      OBVIOUS
    <2>2. keys[e] \in Slugs \cup {None}
      BY <2>1, FirstIdsType
    <2> QED BY <2>1, <2>2
  <1>7. /\ \A s, t \in fleet \cap Scripts : keys[s] = keys[t] => s = t
        /\ reg = [e \in fleet |->
                    [id |-> ids[e], has |-> names[e].has, original |-> names[e].original,
                     override |-> None, stale |-> FALSE, aliased |-> FALSE, key |-> keys[e]]]
        /\ repairs = {} /\ since = "hands" /\ seen = <<>> /\ orphans = {}
        /\ doubled = {} /\ failed = {}
        /\ trouble = MaxTrouble
    BY <1>3, Zenon
  <1>8. excluded \subseteq {ids[e] : e \in fleet}
    <2>1. fleet # {}
      BY DefaultsAssumption
    <2>2. PICK e : e = CHOOSE d \in fleet : TRUE
      OBVIOUS
    <2>3. e \in fleet
      BY <2>1, <2>2, Zenon
    <2>4. excluded \in {{}, {ids[e]}}
      BY <1>3, <2>2, Zenon
    <2> QED BY <2>3, <2>4
  <1> HIDE DEF IdsOf, NamesOf, KeysOf, Begins
  <1> QED BY <1>4, <1>5, <1>6, <1>7, <1>8, BeginHolds, Zenon

-----------------------------------------------------------------------------
(* What a scan has in mind.                                                *)

LEMMA NoScriptInDevice ==
  ASSUME NEW s \in Scripts
  PROVE  s \notin ToSet(Device)
  <1> SUFFICES ASSUME s \in ToSet(Device)
               PROVE  FALSE
    OBVIOUS
  <1>1. Device \in Seq(Entities) /\ Others \in Seq(Entities) /\ s \in ToSet(Others)
    BY DefaultsAssumption
  <1>2. PICK i \in DOMAIN Device : Device[i] = s
    BY DEF ToSet
  <1>3. PICK j \in DOMAIN Others : Others[j] = s
    BY <1>1 DEF ToSet
  <1>4. i \in 1..Len(Device) /\ j \in 1..Len(Others) /\ Len(Device) \in Nat /\ Len(Others) \in Nat
    BY <1>1
  <1>5. Len(Order) = Len(Device) + Len(Others)
    BY <1>1 DEF Order
  <1>6. Order[i] = s
    BY <1>1, <1>2, <1>4 DEF Order
  <1>7. Order[Len(Device) + j] = s
    BY <1>1, <1>3, <1>4 DEF Order
  <1>8. i \in Places /\ Len(Device) + j \in Places
    BY <1>4, <1>5 DEF Places
  <1> QED BY <1>4, <1>6, <1>7, <1>8, DefaultsAssumption

LEMMA ScannedCloser ==
  ASSUME TypeOK, OrphansApart, NEW i \in Places, Order[i] \in Present,
         Expected(reg)[i] # reg[Order[i]].id
  PROVE  Closer(Order[i], Expected(reg)[i], reg[Order[i]])
  <1> DEFINE ids == Expected(reg)
             e   == Order[i]
  <1>1. GivenOut(reg, Len(Order), ids)
    BY TypeGivesRegistry, ExpectedIsGivenOut
  <1> HIDE DEF ids
  <1>2. i \in 1..Len(Order) /\ e \in DOMAIN reg /\ ids[i] # reg[e].id
    BY DEF Places, Present, ids
  <1>3. ~Keeps(reg, e)
    BY <1>1, <1>2 DEF GivenOut
  <1>4. /\ ids[i] \in Ids /\ ids[i][1] = Domain(e) /\ ids[i][2] = Name(reg[e])
        /\ reg[e].id[2] = Name(reg[e]) /\ ~IdTaken(reg, e, reg[e].id) => ids[i][3] <= reg[e].id[3]
    BY <1>1, <1>2, <1>3 DEF GivenOut
  <1>5. ~IdTaken(reg, e, reg[e].id)
    BY <1>2 DEF IdTaken, OrphansApart, TypeOK, Present
  <1>6. reg[e].id \in Ids /\ reg[e].id[1] = Domain(e)
    BY <1>2 DEF TypeOK, Entry, Present
  <1> HIDE DEF e
  <1>7. ASSUME reg[e].id[2] = Name(reg[e])
        PROVE  ids[i][3] < reg[e].id[3]
    <2>1. ids[i][3] <= reg[e].id[3] /\ ids[i][3] \in Nat /\ reg[e].id[3] \in Nat
      BY <1>4, <1>5, <1>6, <1>7 DEF Ids
    <2>2. /\ ids[i] = <<ids[i][1], ids[i][2], ids[i][3]>>
          /\ reg[e].id = <<reg[e].id[1], reg[e].id[2], reg[e].id[3]>>
      BY <1>4, <1>6 DEF Ids
    <2>3. ids[i][3] # reg[e].id[3]
      BY <1>2, <1>4, <1>6, <1>7, <2>2
    <2> QED BY <2>1, <2>3
  <1> QED BY <1>4, <1>7 DEF Closer, ids, e

LEMMA ScannedIsPlanned ==
  ASSUME TypeOK, OrphansApart, NEW x \in Scanned(reg)
  PROVE  Planned(reg, x)
  <1> DEFINE ids == Expected(reg)
  <1>1. CASE x.kind = "id"
    <2>1. /\ DOMAIN x.renames \subseteq Places /\ DOMAIN x.renames # {}
          /\ \A i \in DOMAIN x.renames :
               /\ Order[i] \in Present /\ ids[i] # reg[Order[i]].id
               /\ x.renames[i] = <<reg[Order[i]].id, ids[i]>>
      BY <1>1, ScannedRenames DEF Present
    <2>2. \A i \in DOMAIN x.renames :
            Closer(Order[i], ids[i], reg[Order[i]]) /\ At(reg, ids[i]) = {}
      BY <2>1, ScannedTargets, ScannedCloser
    <2> HIDE DEF ids
    <2> QED BY <1>1, <2>1, <2>2 DEF Planned, Present
  <1>2. CASE x \in DeviceRepairs(reg, ids) /\ x.kind # "id"
    <2> DEFINE named == {e \in ToSet(Device) \cap Present : NameDrifted(e, reg[e])}
               names == [kind |-> "name",
                         targets |-> {<<reg[e].id, Recommended(e, reg[e])>> : e \in named}]
    <2>1. \/ \E places : x = IdRepair(reg, ids, places)
          \/ x \in {y \in {names} : named # {}}
      BY <1>2, Zenon DEF DeviceRepairs, Present
    <2>2. x = names /\ named # {}
      BY <1>2, <2>1 DEF IdRepair
    <2>3. /\ x.kind = "name" /\ x.targets # {}
          /\ \A p \in x.targets : \E e \in named : p = <<reg[e].id, Recommended(e, reg[e])>>
      BY <2>2
    <2>4. \A e \in named : e \in DOMAIN reg /\ reg[e].override # Recommended(e, reg[e])
      BY DEF Present, NameDrifted, NamePending, Name
    <2> HIDE DEF named
    <2> QED BY <2>3, <2>4 DEF Planned
  <1>3. CASE x \in CachedRepairs(reg)
    <2>1. x = [kind |-> "cached", ids |-> {reg[e].id : e \in CachedFound(reg)}] /\ x.ids # {}
      BY <1>3 DEF CachedRepairs
    <2>2. \A e \in CachedFound(reg) : e \in DOMAIN reg /\ reg[e].stale
      BY DEF CachedFound, Stale
    <2> QED BY <2>1, <2>2 DEF Planned
  <1>4. CASE x \in AliasedRepairs(reg)
    <2>1. PICK e \in DOMAIN reg : reg[e].aliased /\ x = [kind |-> "aliased", id |-> reg[e].id]
      BY <1>4 DEF AliasedRepairs, AliasedFound, ShowsTwice
    <2> QED BY <2>1 DEF Planned
  <1>5. CASE x \in DevicelessRepairs(reg, ids)
    <2>1. PICK i \in Places : x = IdRepair(reg, ids, {i})
      BY <1>5 DEF DevicelessRepairs
    <2>2. x.kind = "id"
      BY <2>1 DEF IdRepair
    <2> QED BY <1>1, <2>2
  <1>6. CASE x \in KeyRepairs(reg)
    <2>1. PICK s \in Scripts \cap DOMAIN reg :
            /\ reg[s].key # Slug(reg[s].id)
            /\ x = [kind |-> "key", id |-> reg[s].id, old |-> reg[s].key, new |-> Slug(reg[s].id)]
      BY <1>6 DEF KeyRepairs, KeyDrifted
    <2> QED BY <2>1 DEF Planned
  <1> QED BY <1>1, <1>2, <1>3, <1>4, <1>5, <1>6 DEF Scanned

LEMMA ScanProgress ==
  ASSUME Inv, Progress, Scan
  PROVE  Progress'
  <1>1. TypeOK /\ OrphansApart
    BY DEF Inv, Progress
  <1>2. /\ since' = "nothing" /\ seen' = reg /\ repairs' = Scanned(reg)
        /\ UNCHANGED <<reg, orphans>> /\ Present' = Present
    BY DEF Scan, Present
  <1>3. OrphansApart'
    BY <1>1, <1>2 DEF OrphansApart
  <1>4. seen' \in [Present' -> Entry] /\ IdsApart(seen')
    BY <1>1, <1>2, TypeGivesRegistry DEF TypeOK
  <1>5. \A e \in Present' :
          /\ Improved(e, reg'[e], seen'[e])
          /\ reg'[e].id # seen'[e].id => At(seen', reg'[e].id) = {}
    BY <1>2 DEF Improved
  <1>6. ASSUME NEW x \in repairs'
        PROVE  /\ Planned(seen', x)
               /\ x.kind = "key" =>
                    \A s \in Scripts \cap Present' : x.id = seen'[s].id => reg'[s].key = x.old
    <2>1. x \in Scanned(reg)
      BY <1>2
    <2>2. Planned(reg, x)
      BY <1>1, <2>1, ScannedIsPlanned
    <2>3. x.kind = "key" =>
            \A s \in Scripts \cap Present : x.id = reg[s].id => reg[s].key = x.old
      BY <1>1, <2>1, ScannedKeys DEF TypeOK, Present
    <2> QED BY <1>2, <2>2, <2>3
  <1>7. FixesShow'
    BY <1>2 DEF FixesShow
  <1>8. SawRegistry'
    BY <1>4 DEF SawRegistry
  <1>9. AllImproved'
    BY <1>5 DEF AllImproved
  <1>10. AllPlanned'
    BY <1>6 DEF AllPlanned
  <1> QED BY <1>3, <1>7, <1>8, <1>9, <1>10 DEF Progress, SinceScan
-----------------------------------------------------------------------------
(* The fixes improve what the scan saw.                                    *)

\* Who has an id that the scan saw had it then.
LEMMA HolderIsOld ==
  ASSUME SawRegistry, AllImproved, NEW e \in Present, NEW d \in Present,
         reg[e].id = seen[d].id
  PROVE  e = d
  <1>1. DOMAIN seen = Present
    BY DEF SawRegistry
  <1>2. At(seen, reg[e].id) # {}
    BY <1>1 DEF At
  <1>3. seen[e].id = seen[d].id
    BY <1>2 DEF AllImproved
  <1> QED BY <1>1, <1>3 DEF SawRegistry, IdsApart

\* Nothing has to be shown after hands or a loss.
LEMMA BrokenStays ==
  ASSUME Progress, ~Whole, OrphansApart', Present' = Present, seen' = seen,
         since' = IF since = "hands" THEN "hands" ELSE "fixes"
  PROVE  Progress'
  <1>1. CASE since = "hands"
    BY <1>1 DEF Progress, Whole
  <1>2. CASE since # "hands"
    <2>1. ScriptLost
      BY <1>2 DEF Whole
    <2>2. ScriptLost'
      BY <1>2, <2>1 DEF ScriptLost
    <2> QED BY <2>2 DEF Progress, Whole
  <1> QED BY <1>1, <1>2

\* What a submit has to show.
LEMMA SubmitProgress ==
  ASSUME Inv, Progress, Whole, reg' \in [Present -> Entry], OrphansApart',
         seen' = seen, since' = "fixes", repairs' \subseteq repairs,
         \A e \in Present :
           /\ Improved(e, reg'[e], seen[e])
           /\ reg'[e].id # seen[e].id => At(seen, reg'[e].id) = {},
         \A x \in repairs' : x.kind = "key" =>
           \A s \in Scripts \cap Present : x.id = seen[s].id => reg'[s].key = reg[s].key,
         reg = seen => \E e \in Present : reg'[e] # seen[e],
         \A e \in Present : reg[e] # seen[e] => reg'[e] # seen[e]
  PROVE  Progress'
  <1>1. Present' = Present
    BY DEF Present
  <1>2. SawRegistry /\ AllPlanned /\ reg \in [Present -> Entry]
    BY DEF Progress, SinceScan, Inv, TypeOK
  <1>3. SawRegistry'
    BY <1>1, <1>2 DEF SawRegistry
  <1>4. AllImproved'
    BY <1>1 DEF AllImproved
  <1>5. AllPlanned'
    BY <1>1, <1>2 DEF AllPlanned
  <1>6. reg' # seen'
    <2>1. CASE reg = seen
      BY <2>1
    <2>2. CASE reg # seen
      <3>1. PICK e \in Present : reg[e] # seen[e]
        BY <1>2, <2>2 DEF SawRegistry
      <3> QED BY <3>1
    <2> QED BY <2>1, <2>2
  <1>7. FixesShow'
    BY <1>6 DEF FixesShow
  <1> QED BY <1>3, <1>4, <1>5, <1>7 DEF Progress, SinceScan

\* A submit that changes no id and no key.
LEMMA EditProgress ==
  ASSUME Inv, Progress, reg' \in [Present -> Entry], repairs' \subseteq repairs,
         seen' = seen, orphans' = orphans,
         since' = IF since = "hands" THEN "hands" ELSE "fixes",
         \A e \in Present :
           /\ reg'[e].id = reg[e].id /\ reg'[e].key = reg[e].key
           /\ reg'[e].has = reg[e].has /\ reg'[e].original = reg[e].original,
         Whole => \A e \in Present :
           /\ reg'[e].stale => seen[e].stale
           /\ reg'[e].aliased => seen[e].aliased
           /\ reg'[e].override # seen[e].override =>
                reg'[e].override = Recommended(e, seen[e])
           /\ reg'[e] # reg[e] => reg'[e] # seen[e],
         Whole /\ reg = seen => \E e \in Present : reg'[e] # reg[e]
  PROVE  Progress'
  <1>1. OrphansApart'
    BY DEF Progress, OrphansApart, Present
  <1>2. CASE ~Whole
    BY <1>1, <1>2, BrokenStays DEF Present
  <1>3. CASE Whole
    <2>1. AllImproved
      BY <1>3 DEF Progress, SinceScan
    <2>2. \A e \in Present :
            /\ Improved(e, reg'[e], seen[e])
            /\ reg'[e].id # seen[e].id => At(seen, reg'[e].id) = {}
      BY <1>3, <2>1 DEF AllImproved, Improved
    <2>3. \A e \in Present : reg[e] # seen[e] => reg'[e] # seen[e]
      BY <1>3
    <2>4. reg = seen => \E e \in Present : reg'[e] # seen[e]
      BY <1>3
    <2>5. \A x \in repairs' : x.kind = "key" =>
            \A s \in Scripts \cap Present : x.id = seen[s].id => reg'[s].key = reg[s].key
      OBVIOUS
    <2>6. since' = "fixes"
      BY <1>3 DEF Whole
    <2> QED BY <1>1, <1>3, <2>2, <2>3, <2>4, <2>5, <2>6, SubmitProgress
  <1> QED BY <1>2, <1>3

LEMMA FixNameProgress ==
  ASSUME Inv, Progress, NEW x \in repairs, FixNameDrift(x)
  PROVE  Progress'
  <1> DEFINE Chosen(e) == {p \in x.targets : p[1] = reg[e].id}
             chosen(e) == CHOOSE p \in Chosen(e) : TRUE
  <1>1. /\ x.kind = "name" /\ orphans' = orphans
        /\ reg' = [e \in Present |->
                     IF Chosen(e) = {} THEN reg[e] ELSE [reg[e] EXCEPT !.override = chosen(e)[2]]]
        /\ repairs' \subseteq repairs /\ seen' = seen
        /\ since' = IF since = "hands" THEN "hands" ELSE "fixes"
    BY DEF FixNameDrift, Settle
  <1>2. \A e \in Present : Chosen(e) # {} => chosen(e) \in x.targets /\ chosen(e)[1] = reg[e].id
    OBVIOUS
  <1>3. \A p \in x.targets : p[1] \in Ids /\ p[2] \in Names \cup {None}
    BY <1>1 DEF Inv, TypeOK, PayloadOK
  <1>4. reg \in [Present -> Entry]
    BY DEF Inv, TypeOK
  <1>5. x.targets # {} => \A p \in x.targets, e \in Present : p[1] = reg[e].id => Chosen(e) # {}
    OBVIOUS
  <1> HIDE DEF Chosen, chosen
  <1>6. \A e \in Present :
          /\ reg'[e] \in Entry
          /\ reg'[e].id = reg[e].id /\ reg'[e].key = reg[e].key
          /\ reg'[e].has = reg[e].has /\ reg'[e].original = reg[e].original
          /\ reg'[e].stale = reg[e].stale /\ reg'[e].aliased = reg[e].aliased
          /\ Chosen(e) = {} => reg'[e] = reg[e]
          /\ Chosen(e) # {} => reg'[e].override = chosen(e)[2]
    <2> SUFFICES ASSUME NEW e \in Present
                 PROVE  /\ reg'[e] \in Entry
                        /\ reg'[e].id = reg[e].id /\ reg'[e].key = reg[e].key
                        /\ reg'[e].has = reg[e].has /\ reg'[e].original = reg[e].original
                        /\ reg'[e].stale = reg[e].stale /\ reg'[e].aliased = reg[e].aliased
                        /\ Chosen(e) = {} => reg'[e] = reg[e]
                        /\ Chosen(e) # {} => reg'[e].override = chosen(e)[2]
      OBVIOUS
    <2>1. reg[e] \in Entry
      BY <1>4
    <2> QED BY <1>1, <1>2, <1>3, <2>1 DEF Entry
  <1>7. reg' \in [Present -> Entry]
    BY <1>1, <1>6
  <1>8. ASSUME Whole
        PROVE  /\ \A e \in Present : Chosen(e) # {} =>
                    /\ reg'[e].override = Recommended(e, seen[e])
                    /\ reg'[e].override # seen[e].override
               /\ \E e \in Present : Chosen(e) # {} \/ reg # seen
    <2>1. SawRegistry /\ AllImproved /\ DOMAIN seen = Present
      BY <1>8 DEF Progress, SinceScan, SawRegistry
    <2>2. /\ x.targets # {}
          /\ \A p \in x.targets : \E e \in Present :
               /\ p[1] = seen[e].id /\ p[2] = Recommended(e, seen[e])
               /\ seen[e].override # Recommended(e, seen[e])
      BY <1>1, <1>8, <2>1 DEF Progress, SinceScan, AllPlanned, Planned
    <2>3. ASSUME NEW e \in Present, Chosen(e) # {}
          PROVE  /\ reg'[e].override = Recommended(e, seen[e])
                 /\ reg'[e].override # seen[e].override
      <3>1. chosen(e) \in x.targets /\ chosen(e)[1] = reg[e].id
        BY <1>2, <2>3
      <3>2. PICK d \in Present :
              /\ chosen(e)[1] = seen[d].id /\ chosen(e)[2] = Recommended(d, seen[d])
              /\ seen[d].override # Recommended(d, seen[d])
        BY <2>2, <3>1
      <3>3. d = e
        BY <2>1, <3>1, <3>2, HolderIsOld
      <3> QED BY <1>6, <2>3, <3>2, <3>3
    <2>4. \E e \in Present : Chosen(e) # {} \/ reg # seen
      <3>1. PICK p \in x.targets : TRUE
        BY <2>2
      <3>2. PICK e \in Present : p[1] = seen[e].id
        BY <2>2, <3>1
      <3> QED BY <1>5, <2>2, <3>1, <3>2
    <2> QED BY <2>3, <2>4
  <1>9. Whole => \A e \in Present :
          /\ reg'[e].stale => seen[e].stale
          /\ reg'[e].aliased => seen[e].aliased
          /\ reg'[e].override # seen[e].override =>
               reg'[e].override = Recommended(e, seen[e])
          /\ reg'[e] # reg[e] => reg'[e] # seen[e]
    <2> SUFFICES ASSUME Whole, NEW e \in Present
                 PROVE  /\ reg'[e].stale => seen[e].stale
                        /\ reg'[e].aliased => seen[e].aliased
                        /\ reg'[e].override # seen[e].override =>
                             reg'[e].override = Recommended(e, seen[e])
                        /\ reg'[e] # reg[e] => reg'[e] # seen[e]
      OBVIOUS
    <2>1. Improved(e, reg[e], seen[e])
      BY DEF Progress, SinceScan, AllImproved
    <2> QED BY <1>6, <1>8, <2>1 DEF Improved
  <1>10. Whole /\ reg = seen => \E e \in Present : reg'[e] # reg[e]
    BY <1>8
  <1>11. \A e \in Present :
           /\ reg'[e].id = reg[e].id /\ reg'[e].key = reg[e].key
           /\ reg'[e].has = reg[e].has /\ reg'[e].original = reg[e].original
    BY <1>6
  <1> QED BY <1>1, <1>7, <1>9, <1>10, <1>11, EditProgress

LEMMA FixCachedProgress ==
  ASSUME Inv, Progress, NEW x \in repairs, FixCachedName(x)
  PROVE  Progress'
  <1>1. /\ x.kind = "cached" /\ orphans' = orphans
        /\ reg' = [e \in Present |->
                     IF reg[e].id \in x.ids THEN [reg[e] EXCEPT !.stale = FALSE] ELSE reg[e]]
        /\ repairs' \subseteq repairs /\ seen' = seen
        /\ since' = IF since = "hands" THEN "hands" ELSE "fixes"
    BY DEF FixCachedName, Settle
  <1>2. reg \in [Present -> Entry]
    BY DEF Inv, TypeOK
  <1>3. \A e \in Present :
          /\ reg'[e] \in Entry
          /\ reg'[e].id = reg[e].id /\ reg'[e].key = reg[e].key
          /\ reg'[e].has = reg[e].has /\ reg'[e].original = reg[e].original
          /\ reg'[e].override = reg[e].override /\ reg'[e].aliased = reg[e].aliased
          /\ reg[e].id \notin x.ids => reg'[e] = reg[e]
          /\ reg[e].id \in x.ids => ~reg'[e].stale
    <2> SUFFICES ASSUME NEW e \in Present
                 PROVE  /\ reg'[e] \in Entry
                        /\ reg'[e].id = reg[e].id /\ reg'[e].key = reg[e].key
                        /\ reg'[e].has = reg[e].has /\ reg'[e].original = reg[e].original
                        /\ reg'[e].override = reg[e].override /\ reg'[e].aliased = reg[e].aliased
                        /\ reg[e].id \notin x.ids => reg'[e] = reg[e]
                        /\ reg[e].id \in x.ids => ~reg'[e].stale
      OBVIOUS
    <2>1. reg[e] \in Entry
      BY <1>2
    <2> QED BY <1>1, <2>1 DEF Entry
  <1>4. reg' \in [Present -> Entry]
    BY <1>1, <1>3
  <1>5. ASSUME Whole
        PROVE  /\ \A e \in Present : reg[e].id \in x.ids => seen[e].stale
               /\ reg = seen => \E e \in Present : reg[e].id \in x.ids
    <2>1. SawRegistry /\ AllImproved /\ DOMAIN seen = Present
      BY <1>5 DEF Progress, SinceScan, SawRegistry
    <2>2. x.ids # {} /\ \A id \in x.ids : \E e \in Present : id = seen[e].id /\ seen[e].stale
      BY <1>1, <1>5, <2>1 DEF Progress, SinceScan, AllPlanned, Planned
    <2>3. ASSUME NEW e \in Present, reg[e].id \in x.ids
          PROVE  seen[e].stale
      <3>1. PICK d \in Present : reg[e].id = seen[d].id /\ seen[d].stale
        BY <2>2, <2>3
      <3> QED BY <2>1, <3>1, HolderIsOld
    <2> QED BY <2>2, <2>3
  <1>6. Whole => \A e \in Present :
          /\ reg'[e].stale => seen[e].stale
          /\ reg'[e].aliased => seen[e].aliased
          /\ reg'[e].override # seen[e].override =>
               reg'[e].override = Recommended(e, seen[e])
          /\ reg'[e] # reg[e] => reg'[e] # seen[e]
    <2> SUFFICES ASSUME Whole, NEW e \in Present
                 PROVE  /\ reg'[e].stale => seen[e].stale
                        /\ reg'[e].aliased => seen[e].aliased
                        /\ reg'[e].override # seen[e].override =>
                             reg'[e].override = Recommended(e, seen[e])
                        /\ reg'[e] # reg[e] => reg'[e] # seen[e]
      OBVIOUS
    <2>1. Improved(e, reg[e], seen[e])
      BY DEF Progress, SinceScan, AllImproved
    <2> QED BY <1>3, <1>5, <2>1 DEF Improved
  <1>7. Whole /\ reg = seen => \E e \in Present : reg'[e] # reg[e]
    BY <1>3, <1>5
  <1>8. \A e \in Present :
          /\ reg'[e].id = reg[e].id /\ reg'[e].key = reg[e].key
          /\ reg'[e].has = reg[e].has /\ reg'[e].original = reg[e].original
    BY <1>3
  <1> QED BY <1>1, <1>4, <1>6, <1>7, <1>8, EditProgress

LEMMA FixAliasedProgress ==
  ASSUME Inv, Progress, NEW x \in repairs, FixVisibleAliased(x)
  PROVE  Progress'
  <1>1. /\ x.kind = "aliased" /\ orphans' = orphans
        /\ reg' = [e \in Present |->
                     IF reg[e].id = x.id THEN [reg[e] EXCEPT !.aliased = FALSE] ELSE reg[e]]
        /\ repairs' \subseteq repairs /\ seen' = seen
        /\ since' = IF since = "hands" THEN "hands" ELSE "fixes"
    BY DEF FixVisibleAliased, Settle
  <1>2. reg \in [Present -> Entry]
    BY DEF Inv, TypeOK
  <1>3. \A e \in Present :
          /\ reg'[e] \in Entry
          /\ reg'[e].id = reg[e].id /\ reg'[e].key = reg[e].key
          /\ reg'[e].has = reg[e].has /\ reg'[e].original = reg[e].original
          /\ reg'[e].override = reg[e].override /\ reg'[e].stale = reg[e].stale
          /\ reg[e].id # x.id => reg'[e] = reg[e]
          /\ reg[e].id = x.id => ~reg'[e].aliased
    <2> SUFFICES ASSUME NEW e \in Present
                 PROVE  /\ reg'[e] \in Entry
                        /\ reg'[e].id = reg[e].id /\ reg'[e].key = reg[e].key
                        /\ reg'[e].has = reg[e].has /\ reg'[e].original = reg[e].original
                        /\ reg'[e].override = reg[e].override /\ reg'[e].stale = reg[e].stale
                        /\ reg[e].id # x.id => reg'[e] = reg[e]
                        /\ reg[e].id = x.id => ~reg'[e].aliased
      OBVIOUS
    <2>1. reg[e] \in Entry
      BY <1>2
    <2> QED BY <1>1, <2>1 DEF Entry
  <1>4. reg' \in [Present -> Entry]
    BY <1>1, <1>3
  <1>5. ASSUME Whole
        PROVE  /\ \A e \in Present : reg[e].id = x.id => seen[e].aliased
               /\ reg = seen => \E e \in Present : reg[e].id = x.id
    <2>1. SawRegistry /\ AllImproved /\ DOMAIN seen = Present
      BY <1>5 DEF Progress, SinceScan, SawRegistry
    <2>2. PICK d \in Present : x.id = seen[d].id /\ seen[d].aliased
      BY <1>1, <1>5, <2>1 DEF Progress, SinceScan, AllPlanned, Planned
    <2>3. \A e \in Present : reg[e].id = x.id => e = d
      BY <2>1, <2>2, HolderIsOld
    <2> QED BY <2>2, <2>3
  <1>6. Whole => \A e \in Present :
          /\ reg'[e].stale => seen[e].stale
          /\ reg'[e].aliased => seen[e].aliased
          /\ reg'[e].override # seen[e].override =>
               reg'[e].override = Recommended(e, seen[e])
          /\ reg'[e] # reg[e] => reg'[e] # seen[e]
    <2> SUFFICES ASSUME Whole, NEW e \in Present
                 PROVE  /\ reg'[e].stale => seen[e].stale
                        /\ reg'[e].aliased => seen[e].aliased
                        /\ reg'[e].override # seen[e].override =>
                             reg'[e].override = Recommended(e, seen[e])
                        /\ reg'[e] # reg[e] => reg'[e] # seen[e]
      OBVIOUS
    <2>1. Improved(e, reg[e], seen[e])
      BY DEF Progress, SinceScan, AllImproved
    <2> QED BY <1>3, <1>5, <2>1 DEF Improved
  <1>7. Whole /\ reg = seen => \E e \in Present : reg'[e] # reg[e]
    BY <1>3, <1>5
  <1>8. \A e \in Present :
          /\ reg'[e].id = reg[e].id /\ reg'[e].key = reg[e].key
          /\ reg'[e].has = reg[e].has /\ reg'[e].original = reg[e].original
    BY <1>3
  <1> QED BY <1>1, <1>4, <1>6, <1>7, <1>8, EditProgress

LEMMA FixScriptKeyProgress ==
  ASSUME Inv, Progress, NEW x \in repairs, NEW s \in Scripts, FixScriptKey(x, s)
  PROVE  Progress'
  <1>1. TypeOK /\ OrphansApart
    BY DEF Inv, Progress
  <1>2. /\ x.kind = "key" /\ Keyed(x.old) = {s}
        /\ reg[s].id = x.id \/ At(reg, x.id) = {}
        /\ orphans' = (orphans \cup {reg[s].id}) \ {x.id}
        /\ reg' = [reg EXCEPT ![s].key = x.new, ![s].override = None, ![s].id = x.id]
        /\ repairs' = repairs \ {x} /\ seen' = seen
        /\ since' = IF since = "hands" THEN "hands" ELSE "fixes"
    BY DEF FixScriptKey, Rewrites, Settle
  <1>3. x.id \in Ids /\ x.new \in Slugs
    BY <1>1, <1>2 DEF TypeOK, PayloadOK
  <1>4. /\ s \in Present /\ reg[s] \in Entry /\ reg[s].key = x.old
        /\ reg \in [Present -> Entry]
    <2>1. s \in Present /\ reg[s].key = x.old
      BY <1>2 DEF Keyed
    <2> QED BY <1>1, <2>1 DEF TypeOK
  <1> DEFINE entry == [reg[s] EXCEPT !.key = x.new, !.override = None, !.id = x.id]
  <1>5. /\ entry \in Entry /\ entry.key = x.new /\ entry.override = None /\ entry.id = x.id
        /\ entry.has = reg[s].has /\ entry.original = reg[s].original
        /\ entry.stale = reg[s].stale /\ entry.aliased = reg[s].aliased
    BY <1>3, <1>4 DEF Entry
  <1>6. reg' = [reg EXCEPT ![s] = entry]
    BY <1>2, <1>4
  <1> HIDE DEF entry
  <1>7. /\ reg' \in [Present -> Entry] /\ Present' = Present /\ reg'[s] = entry
        /\ \A e \in Present : e # s => reg'[e] = reg[e]
    BY <1>4, <1>5, <1>6 DEF Present
  <1>8. OrphansApart'
    <2> SUFFICES ASSUME NEW e \in Present
                 PROVE  reg'[e].id \notin orphans'
      BY <1>7 DEF OrphansApart
    <2>1. CASE e = s
      BY <1>2, <1>5, <1>7, <2>1
    <2>2. CASE e # s
      <3>1. reg[e].id # reg[s].id /\ reg[e].id \notin orphans
        BY <1>1, <1>4, <2>2 DEF TypeOK, OrphansApart
      <3> QED BY <1>2, <1>7, <2>2, <3>1
    <2> QED BY <2>1, <2>2
  <1>9. CASE ~Whole
    BY <1>2, <1>7, <1>8, <1>9, BrokenStays
  <1>10. CASE Whole
    <2>1. SawRegistry /\ AllImproved /\ AllPlanned /\ DOMAIN seen = Present
      BY <1>10 DEF Progress, SinceScan, SawRegistry
    <2>2. PICK d \in Scripts \cap Present :
            x.id = seen[d].id /\ x.old = seen[d].key /\ x.new = Slug(seen[d].id) /\ x.old # x.new
      BY <1>2, <2>1 DEF AllPlanned, Planned
    <2>3. reg[d].key = x.old
      BY <1>2, <2>1, <2>2 DEF AllPlanned
    <2>4. d = s
      BY <1>2, <2>2, <2>3 DEF Keyed
    <2>5. Recommended(s, seen[s]) = None
      BY NoScriptInDevice DEF Recommended
    <2>6. Improved(s, entry, seen[s])
      <3>1. Improved(s, reg[s], seen[s])
        BY <1>4, <2>1 DEF AllImproved
      <3> QED BY <1>5, <2>2, <2>4, <2>5, <3>1 DEF Improved
    <2>7. \A e \in Present :
            /\ Improved(e, reg'[e], seen[e])
            /\ reg'[e].id # seen[e].id => At(seen, reg'[e].id) = {}
      BY <1>5, <1>7, <2>1, <2>2, <2>4, <2>6 DEF AllImproved
    <2>8. ASSUME NEW y \in repairs', y.kind = "key", NEW t \in Scripts \cap Present, y.id = seen[t].id
          PROVE  reg'[t].key = reg[t].key
      <3>1. t # s
        <4> SUFFICES ASSUME t = s
                     PROVE  FALSE
          OBVIOUS
        <4>1. y \in repairs /\ y # x
          BY <1>2, <2>8
        <4>2. y.old = reg[s].key
          BY <2>1, <2>8, <4>1 DEF AllPlanned
        <4>3. FreshOf(repairs)
          BY <1>10 DEF Inv, Whole
        <4> QED BY <1>2, <1>4, <2>8, <4>1, <4>2, <4>3 DEF FreshOf
      <3> QED BY <1>7, <3>1
    <2>9. reg'[s] # seen[s]
      BY <1>5, <1>7, <2>2, <2>4
    <2>10. \A e \in Present : reg[e] # seen[e] => reg'[e] # seen[e]
      BY <1>7, <2>9
    <2>11. since' = "fixes" /\ repairs' \subseteq repairs
      BY <1>2, <1>10 DEF Whole
    <2> QED BY <1>2, <1>4, <1>7, <1>8, <1>10, <2>7, <2>8, <2>9, <2>10, <2>11, SubmitProgress
  <1> QED BY <1>9, <1>10

LEMMA FixScriptKeyLosesProgress ==
  ASSUME Inv, Progress, NEW x \in repairs, NEW s \in Scripts, NEW t \in Scripts, NEW w \in Scripts,
         FixScriptKeyLoses(x, s, t, w)
  PROVE  Progress'
  <1>1. TypeOK /\ OrphansApart
    BY DEF Inv, Progress
  <1>2. /\ x.kind = "key" /\ Keyed(x.old) = {s}
        /\ s \in Present /\ t \in Present /\ w \in {s, t} /\ reg[s].key = x.old /\ reg[t].key = x.new
        /\ Present' = Present \ ({s, t} \ {w}) /\ reg'[w].id = x.id
        /\ \A e \in Present' : e # w => e # s /\ e # t /\ reg'[e] = reg[e]
        /\ orphans' = (orphans \cup {reg[s].id}) \ {x.id} /\ Settle(x, TRUE)
    <2>1. LoseEffects(x, s, t, w)
      BY <1>1, LosesEffect
    <2> QED BY <2>1 DEF LoseEffects
  <1>3. /\ seen' = seen /\ since' = IF since = "hands" THEN "hands" ELSE "fixes"
    BY <1>2 DEF Settle
  <1>4. OrphansApart'
    <2> SUFFICES ASSUME NEW e \in Present'
                 PROVE  reg'[e].id \notin orphans'
      BY DEF OrphansApart
    <2>1. CASE e = w
      BY <1>2, <2>1
    <2>2. CASE e # w
      <3>1. e \in Present /\ reg[e].id # reg[s].id /\ reg[e].id \notin orphans
        BY <1>1, <1>2, <2>2 DEF TypeOK, OrphansApart
      <3> QED BY <1>2, <2>2, <3>1
    <2> QED BY <2>1, <2>2
  <1>5. CASE since = "hands"
    BY <1>3, <1>4, <1>5 DEF Progress, Whole
  <1>6. CASE since # "hands"
    <2>1. Present \subseteq DOMAIN seen
      BY <1>6 DEF Progress, Whole, ScriptLost, SinceScan, SawRegistry
    <2>2. s # t
      <3>1. PayloadOK(x)
        BY <1>1 DEF TypeOK
      <3> QED BY <1>2, <3>1 DEF PayloadOK
    <2>3. Present' \subseteq DOMAIN seen' /\ Present' # DOMAIN seen'
      BY <1>2, <1>3, <2>1, <2>2
    <2>4. ScriptLost'
      BY <1>3, <1>6, <2>3 DEF ScriptLost
    <2> QED BY <1>4, <2>4 DEF Progress, Whole
  <1> QED BY <1>5, <1>6

LEMMA FixIdProgress ==
  ASSUME Inv, Progress, NEW x \in repairs, FixIdDrift(x)
  PROVE  Progress'
  <1> DEFINE done    == Renamed(reg, x.renames)
             renames == x.renames
  <1>1. TypeOK /\ OrphansApart
    BY DEF Inv, Progress
  <1>2. /\ x.kind = "id" /\ reg' = done.reg /\ Settle(x, done.ok) /\ orphans' = orphans
    BY DEF FixIdDrift
  <1>3. reg \in [Present -> Entry] /\ Present = DOMAIN reg /\ IdsApart(reg)
    BY <1>1, TypeGivesRegistry DEF TypeOK, Present
  <1>4. RenamesOK(renames)
    BY <1>1, <1>2 DEF TypeOK, PayloadOK, RenamesOK
  <1>5. /\ Along(reg, renames, Len(Order), done)
        /\ Onward(renames) => Moved(reg, renames, Len(Order), done)
    BY <1>3, <1>4, RenamedAlong
  <1>7. /\ seen' = seen /\ repairs' \subseteq repairs /\ (since # "hands" => done.ok)
        /\ since' = IF since = "hands" THEN "hands" ELSE "fixes"
    <2>1. since # "hands" => done.ok
      BY <1>2, <1>3, <1>4, RenamesSucceed
    <2> QED BY <1>2, <2>1 DEF Settle
  <1> HIDE DEF done
  <1>8. /\ reg' \in [Present -> Entry] /\ Present' = Present
        /\ \A e \in Present :
             /\ reg'[e] = [reg[e] EXCEPT !.id = reg'[e].id]
             /\ reg'[e].id # reg[e].id => reg'[e].id \notin orphans
    BY <1>2, <1>3, <1>5 DEF Along, Present
  <1>9. OrphansApart'
    BY <1>1, <1>2, <1>8 DEF OrphansApart
  <1>10. CASE ~Whole
    BY <1>7, <1>8, <1>9, <1>10, BrokenStays
  <1>11. CASE Whole
    <2>1. SawRegistry /\ AllImproved /\ AllPlanned /\ DOMAIN seen = Present
      BY <1>11 DEF Progress, SinceScan, SawRegistry
    <2>2. /\ DOMAIN renames # {}
          /\ \A i \in DOMAIN renames :
               /\ Order[i] \in Present /\ renames[i][1] = seen[Order[i]].id
               /\ Closer(Order[i], renames[i][2], seen[Order[i]])
               /\ At(seen, renames[i][2]) = {}
      BY <1>2, <2>1 DEF AllPlanned, Planned
    <2>3. Onward(renames)
      BY <2>1, <2>2 DEF Onward, At
    <2>4. \A i \in DOMAIN renames : i <= Len(Order)
      BY <1>4, OrderType DEF RenamesOK, Places
    <2>5. /\ \A e \in Present : reg'[e].id # reg[e].id =>
               \E i \in DOMAIN renames : renames[i] = <<reg[e].id, reg'[e].id>>
          /\ \A i \in DOMAIN renames : At(reg', renames[i][1]) = {}
      BY <1>2, <1>3, <1>5, <1>7, <1>11, <2>3, <2>4 DEF Moved, Whole
    <2> HIDE DEF renames
    <2>6. ASSUME NEW e \in Present, reg'[e].id # reg[e].id
          PROVE  /\ reg[e].id = seen[e].id /\ Closer(e, reg'[e].id, seen[e])
                 /\ At(seen, reg'[e].id) = {}
      <3>1. PICK i \in DOMAIN renames : renames[i] = <<reg[e].id, reg'[e].id>>
        BY <2>5, <2>6
      <3>2. reg[e].id = seen[Order[i]].id /\ Order[i] \in Present
        BY <2>2, <3>1
      <3>3. Order[i] = e
        BY <2>1, <3>2, HolderIsOld
      <3> QED BY <2>2, <3>1, <3>2, <3>3
    <2>7. ASSUME NEW e \in Present
          PROVE  /\ Improved(e, reg'[e], seen[e])
                 /\ reg'[e].id # seen[e].id => At(seen, reg'[e].id) = {}
                 /\ reg'[e].key = reg[e].key
                 /\ reg[e] # seen[e] => reg'[e] # seen[e]
      <3>1. /\ Improved(e, reg[e], seen[e])
            /\ reg[e].id # seen[e].id => At(seen, reg[e].id) = {}
        BY <2>1 DEF AllImproved
      <3>2. reg[e] \in Entry /\ reg'[e] \in Entry /\ seen[e] \in Entry
        BY <1>3, <1>8, <2>1 DEF SawRegistry
      <3>3. /\ reg'[e].has = reg[e].has /\ reg'[e].original = reg[e].original
            /\ reg'[e].override = reg[e].override /\ reg'[e].stale = reg[e].stale
            /\ reg'[e].aliased = reg[e].aliased /\ reg'[e].key = reg[e].key
        BY <1>8, <3>2 DEF Entry
      <3>4. CASE reg'[e].id = reg[e].id
        <4>1. reg'[e] = reg[e]
          BY <3>2, <3>3, <3>4 DEF Entry
        <4> QED BY <3>1, <4>1
      <3>5. CASE reg'[e].id # reg[e].id
        <4>1. Improved(e, reg'[e], seen[e])
          BY <2>6, <3>1, <3>3, <3>5 DEF Improved
        <4> QED BY <2>6, <3>3, <3>5, <4>1
      <3> QED BY <3>4, <3>5
    <2>8. ASSUME reg = seen
          PROVE  \E e \in Present : reg'[e] # seen[e]
      <3>1. PICK i \in DOMAIN renames : TRUE
        BY <2>2
      <3>2. Order[i] \in Present /\ renames[i][1] = seen[Order[i]].id /\ At(reg', renames[i][1]) = {}
        BY <2>2, <2>5
      <3>3. reg'[Order[i]].id # seen[Order[i]].id
        BY <1>8, <3>2 DEF At
      <3> QED BY <3>2, <3>3
    <2>9. since' = "fixes" /\ seen' = seen /\ repairs' \subseteq repairs
      BY <1>7, <1>11 DEF Whole
    <2> QED BY <1>8, <1>9, <1>11, <2>7, <2>8, <2>9, SubmitProgress
  <1> QED BY <1>10, <1>11

LEMMA SubmitIsProgress ==
  ASSUME Inv, Progress, NEW x \in repairs, Submit(x)
  PROVE  Progress'
  <1>1. CASE FixIdDrift(x)
    BY <1>1, FixIdProgress
  <1>2. CASE FixNameDrift(x)
    BY <1>2, FixNameProgress
  <1>3. CASE FixCachedName(x)
    BY <1>3, FixCachedProgress
  <1>4. CASE FixVisibleAliased(x)
    BY <1>4, FixAliasedProgress
  <1>5. CASE FixScriptKeyFails(x)
    <2>1. UNCHANGED <<reg, orphans, repairs, since, seen>>
      BY <1>5 DEF FixScriptKeyFails, Settle
    <2> QED BY <2>1 DEF Progress, Whole, ScriptLost, OrphansApart, SinceScan, SawRegistry,
           AllImproved, AllPlanned, FixesShow, Present
  <1>6. CASE \E s \in Scripts : FixScriptKey(x, s)
    BY <1>6, FixScriptKeyProgress
  <1>7. CASE \E s, t, w \in Scripts : FixScriptKeyLoses(x, s, t, w)
    BY <1>7, FixScriptKeyLosesProgress
  <1> QED BY <1>1, <1>2, <1>3, <1>4, <1>5, <1>6, <1>7 DEF Submit

\* Hands on the registry, and HA gives nobody an id that is taken.
LEMMA HandsProgress ==
  ASSUME Inv, Progress, NEW e \in Present,
         \/ \E id \in FirstIds(e) : RenameId(e, id)
         \/ \E r \in Rests : Override(e, <<FALSE, r>>)
         \/ CacheGoesStale(e) \/ Unhide(e)
  PROVE  Progress'
  <1>1. reg \in [Present -> Entry] /\ reg[e] \in Entry /\ OrphansApart
    BY DEF Inv, TypeOK, Progress
  <1>2. ASSUME NEW entry, reg' = [reg EXCEPT ![e] = entry], entry.id \notin orphans,
               Interfere, orphans' = orphans
        PROVE  Progress'
    <2>1. \A d \in Present : reg'[d].id \notin orphans
      BY <1>1, <1>2 DEF OrphansApart
    <2>2. Present' = Present /\ since' = "hands"
      BY <1>2 DEF Present, Interfere
    <2> QED BY <1>2, <2>1, <2>2 DEF Progress, Whole, OrphansApart
  <1>3. ASSUME NEW id \in FirstIds(e), RenameId(e, id)
        PROVE  Progress'
    <2> DEFINE entry == [reg[e] EXCEPT !.id = id]
    <2>1. reg' = [reg EXCEPT ![e] = entry] /\ Interfere /\ orphans' = orphans /\ id \notin orphans
      BY <1>1, <1>3 DEF RenameId, IdTaken
    <2>2. entry.id = id
      BY <1>1 DEF Entry
    <2> HIDE DEF entry
    <2> QED BY <1>2, <2>1, <2>2
  <1>4. ASSUME NEW r \in Rests, Override(e, <<FALSE, r>>)
        PROVE  Progress'
    <2> DEFINE entry == [reg[e] EXCEPT !.override = <<FALSE, r>>]
    <2>1. reg' = [reg EXCEPT ![e] = entry] /\ Interfere /\ orphans' = orphans
      BY <1>1, <1>4 DEF Override
    <2>2. entry.id \notin orphans
      BY <1>1 DEF Entry, OrphansApart
    <2> HIDE DEF entry
    <2> QED BY <1>2, <2>1, <2>2
  <1>5. ASSUME CacheGoesStale(e)
        PROVE  Progress'
    <2> DEFINE entry == [reg[e] EXCEPT !.stale = TRUE]
    <2>1. reg' = [reg EXCEPT ![e] = entry] /\ Interfere /\ orphans' = orphans
      BY <1>1, <1>5 DEF CacheGoesStale
    <2>2. entry.id \notin orphans
      BY <1>1 DEF Entry, OrphansApart
    <2> HIDE DEF entry
    <2> QED BY <1>2, <2>1, <2>2
  <1>6. ASSUME Unhide(e)
        PROVE  Progress'
    <2> DEFINE entry == [reg[e] EXCEPT !.aliased = TRUE]
    <2>1. reg' = [reg EXCEPT ![e] = entry] /\ Interfere /\ orphans' = orphans
      BY <1>1, <1>6 DEF Unhide
    <2>2. entry.id \notin orphans
      BY <1>1 DEF Entry, OrphansApart
    <2> HIDE DEF entry
    <2> QED BY <1>2, <2>1, <2>2
  <1> QED BY <1>3, <1>4, <1>5, <1>6

-----------------------------------------------------------------------------
(* An improvement is a step down, and nothing goes down for ever.          *)

LEMMA CostIsNatural ==
  ASSUME NEW e, NEW r \in Entry
  PROVE  Cost(e, r) \in Nat \X Nat \X Nat \X Nat
  <1>1. r.id[3] \in Nat
    BY DEF Entry, Ids
  <1>2. \A b : Count(b) \in Nat
    BY DEF Count
  <1> QED BY <1>1, <1>2 DEF Cost

LEMMA ImprovedIsLower ==
  ASSUME NEW e, NEW r \in Entry, NEW s \in Entry, Improved(e, r, s), r # s,
         r.id[1] = Domain(e), s.id[1] = Domain(e)
  PROVE  Lower(Cost(e, r), Cost(e, s))
  <1> DEFINE faults(t) == Count(t.stale) + Count(t.aliased) + Count(t.override # Recommended(e, t))
             away(t)   == Count(t.id[2] # Name(t))
             key(t)    == Count(e \in Scripts /\ t.key # Slug(t.id))
  <1>1. Recommended(e, r) = Recommended(e, s)
    BY DEF Improved, Recommended
  <1>2. /\ r.stale \in BOOLEAN /\ r.aliased \in BOOLEAN /\ s.stale \in BOOLEAN /\ s.aliased \in BOOLEAN
        /\ r.id[3] \in Nat /\ s.id[3] \in Nat
    BY DEF Entry, Ids
  <1>3. \A t : Cost(e, t) = <<faults(t), away(t), t.id[3], key(t)>>
    BY DEF Cost
  <1>4. CASE r.stale # s.stale \/ r.aliased # s.aliased \/ r.override # s.override
    <2>1. faults(r) < faults(s)
      BY <1>1, <1>2, <1>4 DEF Improved, Count
    <2> HIDE DEF faults, away, key
    <2> QED BY <1>3, <2>1 DEF Lower
  <1>5. CASE r.stale = s.stale /\ r.aliased = s.aliased /\ r.override = s.override
    <2>1. faults(r) = faults(s) /\ Name(r) = Name(s)
      BY <1>1, <1>5 DEF Improved, Name
    <2>2. CASE r.id # s.id
      <3>1. r.id[2] = Name(r) /\ (s.id[2] = Name(s) => r.id[3] < s.id[3])
        BY <2>1, <2>2 DEF Improved, Closer
      <3>2. \/ away(r) < away(s)
            \/ away(r) = away(s) /\ r.id[3] < s.id[3]
        BY <3>1 DEF Count
      <3> HIDE DEF faults, away, key
      <3> QED BY <1>3, <2>1, <3>2 DEF Lower
    <2>3. CASE r.id = s.id
      <3>1. r.key # s.key
        BY <1>5, <2>3 DEF Entry, Improved
      <3>2. key(r) < key(s) /\ away(r) = away(s)
        BY <2>1, <2>3, <3>1 DEF Improved, Count
      <3> DEFINE c == Cost(e, r)
                 d == Cost(e, s)
      <3> HIDE DEF faults, away, key
      <3>3. c[1] = d[1] /\ c[2] = d[2] /\ c[3] = d[3] /\ c[4] < d[4]
        BY <1>3, <2>1, <2>3, <3>2
      <3>4. \A j \in 1..(4 - 1) : c[j] = d[j]
        BY <3>3
      <3> HIDE DEF c, d
      <3>5. Lower(c, d)
        BY <3>3, <3>4 DEF Lower
      <3> QED BY <3>5 DEF c, d
    <2> QED BY <2>2, <2>3
  <1> QED BY <1>4, <1>5

LEMMA ProgressMakesBetter ==
  ASSUME Inv, Progress
  PROVE  FixesEnd
  <1> SUFFICES ASSUME since = "fixes"
               PROVE  Better(reg, seen)
    BY DEF FixesEnd
  <1>0. CASE ScriptLost
    BY <1>0 DEF ScriptLost, Better, Present
  <1> SUFFICES ASSUME ~ScriptLost
               PROVE  Better(reg, seen)
    BY <1>0
  <1>1. SawRegistry /\ AllImproved /\ FixesShow /\ DOMAIN seen = Present
    BY DEF Progress, Whole, SinceScan, SawRegistry
  <1>2. ASSUME NEW e \in Present, reg[e] # seen[e]
        PROVE  Lower(Cost(e, reg[e]), Cost(e, seen[e]))
    <2>1. reg[e] \in Entry /\ reg[e].id[1] = Domain(e)
      BY DEF Inv, TypeOK
    <2>2. seen[e] \in Entry /\ seen[e].id[1] = Domain(e)
      BY <1>1 DEF SawRegistry, IdsApart
    <2> QED BY <1>1, <1>2, <2>1, <2>2, ImprovedIsLower DEF AllImproved
  <1> QED BY <1>1, <1>2 DEF Better, FixesShow, Present

\* Among costs there is one that no other is below.
LEMMA LowestCost ==
  ASSUME NEW C \in SUBSET (Nat \X Nat \X Nat \X Nat), C # {}
  PROVE  \E c \in C : \A d \in C : ~Lower(d, c)
  <1> DEFINE C1(i)       == {c \in C : c[1] = i}
             C2(i, j)    == {c \in C1(i) : c[2] = j}
             C3(i, j, k) == {c \in C2(i, j) : c[3] = k}
  <1>1. PICK i \in Nat : C1(i) # {} /\ \A d \in C : i <= d[1]
    <2> DEFINE T == {c[1] : c \in C}
    <2>1. T \in SUBSET Nat /\ T # {}
      OBVIOUS
    <2>2. PICK i \in T : \A y \in T : i <= y
      <3> HIDE DEF T
      <3> QED BY <2>1, LeastNat
    <2> QED BY <2>1, <2>2
  <1>2. PICK j \in Nat : C2(i, j) # {} /\ \A d \in C1(i) : j <= d[2]
    <2> DEFINE T == {c[2] : c \in C1(i)}
    <2>1. T \in SUBSET Nat /\ T # {}
      BY <1>1
    <2>2. PICK j \in T : \A y \in T : j <= y
      <3> HIDE DEF T
      <3> QED BY <2>1, LeastNat
    <2> QED BY <2>1, <2>2
  <1>3. PICK k \in Nat : C3(i, j, k) # {} /\ \A d \in C2(i, j) : k <= d[3]
    <2> DEFINE T == {c[3] : c \in C2(i, j)}
    <2>1. T \in SUBSET Nat /\ T # {}
      BY <1>2
    <2>2. PICK k \in T : \A y \in T : k <= y
      <3> HIDE DEF T
      <3> QED BY <2>1, LeastNat
    <2> QED BY <2>1, <2>2
  <1>4. PICK c \in C3(i, j, k) : \A d \in C3(i, j, k) : c[4] <= d[4]
    <2> DEFINE T == {c[4] : c \in C3(i, j, k)}
    <2>1. T \in SUBSET Nat /\ T # {}
      BY <1>3
    <2>2. PICK l \in T : \A y \in T : l <= y
      <3> HIDE DEF T
      <3> QED BY <2>1, LeastNat
    <2> QED BY <2>1, <2>2
  <1>5. c \in C /\ c[1] = i /\ c[2] = j /\ c[3] = k
    OBVIOUS
  <1>6. ASSUME NEW d \in C, Lower(d, c)
        PROVE  FALSE
    <2>1. PICK h \in 1..4 : d[h] < c[h] /\ \A g \in 1..(h - 1) : d[g] = c[g]
      BY <1>6 DEF Lower
    <2>2. d[1] \in Nat /\ d[2] \in Nat /\ d[3] \in Nat /\ d[4] \in Nat /\ c[4] \in Nat
      BY <1>5
    <2>3. CASE h = 1
      BY <1>1, <1>5, <2>1, <2>2, <2>3
    <2>4. CASE h = 2
      <3>1. d[1] = c[1]
        BY <2>1, <2>4
      <3> QED BY <1>2, <1>5, <2>1, <2>2, <2>4, <3>1
    <2>5. CASE h = 3
      <3>1. d[1] = c[1] /\ d[2] = c[2]
        BY <2>1, <2>5
      <3> QED BY <1>3, <1>5, <2>1, <2>2, <2>5, <3>1
    <2>6. CASE h = 4
      <3>1. d[1] = c[1] /\ d[2] = c[2] /\ d[3] = c[3]
        BY <2>1, <2>6
      <3> QED BY <1>4, <1>5, <2>1, <2>2, <2>6, <3>1
    <2> QED BY <2>3, <2>4, <2>5, <2>6
  <1> QED BY <1>5, <1>6

\* Finitely many numbers have a bound.
LEMMA NumbersHaveBound ==
  ASSUME NEW S, IsFiniteSet(S), NEW f \in [S -> Nat]
  PROVE  \E b \in Nat : \A x \in S : f[x] <= b
  <1>1. PICK n \in Nat : \E q : q \in Bijection(1..n, S)
    BY FS_NatBijection DEF ExistsBijection
  <1>2. PICK q : q \in Bijection(1..n, S)
    BY <1>1
  <1>3. q \in [1..n -> S] /\ \A x \in S : \E i \in 1..n : q[i] = x
    BY <1>2 DEF Bijection, Injection, Surjection
  <1> DEFINE Bounded(k) == \E b \in Nat : \A i \in 1..k : f[q[i]] <= b
             T == {k \in 0..n : ~Bounded(k)}
  <1>4. T = {}
    <2> SUFFICES ASSUME T # {}
                 PROVE  FALSE
      OBVIOUS
    <2>1. PICK k \in T : \A m \in T : k <= m
      <3>1. T \in SUBSET Nat
        OBVIOUS
      <3> HIDE DEF T
      <3> QED BY <3>1, LeastNat
    <2>2. k \in 0..n /\ ~Bounded(k)
      BY <2>1
    <2>3. k # 0
      BY <2>2
    <2>4. k \in 1..n /\ k - 1 \in 0..n /\ k - 1 \in Nat /\ ~(k <= k - 1)
      BY <2>2, <2>3
    <2>5. Bounded(k - 1)
      <3> HIDE DEF Bounded
      <3> QED BY <2>1, <2>4
    <2>6. PICK b \in Nat : \A i \in 1..(k - 1) : f[q[i]] <= b
      BY <2>5
    <2>7. f[q[k]] \in Nat /\ b + f[q[k]] \in Nat
      <3>1. k \in 1..n
        BY <2>4
      <3>2. q[k] \in S
        <4> HIDE DEF T, Bounded
        <4> QED BY <1>3, <3>1
      <3>3. f[q[k]] \in Nat
        <4> HIDE DEF T, Bounded
        <4> QED BY <3>2
      <3> HIDE DEF T, Bounded
      <3> QED BY <2>6, <3>3
    <2>8. \A i \in 1..k : f[q[i]] <= b + f[q[k]]
      <3> SUFFICES ASSUME NEW i \in 1..k
                   PROVE  f[q[i]] <= b + f[q[k]]
        OBVIOUS
      <3>1. CASE i = k
        BY <2>7, <3>1
      <3>2. CASE i # k
        <4>1. i \in 1..(k - 1) /\ i \in 1..n
          BY <2>4, <3>2
        <4>2. f[q[i]] \in Nat /\ f[q[i]] <= b
          BY <1>3, <2>6, <4>1
        <4> QED BY <2>7, <4>2
      <3> QED BY <3>1, <3>2
    <2> QED BY <2>2, <2>7, <2>8
  <1>5. Bounded(n)
    <2> HIDE DEF Bounded
    <2> QED BY <1>4
  <1>6. PICK b \in Nat : \A i \in 1..n : f[q[i]] <= b
    BY <1>5
  <1>7. \A x \in S : f[x] <= b
    BY <1>3, <1>6
  <1> QED BY <1>7

\* Along a descent each entity comes to rest.
LEMMA EntityRests ==
  ASSUME NEW e, NEW h \in [Nat -> Entry],
         \A n \in Nat : h[n + 1] = h[n] \/ Lower(Cost(e, h[n + 1]), Cost(e, h[n]))
  PROVE  \E n \in Nat : \A m \in Nat : n <= m => h[m] = h[n]
  <1> DEFINE C == {Cost(e, h[n]) : n \in Nat}
  <1>1. C \in SUBSET (Nat \X Nat \X Nat \X Nat) /\ C # {}
    BY CostIsNatural
  <1>2. PICK c \in C : \A d \in C : ~Lower(d, c)
    <2> HIDE DEF C
    <2> QED BY <1>1, LowestCost
  <1>3. PICK n \in Nat : c = Cost(e, h[n])
    OBVIOUS
  <1>4. \A m \in Nat : ~Lower(Cost(e, h[m]), Cost(e, h[n]))
    BY <1>2, <1>3
  <1> DEFINE T == {m \in Nat : n <= m /\ h[m] # h[n]}
  <1>5. T = {}
    <2> SUFFICES ASSUME T # {}
                 PROVE  FALSE
      OBVIOUS
    <2>1. PICK m \in T : \A y \in T : m <= y
      <3>1. T \in SUBSET Nat
        OBVIOUS
      <3> HIDE DEF T
      <3> QED BY <3>1, LeastNat
    <2>2. m \in Nat /\ n <= m /\ h[m] # h[n]
      BY <2>1
    <2>3. m - 1 \in Nat /\ n <= m - 1 /\ (m - 1) + 1 = m
      BY <2>2
    <2>4. h[m - 1] = h[n]
      BY <2>1, <2>3
    <2>5. h[m] = h[m - 1] \/ Lower(Cost(e, h[m]), Cost(e, h[m - 1]))
      BY <2>3
    <2> QED BY <1>4, <2>2, <2>4, <2>5
  <1> QED BY <1>5
-----------------------------------------------------------------------------

LEMMA InvIsInvariant == Spec => [](Inv /\ Progress)
  <1>1. Init => Inv /\ Progress
    <2> SUFFICES ASSUME Init
                 PROVE  Inv /\ Progress
      OBVIOUS
    <2>1. since = "hands" /\ orphans = {}
      BY Zenon DEF Init
    <2> QED BY <2>1, InitHolds DEF Progress, Whole, OrphansApart
  <1>2. ASSUME Inv, Progress, [Next]_vars
        PROVE  Inv' /\ Progress'
    <2>1. CASE Scan
      BY <1>2, <2>1, ScanKeeps, ScanProgress
    <2>2. CASE \E x \in repairs : Submit(x)
      BY <1>2, <2>2, SubmitKeeps, SubmitIsProgress
    <2>3. CASE \E e \in Present :
                 \/ \E id \in FirstIds(e) : RenameId(e, id)
                 \/ \E r \in Rests : Override(e, <<FALSE, r>>)
                 \/ CacheGoesStale(e) \/ Unhide(e)
      BY <1>2, <2>3, HandsKeep, HandsProgress
    <2>4. CASE UNCHANGED vars
      <3>1. UNCHANGED <<reg, excluded, repairs, since, seen, orphans, doubled, failed, trouble>>
        BY <2>4 DEF vars
      <3>2. TypeOK'
        BY <1>2, <3>1 DEF Inv, TypeOK, Present
      <3>3. KeysApart' /\ FixesDoNotClash'
        BY <1>2, <3>1 DEF Inv, KeysApart, FixesDoNotClash, Present
      <3>4. since' # "hands" => FreshOf(repairs)'
        BY <1>2, <3>1 DEF Inv, FreshOf, Keyed, Present
      <3>5. OrphansApart'
        BY <1>2, <3>1 DEF Progress, OrphansApart, Present
      <3>6. Whole' => SinceScan'
        BY <1>2, <3>1 DEF Progress, Whole, ScriptLost, SinceScan, SawRegistry, AllImproved, AllPlanned, FixesShow, Present
      <3> QED BY <3>2, <3>3, <3>4, <3>5, <3>6 DEF Inv, Progress
    <2> QED BY <1>2, <2>1, <2>2, <2>3, <2>4 DEF Next
  <1> QED BY <1>1, <1>2, PTL DEF Spec

\* Registry, payloads and history keep their types, and no two entities ever
\* share an id: HA refuses the id that is taken, and the fix services keep an
\* entity in its domain.
THEOREM TypeCorrect == Spec => []TypeOK
  <1>1. Inv => TypeOK
    BY DEF Inv
  <1> QED BY <1>1, InvIsInvariant, PTL

\* A fix of a scan is refused in one case only, in whatever order they are submitted
\* (_recreated_entity_id, _fix_id_drift, _fix_script_yaml_key): it is to rewrite a
\* script key that two blocks have, since an earlier fix gave it to a second.  For
\* every device, any number of entities without one and any names.
THEOREM ScansAreFree == Spec => []FixesDoNotClash
  <1>1. Inv => FixesDoNotClash
    BY DEF Inv
  <1> QED BY <1>1, InvIsInvariant, PTL

\* The same entities cannot improve for ever.
LEMMA ImprovingEnds ==
  ASSUME NEW G, IsFiniteSet(G), NEW f \in [Nat -> [G -> Entry]],
         \A n \in Nat : Better(f[n + 1], f[n])
  PROVE  FALSE
  <1> DEFINE F == [G -> Entry]
  <1>1. \A n \in Nat : f[n] \in F /\ Better(f[n + 1], f[n])
    OBVIOUS
  <1>2. \A e \in G : \E n \in Nat : \A m \in Nat : n <= m => f[m][e] = f[n][e]
    <2> SUFFICES ASSUME NEW e \in G
                 PROVE  \E n \in Nat : \A m \in Nat : n <= m => f[m][e] = f[n][e]
      OBVIOUS
    <2> DEFINE h == [n \in Nat |-> f[n][e]]
    <2>1. h \in [Nat -> Entry]
      BY <1>1
    <2>2. \A n \in Nat : h[n + 1] = h[n] \/ Lower(Cost(e, h[n + 1]), Cost(e, h[n]))
      BY <1>1 DEF Better
    <2>3. \A n \in Nat : h[n] = f[n][e]
      OBVIOUS
    <2> HIDE DEF h
    <2>4. \E n \in Nat : \A m \in Nat : n <= m => h[m] = h[n]
      BY <2>1, <2>2, EntityRests
    <2> QED BY <2>3, <2>4
  <1> DEFINE rest == [e \in G |-> CHOOSE n \in Nat : \A m \in Nat : n <= m => f[m][e] = f[n][e]]
  <1>3. rest \in [G -> Nat] /\ \A e \in G : \A m \in Nat : rest[e] <= m => f[m][e] = f[rest[e]][e]
    BY <1>2
  <1> HIDE DEF rest
  <1>5. PICK b \in Nat : \A e \in G : rest[e] <= b
    BY <1>3, NumbersHaveBound
  <1>6. \A e \in G : f[b + 1][e] = f[b][e]
    <2> SUFFICES ASSUME NEW e \in G
                 PROVE  f[b + 1][e] = f[b][e]
      OBVIOUS
    <2>1. rest[e] \in Nat /\ rest[e] <= b /\ rest[e] <= b + 1 /\ b + 1 \in Nat
      BY <1>3, <1>5
    <2> QED BY <1>3, <2>1
  <1>7. f[b + 1] \in F /\ f[b] \in F /\ f[b + 1] # f[b]
    BY <1>1 DEF Better
  <1> QED BY <1>6, <1>7

\* What FixesEnd says a submit does cannot be done for ever, whatever the entities
\* and whichever of the scripts are lost on the way.
THEOREM BetterIsWellFounded ==
  ASSUME NEW fleet \in Fleets
  PROVE  LET F == UNION {[g -> Entry] : g \in SUBSET fleet}
         IN  IsWellFoundedOn({p \in F \X F : Better(p[1], p[2])}, F)
  <1> DEFINE F == UNION {[g -> Entry] : g \in SUBSET fleet}
             D == {p \in F \X F : Better(p[1], p[2])}
  <1> SUFFICES ASSUME NEW f \in [Nat -> F], \A n \in Nat : <<f[n + 1], f[n]>> \in D
               PROVE  FALSE
    BY DEF IsWellFoundedOn
  <1>1. \A n \in Nat : f[n] \in F /\ Better(f[n + 1], f[n])
    OBVIOUS
  <1>2. \A n \in Nat : DOMAIN f[n] \subseteq fleet /\ f[n] \in [DOMAIN f[n] -> Entry]
    BY <1>1
  <1> HIDE DEF D, F
  <1>3. IsFiniteSet(fleet)
    BY EntitiesAreFinite, DefaultsAssumption, FS_Subset
  <1>4. \A n \in Nat : IsFiniteSet(DOMAIN f[n]) /\ Cardinality(DOMAIN f[n]) \in Nat
    BY <1>2, <1>3, FS_Subset, FS_CardinalityType
  <1> DEFINE T == {Cardinality(DOMAIN f[n]) : n \in Nat}
  <1>5. PICK b \in Nat : \A n \in Nat : Cardinality(DOMAIN f[b]) <= Cardinality(DOMAIN f[n])
    <2>1. T \in SUBSET Nat /\ T # {}
      BY <1>4
    <2>2. PICK k \in T : \A y \in T : k <= y
      <3> HIDE DEF T
      <3> QED BY <2>1, LeastNat
    <2> QED BY <2>2
  <1> DEFINE G == DOMAIN f[b]
             Kept(m) == DOMAIN f[b + m] = G
  <1>6. \A m \in Nat : Kept(m)
    <2> DEFINE U == {m \in Nat : ~Kept(m)}
    <2>1. SUFFICES ASSUME U # {}
                   PROVE  FALSE
      OBVIOUS
    <2>2. PICK m \in U : \A y \in U : m <= y
      <3>1. U \in SUBSET Nat
        OBVIOUS
      <3> HIDE DEF U
      <3> QED BY <2>1, <3>1, LeastNat
    <2>3. m \in Nat /\ ~Kept(m)
      BY <2>2
    <2>4. m # 0
      BY <2>3, <1>5
    <2>5. m - 1 \in Nat /\ m - 1 \notin U /\ b + (m - 1) \in Nat /\ (b + (m - 1)) + 1 = b + m
      BY <2>2, <2>3, <2>4, <1>5
    <2>6. DOMAIN f[b + (m - 1)] = G
      BY <2>5
    <2>7. Better(f[(b + (m - 1)) + 1], f[b + (m - 1)])
      BY <1>1, <2>5
    <2>8. DOMAIN f[b + m] \subseteq G
      BY <2>5, <2>6, <2>7 DEF Better
    <2>9. b + m \in Nat
      BY <1>5, <2>3
    <2>10. Cardinality(G) <= Cardinality(DOMAIN f[b + m])
      BY <1>5, <2>9
    <2>11. IsFiniteSet(G) /\ Cardinality(G) \in Nat /\ Cardinality(DOMAIN f[b + m]) \in Nat
      BY <1>4, <1>5, <2>9
    <2>12. DOMAIN f[b + m] = G
      <3>1. /\ Cardinality(DOMAIN f[b + m]) <= Cardinality(G)
            /\ Cardinality(DOMAIN f[b + m]) = Cardinality(G) => DOMAIN f[b + m] = G
        BY <2>8, <2>11, FS_Subset
      <3> QED BY <2>10, <2>11, <3>1
    <2> QED BY <2>3, <2>12
  <1> DEFINE h == [m \in Nat |-> f[b + m]]
  <1>7. h \in [Nat -> [G -> Entry]]
    <2> SUFFICES ASSUME NEW m \in Nat
                 PROVE  f[b + m] \in [G -> Entry]
      OBVIOUS
    <2>1. b + m \in Nat
      BY <1>5
    <2> QED BY <1>2, <1>6, <2>1
  <1>8. \A m \in Nat : Better(h[m + 1], h[m])
    <2> SUFFICES ASSUME NEW m \in Nat
                 PROVE  Better(f[b + (m + 1)], f[b + m])
      OBVIOUS
    <2>1. b + m \in Nat /\ b + (m + 1) = (b + m) + 1
      BY <1>5
    <2> QED BY <1>1, <2>1
  <1>9. IsFiniteSet(G)
    BY <1>4, <1>5
  <1> HIDE DEF h, G
  <1> QED BY <1>7, <1>8, <1>9, ImprovingEnds

\* Whatever was submitted since a scan has brought the registry down in an order
\* that ends (BetterIsWellFounded): the fix services do not undo one another's work,
\* nor bring each other's findings back for ever, for every registry.
THEOREM SubmittingEnds == Spec => []FixesEnd
  <1>1. Inv /\ Progress => FixesEnd
    BY ProgressMakesBetter
  <1> QED BY <1>1, InvIsInvariant, PTL
=============================================================================
