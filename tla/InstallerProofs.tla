---------------------------- MODULE InstallerProofs ----------------------------
(***************************************************************************)
(* Theorems about Installer, for every bundle, all directories and all     *)
(* surroundings: the types, that a setup accounts for every destination,   *)
(* that nothing is clobbered, that the token in the file is the live one.  *)
(*                                                                         *)
(* A setup acts on a plan while people change what it was made from.       *)
(* TodoOK says what the plan still knows of a path nobody touched.         *)
(***************************************************************************)
EXTENDS Installer, TLAPS

\* What the plan of the setup under way knows of a path.
PlanOK(p) ==
  /\ work.todo[p] # None => disk[p] \notin {"foreign", "file", "dir"} \/ p \in work.force
  /\ work.todo[p] = "keep" => disk[p] = "link"
  /\ p \in Mapping(work.dir) =>
       /\ work.todo[p] # "remove"
       /\ work.todo[p] # None \/ disk[p] = "link" \/ p \in work.conflicts \cup work.errors
  /\ p \notin Mapping(work.dir) =>
       /\ work.todo[p] \in {None, "remove"}
       /\ p \in Discovered(work.dir) => work.todo[p] = "remove" \/ p \in work.errors

TodoOK ==
  work # None /\ work.at = "apply" => \A p \in Paths \ work.touched : PlanOK(p)

\* A token that is not the one in the file is about to be written there.
TokenOK ==
  token.live # 0 /\ token.file # 0 =>
    token.file = token.live \/ token.failed \/ (work # None /\ work.at = "write")

\* The step of NothingClobbered.
Spared ==
  \A p \in Paths :
    disk[p] \in {"foreign", "file", "dir"} /\ disk'[p] # disk[p] /\ trouble' = trouble =>
      p \in work.force \cup work.touched

\* Every release is made of the files there are.
LEMMA BundleChoice ==
  TypeOK => {bundle, Blueprints \cup Tools} \cup {bundle \ {f} : f \in bundle}
              \subseteq SUBSET (Blueprints \cup Tools)
  BY DEF TypeOK

\* What a step that writes, deletes or fails to leaves of the token is one.
LEMMA TokenType ==
  ASSUME TypeOK, NEW l \in {0, token.live}, NEW f \in {token.file, 0, None}, NEW b \in BOOLEAN,
         token' = [token EXCEPT !.live = l, !.file = f, !.failed = b]
  PROVE  /\ token' \in [live : Nat, file : Nat \cup {None}, made : Nat, failed : BOOLEAN]
         /\ token'.live \in {0, token'.made}
  <1>1. token \in [live : Nat, file : Nat \cup {None}, made : Nat, failed : BOOLEAN]
    BY DEF TypeOK
  <1>2. token' = [live |-> l, file |-> f, made |-> token.made, failed |-> b]
    BY <1>1
  <1>3. l \in Nat /\ f \in Nat \cup {None} /\ l \in {0, token.made}
    BY <1>1 DEF TypeOK
  <1> QED BY <1>1, <1>2, <1>3

\* The types of the next state.
LEMMA TypeStep == TypeOK /\ [Next]_vars => TypeOK'
  <1> SUFFICES ASSUME TypeOK, [Next]_vars PROVE TypeOK'
    OBVIOUS
  <1> USE InstallerAssumption
  <1>1. ASSUME NEW why \in reloads, Begin(why) PROVE TypeOK'
    <2>1. entry' \in {"waiting", "loaded", "removed"}
      BY <1>1 DEF Begin
    <2>2. work' \in Works \cup {None}
      <3>1. options.dir \in Dirs \cup {None}
        BY DEF TypeOK, Options
      <3>2. Plan(options.dir, pending) \in [Paths -> Doings \cup {None}]
        BY DEF Plan, Kind, Doings
      <3>3. {q \in Mapping(options.dir) : ConflictAt(q, pending)} \subseteq Paths
        BY DEF Mapping
      <3>4. why \in Reasons /\ pending \subseteq Paths
        BY DEF TypeOK
      <3> HIDE DEF Plan
      <3> QED BY <1>1, <3>1, <3>2, <3>3, <3>4 DEF Begin, Works
    <2>3. pending' \subseteq Paths
      BY <1>1 DEF Begin
    <2>4. reloads' \subseteq Reasons
      BY <1>1 DEF Begin, TypeOK
    <2> QED BY <1>1, <2>1, <2>2, <2>3, <2>4 DEF Begin, TypeOK
  <1>2. ASSUME NEW p \in Paths, Do(p) PROVE TypeOK'
    <2>1. disk' \in [Paths -> Contents]
      BY <1>2 DEF Do, Left, Contents, Ours, TypeOK
    <2>2. work' \in Works \cup {None}
      <3>1. work \in Works
        BY <1>2 DEF Do, TypeOK
      <3>2. PICK t \in Doings \cup {None}, e \in {work.errors, work.errors \cup {p}} :
              work' = [work EXCEPT !.todo[p] = t, !.errors = e]
        <4>1. CASE work' = [work EXCEPT !.todo[p] = None, !.errors = @ \cup {p}]
          BY <4>1
        <4>2. CASE work' = [work EXCEPT !.todo[p] =
                              IF work.todo[p] = "update" THEN "link" ELSE None]
          <5>1. work' = [work EXCEPT !.todo[p] = IF work.todo[p] = "update" THEN "link"
                                                 ELSE None, !.errors = work.errors]
            BY <3>1, <4>2 DEF Works
          <5> QED BY <5>1 DEF Doings
        <4> QED BY <1>2, <4>1, <4>2 DEF Do
      <3> QED BY <3>1, <3>2 DEF Works
    <2> QED BY <1>2, <2>1, <2>2 DEF Do, TypeOK
  <1>3. ASSUME Surface PROVE TypeOK'
    <2>1. work' \in Works \cup {None}
      BY <1>3 DEF Surface, TypeOK, Works
    <2>2. issues' \in [Issue -> SUBSET Paths]
      <3>1. work \in Works
        BY <1>3 DEF Surface, TypeOK
      <3> QED BY <1>3, <3>1 DEF Surface, Show, Works
    <2> QED BY <1>3, <2>1, <2>2 DEF Surface, TypeOK
  <1>4. ASSUME Token PROVE TypeOK'
    <2>1. work' \in Works \cup {None}
      <3>1. work \in Works /\ options.token \in BOOLEAN
        BY <1>4 DEF Token, TypeOK, Options
      <3>2. PICK a \in {"register", "write"} : work' = [work EXCEPT !.token = options.token, !.at = a]
        BY <1>4 DEF Token
      <3> QED BY <3>1, <3>2 DEF Works
    <2>2. token' \in [live : Nat, file : Nat \cup {None}, made : Nat, failed : BOOLEAN] /\ token'.live \in {0, token'.made}
      <3>1. CASE token' = NoToken
        BY <3>1 DEF NoToken, TypeOK
      <3>2. CASE token' = NewToken
        <4>1. token \in [live : Nat, file : Nat \cup {None}, made : Nat, failed : BOOLEAN] /\ token.made + 1 \in Nat
          BY DEF TypeOK
        <4>2. token' = [live |-> token.made + 1, file |-> token.file, made |-> token.made + 1,
                    failed |-> token.failed]
          BY <3>2, <4>1 DEF NewToken
        <4> QED BY <4>1, <4>2
      <3>3. CASE token' = token
        BY <3>3 DEF TypeOK
      <3> QED BY <1>4, <3>1, <3>2, <3>3 DEF Token
    <2> QED BY <1>4, <2>1, <2>2 DEF Token, TypeOK
  <1>5. ASSUME Write PROVE TypeOK'
    <2>1. work' \in Works \cup {None}
      BY <1>5 DEF Write, TypeOK, Works
    <2>2. token' \in [live : Nat, file : Nat \cup {None}, made : Nat, failed : BOOLEAN] /\ token'.live \in {0, token'.made}
      BY <1>5 DEF Write, TypeOK
    <2> QED BY <1>5, <2>1, <2>2 DEF Write, TypeOK
  <1>6. ASSUME Register PROVE TypeOK'
    <2>1. used' \in Options
      <3>1. work \in Works
        BY <1>6 DEF Register, TypeOK
      <3> QED BY <1>6, <3>1 DEF Register, Options, Works
    <2>2. entry' \in {"waiting", "loaded", "removed"}
      BY <1>6 DEF Register, TypeOK
    <2>3. work' \in Works \cup {None}
      BY <1>6 DEF Register, TypeOK
    <2>4. issues' \in [Issue -> SUBSET Paths]
      BY <1>6 DEF Register, TypeOK
    <2> QED BY <1>6, <2>1, <2>2, <2>3, <2>4 DEF Register, TypeOK
  <1>7. ASSUME NEW i \in Issue, Submit(i) PROVE TypeOK'
    <2>1. pending' \subseteq Paths
      BY <1>7 DEF Submit, TypeOK
    <2>2. reloads' \subseteq Reasons
      BY <1>7 DEF Submit, Reasons, TypeOK
    <2>3. trouble' \in Nat
      BY <1>7 DEF Submit, Interfere, May, TypeOK
    <2> QED BY <1>7, <2>1, <2>2, <2>3 DEF Submit, TypeOK
  <1>8. ASSUME NEW o \in Options, SetOptions(o) PROVE TypeOK'
    <2>1. options' \in Options
      BY <1>8 DEF SetOptions, TypeOK
    <2>2. reloads' \subseteq Reasons
      BY <1>8 DEF SetOptions, Reasons, TypeOK
    <2>3. trouble' \in Nat
      BY <1>8 DEF SetOptions, Interfere, May, TypeOK
    <2> QED BY <1>8, <2>1, <2>2, <2>3 DEF SetOptions, TypeOK
  <1>9. ASSUME Remove PROVE TypeOK'
    <2>1. disk' \in [Paths -> Contents]
      BY <1>9 DEF Remove, Wipe, Contents, TypeOK
    <2>2. entry' \in {"waiting", "loaded", "removed"}
      BY <1>9 DEF Remove, TypeOK
    <2>3. token' \in [live : Nat, file : Nat \cup {None}, made : Nat, failed : BOOLEAN] /\ token'.live \in {0, token'.made}
      <3>1. token \in [live : Nat, file : Nat \cup {None}, made : Nat, failed : BOOLEAN]
        BY DEF TypeOK
      <3>2. CASE token' = NoToken
        BY <3>2, TokenType DEF NoToken
      <3>3. CASE token' = [token EXCEPT !.live = 0, !.failed = TRUE]
        <4>1. token' = [token EXCEPT !.live = 0, !.file = token.file, !.failed = TRUE]
          BY <3>1, <3>3
        <4> QED BY <4>1, TokenType
      <3> QED BY <1>9, <3>2, <3>3 DEF Remove
    <2>4. trouble' \in Nat
      BY <1>9 DEF Remove, Interfere, May, TypeOK
    <2> QED BY <1>9, <2>1, <2>2, <2>3, <2>4 DEF Remove, TypeOK
  <1>10. ASSUME Add PROVE TypeOK'
    <2>1. options' \in Options
      BY <1>10 DEF Add, Options, TypeOK
    <2>2. entry' \in {"waiting", "loaded", "removed"}
      BY <1>10 DEF Add, TypeOK
    <2>3. reloads' \subseteq Reasons
      BY <1>10 DEF Add, Reasons, TypeOK
    <2>4. trouble' \in Nat
      BY <1>10 DEF Add, Interfere, May, TypeOK
    <2> QED BY <1>10, <2>1, <2>2, <2>3, <2>4 DEF Add, TypeOK
  <1>11. ASSUME NEW b \in SUBSET (Blueprints \cup Tools), HaRestarts(b) PROVE TypeOK'
    <2>1. bundle' \subseteq Blueprints \cup Tools
      BY <1>11 DEF HaRestarts, TypeOK
    <2>2. entry' \in {"waiting", "loaded", "removed"}
      BY <1>11 DEF HaRestarts, TypeOK
    <2>3. work' \in Works \cup {None}
      BY <1>11 DEF HaRestarts, TypeOK
    <2>4. pending' \subseteq Paths
      BY <1>11 DEF HaRestarts, TypeOK
    <2>5. reloads' \subseteq Reasons
      BY <1>11 DEF HaRestarts, Reasons, TypeOK
    <2>6. issues' \in [Issue -> SUBSET Paths]
      BY <1>11 DEF HaRestarts, TypeOK
    <2>7. trouble' \in Nat
      BY <1>11 DEF HaRestarts, Interfere, May, TypeOK
    <2>8. /\ token' \in [live : Nat, file : Nat \cup {None}, made : Nat, failed : BOOLEAN]
          /\ token'.live \in {0, token'.made}
      BY <1>11 DEF HaRestarts, TypeOK
    <2> QED BY <1>11, <2>1, <2>2, <2>3, <2>4, <2>5, <2>6, <2>7, <2>8 DEF HaRestarts,
       TypeOK
  <1>12. ASSUME NEW p \in Paths, NEW k \in {"none", "foreign", "file", "dir"},
                 HandEdit(p, k)
         PROVE  TypeOK'
    <2>1. disk' \in [Paths -> Contents]
      BY <1>12 DEF HandEdit, Contents, Ours, TypeOK
    <2>2. work' \in Works \cup {None}
      <3>1. CASE work = None
        BY <1>12, <3>1 DEF HandEdit, Touched
      <3>2. CASE work # None
        <4>1. work \in Works
          BY <3>2 DEF TypeOK
        <4>2. work' = [work EXCEPT !.touched = work.touched \cup {p}]
          BY <1>12, <3>2 DEF HandEdit, Touched
        <4> QED BY <4>1, <4>2 DEF Works
      <3> QED BY <3>1, <3>2
    <2>3. trouble' \in Nat
      BY <1>12 DEF HandEdit, Interfere, May, TypeOK
    <2> QED BY <1>12, <2>1, <2>2, <2>3 DEF HandEdit, TypeOK
  <1>13. ASSUME NEW p \in Paths, Break(p) PROVE TypeOK'
    <2>1. stuck' \subseteq Paths
      BY <1>13 DEF Break, TypeOK
    <2>2. trouble' \in Nat
      BY <1>13 DEF Break, Interfere, May, TypeOK
    <2> QED BY <1>13, <2>1, <2>2 DEF Break, TypeOK
  <1>14. ASSUME Revoke PROVE TypeOK'
    <2>1. token' \in [live : Nat, file : Nat \cup {None}, made : Nat, failed : BOOLEAN] /\ token'.live \in {0, token'.made}
      BY <1>14 DEF Revoke, TypeOK
    <2>2. trouble' \in Nat
      BY <1>14 DEF Revoke, Interfere, May, TypeOK
    <2> QED BY <1>14, <2>1, <2>2 DEF Revoke, TypeOK
  <1>15. ASSUME UNCHANGED vars PROVE TypeOK'
    BY <1>15 DEF vars, TypeOK
  <1>16. ASSUME TokenFails PROVE TypeOK'
    <2>1. work' \in Works \cup {None}
      <3>1. work \in Works /\ options.token \in BOOLEAN
        BY <1>16 DEF TokenFails, TypeOK, Options
      <3>2. work' = [work EXCEPT !.token = options.token, !.at = "register"]
        BY <1>16 DEF TokenFails
      <3> QED BY <3>1, <3>2 DEF Works
    <2>2. /\ token' \in [live : Nat, file : Nat \cup {None}, made : Nat, failed : BOOLEAN]
          /\ token'.live \in {0, token'.made}
      <3>1. token \in [live : Nat, file : Nat \cup {None}, made : Nat, failed : BOOLEAN]
        BY DEF TypeOK
      <3>2. PICK l \in {0, token.live} :
              token' = [token EXCEPT !.live = l, !.file = token.file, !.failed = TRUE]
        <4>1. CASE token' = [token EXCEPT !.failed = TRUE]
          BY <3>1, <4>1
        <4>2. CASE token' = [token EXCEPT !.live = 0, !.failed = TRUE]
          BY <3>1, <4>2
        <4> QED BY <1>16, <4>1, <4>2 DEF TokenFails
      <3> QED BY <3>2, TokenType
    <2>3. trouble' \in Nat
      BY <1>16 DEF TokenFails, Interfere, May, TypeOK
    <2> QED BY <1>16, <2>1, <2>2, <2>3 DEF TokenFails, TypeOK
  <1>17. ASSUME WriteFails PROVE TypeOK'
    <2>1. work' \in Works \cup {None}
      BY <1>17 DEF WriteFails, TypeOK, Works
    <2>2. /\ token' \in [live : Nat, file : Nat \cup {None}, made : Nat, failed : BOOLEAN]
          /\ token'.live \in {0, token'.made}
      <3>1. token \in [live : Nat, file : Nat \cup {None}, made : Nat, failed : BOOLEAN]
        BY DEF TypeOK
      <3>2. PICK f \in {token.file, 0, None} : token' = [token EXCEPT !.file = f, !.failed = TRUE]
        BY <1>17 DEF WriteFails
      <3>3. token' = [token EXCEPT !.live = token.live, !.file = f, !.failed = TRUE]
        BY <3>1, <3>2
      <3> QED BY <3>3, TokenType
    <2>3. trouble' \in Nat
      BY <1>17 DEF WriteFails, Interfere, May, TypeOK
    <2> QED BY <1>17, <2>1, <2>2, <2>3 DEF WriteFails, TypeOK
  <1> QED
    BY <1>1, <1>2, <1>3, <1>4, <1>5, <1>6, <1>7, <1>8, <1>9, <1>10, <1>11, <1>12,
       <1>13, <1>14, <1>15, <1>16, <1>17, BundleChoice DEF Next, System, Surroundings

\* An action of the plan changes one path and what is noted of it.
LEMMA DoIsOneUpdate ==
  ASSUME TypeOK, NEW p \in Paths, Do(p)
  PROVE  \E t \in Doings \cup {None}, e \in {work.errors, work.errors \cup {p}},
            d \in Contents :
           /\ work' = [work EXCEPT !.todo[p] = t, !.errors = e]
           /\ disk' = [disk EXCEPT ![p] = d]
           /\ \/ Refuses(p, work.todo[p]) /\ t = None /\ p \in e /\ d = disk[p]
              \/ /\ d = Left(p, work.todo[p])
                 /\ t = IF work.todo[p] = "update" THEN "link" ELSE None
  <1>1. work \in Works /\ disk \in [Paths -> Contents]
    BY InstallerAssumption DEF Do, TypeOK
  <1>2. CASE Refuses(p, work.todo[p])
    <2>1. work' = [work EXCEPT !.todo[p] = None, !.errors = work.errors \cup {p}]
      BY <1>2 DEF Do
    <2>2. disk' = [disk EXCEPT ![p] = disk[p]]
      BY <1>1, <1>2 DEF Do
    <2> QED BY <1>1, <1>2, <2>1, <2>2
  <1>3. CASE ~Refuses(p, work.todo[p])
    <2> DEFINE t == IF work.todo[p] = "update" THEN "link" ELSE None
    <2>1. work' = [work EXCEPT !.todo[p] = t, !.errors = work.errors]
      BY <1>1, <1>3 DEF Do, Works
    <2>2. disk' = [disk EXCEPT ![p] = Left(p, work.todo[p])]
      BY <1>3 DEF Do
    <2>3. Left(p, work.todo[p]) \in Contents /\ t \in Doings \cup {None}
      BY <1>1 DEF Left, Contents, Ours, Doings
    <2> QED BY <2>1, <2>2, <2>3
  <1> QED BY <1>2, <1>3

\* What changes neither the setup nor the file system changes no plan.
LEMMA PlanKept ==
  ASSUME TodoOK, work' = work, disk' = disk, bundle' = bundle
  PROVE  TodoOK'
  BY DEF TodoOK, PlanOK, Mapping, Discovered

\* The plan stays true of every path nobody touched.
LEMMA TodoStep == TypeOK /\ TodoOK /\ [Next]_vars => TodoOK'
  <1> SUFFICES ASSUME TypeOK, TodoOK, [Next]_vars PROVE TodoOK'
    OBVIOUS
  <1> USE InstallerAssumption
  <1>1. ASSUME NEW why \in reloads, Begin(why) PROVE TodoOK'
    <2>1. /\ work'.at = "apply" /\ work'.dir = options.dir /\ work'.touched = {}
          /\ work'.todo = Plan(options.dir, pending) /\ work'.force = pending
          /\ work'.conflicts = {q \in Mapping(options.dir) : ConflictAt(q, pending)}
      BY <1>1 DEF Begin
    <2>2. disk' = disk /\ bundle' = bundle
      BY <1>1 DEF Begin
    <2> SUFFICES ASSUME NEW q \in Paths PROVE PlanOK(q)'
      BY DEF TodoOK
    <2>3. CASE q \in Mapping(options.dir)
      <3>1. /\ q \in Mapping(work.dir)'
            /\ work'.todo[q] = IF ConflictAt(q, pending) THEN None ELSE Kind(q)
            /\ ConflictAt(q, pending) => q \in work'.conflicts
        BY <2>1, <2>2, <2>3 DEF Mapping, Plan
      <3>2. Kind(q) \in {"keep", "install", "update"} /\ (Kind(q) = "keep" => disk[q] = "link")
        BY DEF Kind
      <3> QED BY <2>1, <2>2, <3>1, <3>2 DEF PlanOK, ConflictAt, Doings
    <2>4. CASE q \notin Mapping(options.dir)
      <3>1. /\ q \notin Mapping(work.dir)'
            /\ work'.todo[q] = IF q \in Discovered(options.dir) THEN "remove" ELSE None
            /\ Discovered(work.dir)' = Discovered(options.dir)
        BY <2>1, <2>2, <2>4 DEF Mapping, Plan, Discovered
      <3>2. q \in Discovered(options.dir) => disk[q] \in Ours
        BY DEF Discovered
      <3> QED BY <2>1, <2>2, <3>1, <3>2 DEF PlanOK, Doings, Ours
    <2> QED BY <2>3, <2>4
  <1>2. ASSUME NEW p \in Paths, Do(p) PROVE TodoOK'
    <2>1. /\ work \in Works /\ work.at = "apply" /\ work.todo[p] # None /\ bundle' = bundle
      BY <1>2 DEF Do, TypeOK
    <2>2. PICK t \in Doings \cup {None}, e \in {work.errors, work.errors \cup {p}},
               d \in Contents :
            /\ work' = [work EXCEPT !.todo[p] = t, !.errors = e]
            /\ disk' = [disk EXCEPT ![p] = d]
            /\ \/ Refuses(p, work.todo[p]) /\ t = None /\ p \in e /\ d = disk[p]
               \/ /\ d = Left(p, work.todo[p])
                  /\ t = IF work.todo[p] = "update" THEN "link" ELSE None
      BY <1>2, DoIsOneUpdate
    <2>3. /\ work'.dir = work.dir /\ work'.touched = work.touched /\ work'.force = work.force
          /\ work'.conflicts = work.conflicts /\ work'.errors = e
          /\ work'.todo = [work.todo EXCEPT ![p] = t]
      BY <2>1, <2>2 DEF Works
    <2>4. Mapping(work.dir)' = Mapping(work.dir)
      BY <2>1, <2>3 DEF Mapping
    <2>5. work.todo \in [Paths -> Doings \cup {None}] /\ disk \in [Paths -> Contents]
      BY <2>1 DEF Works, TypeOK
    <2> SUFFICES ASSUME NEW q \in Paths \ work.touched PROVE PlanOK(q)'
      BY <2>3 DEF TodoOK
    <2>6. PlanOK(q)
      BY <2>1 DEF TodoOK
    <2>7. CASE q # p
      <3>1. work'.todo[q] = work.todo[q] /\ disk'[q] = disk[q]
        BY <2>2, <2>3, <2>5, <2>7
      <3>2. q \in Discovered(work.dir)' <=> q \in Discovered(work.dir)
        BY <2>3, <3>1 DEF Discovered
      <3> QED BY <2>2, <2>3, <2>4, <2>6, <3>1, <3>2 DEF PlanOK
    <2>8. CASE q = p
      <3>1. work'.todo[p] = t /\ disk'[p] = d
        BY <2>2, <2>3, <2>5
      <3>2. q \in Discovered(work.dir)' => d \in Ours
        BY <2>8, <3>1 DEF Discovered
      <3>3. CASE Refuses(p, work.todo[p]) /\ t = None /\ p \in e /\ d = disk[p]
        BY <2>3, <2>4, <2>6, <2>8, <3>1, <3>3 DEF PlanOK, Doings
      <3>4. CASE /\ d = Left(p, work.todo[p])
                 /\ t = IF work.todo[p] = "update" THEN "link" ELSE None
        BY <2>1, <2>3, <2>4, <2>5, <2>6, <2>8, <3>1, <3>2, <3>4 DEF PlanOK, Left,
           Doings, Ours
      <3> QED BY <2>2, <3>3, <3>4
    <2> QED BY <2>7, <2>8
  <1>3. ASSUME Surface PROVE TodoOK'
    <2>1. work'.at = "token"
      BY <1>3 DEF Surface, TypeOK, Works
    <2> QED BY <2>1 DEF TodoOK
  <1>4. ASSUME Token PROVE TodoOK'
    <2>1. work'.at \in {"register", "write"}
      BY <1>4 DEF Token, TypeOK, Works
    <2> QED BY <2>1 DEF TodoOK
  <1>5. ASSUME Write PROVE TodoOK'
    <2>1. work'.at = "register"
      BY <1>5 DEF Write, TypeOK, Works
    <2> QED BY <2>1 DEF TodoOK
  <1>6. ASSUME Register PROVE TodoOK'
    BY <1>6 DEF Register, TodoOK
  <1>7. ASSUME NEW i \in Issue, Submit(i) PROVE TodoOK'
    BY <1>7, PlanKept DEF Submit
  <1>8. ASSUME NEW o \in Options, SetOptions(o) PROVE TodoOK'
    BY <1>8, PlanKept DEF SetOptions
  <1>9. ASSUME Remove PROVE TodoOK'
    BY <1>9 DEF Remove, TodoOK
  <1>10. ASSUME Add PROVE TodoOK'
    BY <1>10, PlanKept DEF Add
  <1>11. ASSUME NEW b \in SUBSET (Blueprints \cup Tools), HaRestarts(b)
         PROVE  TodoOK'
    BY <1>11 DEF HaRestarts, TodoOK
  <1>12. ASSUME NEW p \in Paths, NEW k \in {"none", "foreign", "file", "dir"},
                 HandEdit(p, k)
         PROVE  TodoOK'
    <2>1. CASE work = None
      BY <1>12, <2>1 DEF HandEdit, Touched, TodoOK
    <2>2. CASE work # None
      <3>1. /\ work'.touched = work.touched \cup {p} /\ work'.at = work.at
            /\ work'.dir = work.dir /\ work'.todo = work.todo /\ work'.force = work.force
            /\ work'.conflicts = work.conflicts /\ work'.errors = work.errors
        BY <1>12, <2>2 DEF HandEdit, Touched, TypeOK, Works
      <3>2. ASSUME NEW q \in Paths \ work'.touched, PlanOK(q) PROVE PlanOK(q)'
        <4>1. disk'[q] = disk[q] /\ bundle' = bundle
          BY <1>12, <3>1, <3>2 DEF HandEdit, TypeOK
        <4> QED BY <3>1, <3>2, <4>1 DEF PlanOK, Mapping, Discovered
      <3> QED BY <2>2, <3>1, <3>2 DEF TodoOK
    <2> QED BY <2>1, <2>2
  <1>13. ASSUME NEW p \in Paths, Break(p) PROVE TodoOK'
    BY <1>13, PlanKept DEF Break
  <1>14. ASSUME Revoke PROVE TodoOK'
    BY <1>14, PlanKept DEF Revoke
  <1>15. ASSUME UNCHANGED vars PROVE TodoOK'
    BY <1>15 DEF vars, TodoOK, PlanOK, Mapping, Discovered
  <1>16. ASSUME TokenFails PROVE TodoOK'
    <2>1. work'.at = "register"
      BY <1>16 DEF TokenFails, TypeOK, Works
    <2> QED BY <2>1 DEF TodoOK
  <1>17. ASSUME WriteFails PROVE TodoOK'
    <2>1. work'.at = "register"
      BY <1>17 DEF WriteFails, TypeOK, Works
    <2> QED BY <2>1 DEF TodoOK
  <1> QED
    BY <1>1, <1>2, <1>3, <1>4, <1>5, <1>6, <1>7, <1>8, <1>9, <1>10, <1>11, <1>12,
       <1>13, <1>14, <1>15, <1>16, <1>17, BundleChoice DEF Next, System, Surroundings

\* Once the plan is carried out, the issues name what it could not do.
LEMMA AccountedStep == TypeOK /\ TodoOK /\ Accounted /\ [Next]_vars => Accounted'
  <1> SUFFICES ASSUME TypeOK, TodoOK, Accounted, [Next]_vars PROVE Accounted'
    OBVIOUS
  <1> USE InstallerAssumption
  <1>1. ASSUME NEW why \in reloads, Begin(why) PROVE Accounted'
    BY <1>1 DEF Begin, Accounted
  <1>2. ASSUME NEW p \in Paths, Do(p) PROVE Accounted'
    <2>1. work'.at = "apply"
      BY <1>2, DoIsOneUpdate DEF Do, TypeOK, Works
    <2> QED BY <2>1 DEF Accounted
  <1>3. ASSUME Surface PROVE Accounted'
    <2>1. /\ work'.at = "token" /\ work'.dir = work.dir /\ work'.touched = work.touched
          /\ work'.conflicts = work.conflicts /\ work'.errors = work.errors
      BY <1>3 DEF Surface, TypeOK, Works
    <2>2. issues'["conflicts"] = work.conflicts /\ issues'["failure"] = work.errors
      BY <1>3 DEF Surface, Show, Issue
    <2>3. Mapping(work.dir)' = Mapping(work.dir) /\ Discovered(work.dir)' = Discovered(work.dir)
      BY <1>3, <2>1 DEF Surface, Mapping, Discovered
    <2>4. \A q \in Paths \ work.touched : PlanOK(q) /\ work.todo[q] = None
      BY <1>3 DEF Surface, TodoOK
    <2>5. None # "remove"
      BY DEF Doings
    <2>6. \A q \in Mapping(work.dir) \ work.touched :
            disk[q] = "link" \/ q \in work.conflicts \cup work.errors
      BY <2>4, <2>5 DEF PlanOK, Mapping
    <2>7. Discovered(work.dir) \subseteq Mapping(work.dir) \cup work.touched \cup work.errors
      BY <2>4, <2>5 DEF PlanOK, Discovered
    <2>8. disk' = disk
      BY <1>3 DEF Surface
    <2> QED BY <2>1, <2>2, <2>3, <2>6, <2>7, <2>8 DEF Accounted
  <1>4. ASSUME Token PROVE Accounted'
    <2>1. /\ work # None /\ work.at = "token" /\ issues' = issues /\ disk' = disk
          /\ bundle' = bundle
      BY <1>4 DEF Token
    <2>2. /\ work'.dir = work.dir /\ work'.touched = work.touched
          /\ work'.conflicts = work.conflicts /\ work'.errors = work.errors
      BY <1>4 DEF Token, TypeOK, Works
    <2> QED BY <2>1, <2>2 DEF Accounted, Mapping, Discovered
  <1>5. ASSUME Write PROVE Accounted'
    <2>1. /\ work # None /\ work.at = "write" /\ issues' = issues /\ disk' = disk
          /\ bundle' = bundle
      BY <1>5 DEF Write
    <2>2. /\ work'.dir = work.dir /\ work'.touched = work.touched
          /\ work'.conflicts = work.conflicts /\ work'.errors = work.errors
      BY <1>5 DEF Write, TypeOK, Works
    <2> QED BY <2>1, <2>2 DEF Accounted, Mapping, Discovered
  <1>6. ASSUME Register PROVE Accounted'
    BY <1>6 DEF Register, Accounted
  <1>7. ASSUME NEW i \in Issue, Submit(i) PROVE Accounted'
    BY <1>7 DEF Submit, Accounted, Mapping, Discovered
  <1>8. ASSUME NEW o \in Options, SetOptions(o) PROVE Accounted'
    BY <1>8 DEF SetOptions, Accounted, Mapping, Discovered
  <1>9. ASSUME Remove PROVE Accounted'
    BY <1>9 DEF Remove, Accounted
  <1>10. ASSUME Add PROVE Accounted'
    BY <1>10 DEF Add, Accounted, Mapping, Discovered
  <1>11. ASSUME NEW b \in SUBSET (Blueprints \cup Tools), HaRestarts(b)
         PROVE  Accounted'
    BY <1>11 DEF HaRestarts, Accounted
  <1>12. ASSUME NEW p \in Paths, NEW k \in {"none", "foreign", "file", "dir"},
                 HandEdit(p, k)
         PROVE  Accounted'
    <2>1. CASE work = None
      BY <1>12, <2>1 DEF HandEdit, Touched, Accounted
    <2>2. CASE work # None
      <3>1. /\ work'.touched = work.touched \cup {p} /\ work'.at = work.at
            /\ work'.dir = work.dir
            /\ work'.conflicts = work.conflicts /\ work'.errors = work.errors
        BY <1>12, <2>2 DEF HandEdit, Touched, TypeOK, Works
      <3>2. /\ issues' = issues /\ bundle' = bundle
            /\ \A q \in Paths \ {p} : disk'[q] = disk[q]
        BY <1>12 DEF HandEdit, TypeOK
      <3>3. /\ Mapping(work.dir)' = Mapping(work.dir)
            /\ Discovered(work.dir)' \subseteq Discovered(work.dir) \cup {p}
        BY <3>1, <3>2 DEF Mapping, Discovered
      <3>4. Mapping(work.dir) \subseteq Paths
        BY DEF Mapping
      <3> QED BY <2>2, <3>1, <3>2, <3>3, <3>4 DEF Accounted
    <2> QED BY <2>1, <2>2
  <1>13. ASSUME NEW p \in Paths, Break(p) PROVE Accounted'
    BY <1>13 DEF Break, Accounted, Mapping, Discovered
  <1>14. ASSUME Revoke PROVE Accounted'
    BY <1>14 DEF Revoke, Accounted, Mapping, Discovered
  <1>15. ASSUME UNCHANGED vars PROVE Accounted'
    BY <1>15 DEF vars, Accounted, Mapping, Discovered
  <1>16. ASSUME TokenFails PROVE Accounted'
    <2>1. /\ work # None /\ work.at = "token" /\ issues' = issues /\ disk' = disk
          /\ bundle' = bundle
      BY <1>16 DEF TokenFails
    <2>2. /\ work'.dir = work.dir /\ work'.touched = work.touched
          /\ work'.conflicts = work.conflicts /\ work'.errors = work.errors
      BY <1>16 DEF TokenFails, TypeOK, Works
    <2> QED BY <2>1, <2>2 DEF Accounted, Mapping, Discovered
  <1>17. ASSUME WriteFails PROVE Accounted'
    <2>1. /\ work # None /\ work.at = "write" /\ issues' = issues /\ disk' = disk
          /\ bundle' = bundle
      BY <1>17 DEF WriteFails
    <2>2. /\ work'.dir = work.dir /\ work'.touched = work.touched
          /\ work'.conflicts = work.conflicts /\ work'.errors = work.errors
      BY <1>17 DEF WriteFails, TypeOK, Works
    <2> QED BY <2>1, <2>2 DEF Accounted, Mapping, Discovered
  <1> QED
    BY <1>1, <1>2, <1>3, <1>4, <1>5, <1>6, <1>7, <1>8, <1>9, <1>10, <1>11, <1>12,
       <1>13, <1>14, <1>15, <1>16, <1>17, BundleChoice DEF Next, System, Surroundings

\* Whatever leaves another file than the live token's is noted.
LEMMA TokenStep == TypeOK /\ TokenOK /\ [Next]_vars => TokenOK'
  <1> SUFFICES ASSUME TypeOK, TokenOK, [Next]_vars PROVE TokenOK'
    OBVIOUS
  <1> USE InstallerAssumption
  <1>1. ASSUME NEW why \in reloads, Begin(why) PROVE TokenOK'
    BY <1>1 DEF Begin, TokenOK
  <1>2. ASSUME NEW p \in Paths, Do(p) PROVE TokenOK'
    <2>1. work # None /\ work.at = "apply" /\ token' = token
      BY <1>2 DEF Do
    <2> QED BY <2>1 DEF TokenOK
  <1>3. ASSUME Surface PROVE TokenOK'
    <2>1. work # None /\ work.at = "apply" /\ token' = token
      BY <1>3 DEF Surface
    <2> QED BY <2>1 DEF TokenOK
  <1>4. ASSUME Token PROVE TokenOK'
    <2>1. work \in Works /\ work.at = "token"
      BY <1>4 DEF Token, TypeOK
    <2>2. token.live # 0 /\ token.file # 0 => token.file = token.live \/ token.failed
      BY <2>1 DEF TokenOK
    <2>3. CASE ~options.token
      <3>1. token'.live = 0
        BY <1>4, <2>3 DEF Token, NoToken, TypeOK
      <3> QED BY <3>1 DEF TokenOK
    <2>4. CASE options.token /\ token.live # 0 /\ token.file # 0
      <3>1. token' = token
        BY <1>4, <2>4 DEF Token
      <3> QED BY <2>2, <3>1 DEF TokenOK
    <2>5. CASE options.token /\ ~(token.live # 0 /\ token.file # 0)
      <3>1. work' = [work EXCEPT !.token = options.token, !.at = "write"]
        BY <1>4, <2>5 DEF Token
      <3>2. work'.at = "write" /\ work' \in Works
        BY <2>1, <2>5, <3>1 DEF Works, TypeOK, Options
      <3> QED BY <3>2 DEF TokenOK
    <2> QED BY <2>3, <2>4, <2>5
  <1>5. ASSUME Write PROVE TokenOK'
    <2>1. token'.file = token.made /\ token'.live = token.live
      BY <1>5 DEF Write, TypeOK
    <2> QED BY <2>1 DEF TokenOK, TypeOK
  <1>6. ASSUME Register PROVE TokenOK'
    <2>1. work # None /\ work.at = "register" /\ token' = token
      BY <1>6 DEF Register
    <2> QED BY <2>1 DEF TokenOK
  <1>7. ASSUME NEW i \in Issue, Submit(i) PROVE TokenOK'
    BY <1>7 DEF Submit, TokenOK
  <1>8. ASSUME NEW o \in Options, SetOptions(o) PROVE TokenOK'
    BY <1>8 DEF SetOptions, TokenOK
  <1>9. ASSUME Remove PROVE TokenOK'
    <2>1. token'.live = 0
      BY <1>9 DEF Remove, NoToken, TypeOK
    <2> QED BY <2>1 DEF TokenOK
  <1>10. ASSUME Add PROVE TokenOK'
    BY <1>10 DEF Add, TokenOK
  <1>11. ASSUME NEW b \in SUBSET (Blueprints \cup Tools), HaRestarts(b)
         PROVE  TokenOK'
    <2>1. /\ token'.live = token.live /\ token'.file = token.file
          /\ token'.failed = (token.failed \/ (work # None /\ work.at = "write"))
      BY <1>11 DEF HaRestarts, TypeOK
    <2> QED BY <2>1 DEF TokenOK
  <1>12. ASSUME NEW p \in Paths, NEW k \in {"none", "foreign", "file", "dir"},
                 HandEdit(p, k)
         PROVE  TokenOK'
    <2>1. token' = token /\ (work # None => work' = [work EXCEPT !.touched = @ \cup {p}])
      BY <1>12 DEF HandEdit, Touched
    <2>2. work # None => work' # None /\ work'.at = work.at
      BY <2>1 DEF TypeOK, Works
    <2> QED BY <2>1, <2>2 DEF TokenOK
  <1>13. ASSUME NEW p \in Paths, Break(p) PROVE TokenOK'
    BY <1>13 DEF Break, TokenOK
  <1>14. ASSUME Revoke PROVE TokenOK'
    <2>1. work' = work /\ (token'.live = 0 \/ token'.file = 0)
      BY <1>14 DEF Revoke, TypeOK
    <2> QED BY <2>1 DEF TokenOK
  <1>15. ASSUME UNCHANGED vars PROVE TokenOK'
    BY <1>15 DEF vars, TokenOK
  <1>16. ASSUME TokenFails PROVE TokenOK'
    <2>1. token'.failed
      BY <1>16 DEF TokenFails, TypeOK
    <2> QED BY <2>1 DEF TokenOK
  <1>17. ASSUME WriteFails PROVE TokenOK'
    <2>1. token'.failed
      BY <1>17 DEF WriteFails, TypeOK
    <2> QED BY <2>1 DEF TokenOK
  <1> QED
    BY <1>1, <1>2, <1>3, <1>4, <1>5, <1>6, <1>7, <1>8, <1>9, <1>10, <1>11, <1>12,
       <1>13, <1>14, <1>15, <1>16, <1>17, BundleChoice DEF Next, System, Surroundings

\* Only a planned action changes the disk without interfering.
LEMMA SparedStep == TypeOK /\ TodoOK /\ [Next]_vars => [Spared]_vars
  <1> SUFFICES ASSUME TypeOK, TodoOK, [Next]_vars PROVE [Spared]_vars
    OBVIOUS
  <1>1. ASSUME NEW why \in reloads, Begin(why) PROVE [Spared]_vars
    BY <1>1 DEF Begin, Spared
  <1>2. ASSUME NEW p \in Paths, Do(p) PROVE [Spared]_vars
    <2>1. work # None /\ work.at = "apply" /\ work.todo[p] # None
      BY <1>2 DEF Do
    <2>2. \A q \in Paths : disk'[q] # disk[q] => q = p
      BY <1>2 DEF Do, TypeOK
    <2>3. p \notin work.touched => PlanOK(p)
      BY <2>1 DEF TodoOK
    <2> QED BY <2>1, <2>2, <2>3 DEF Spared, PlanOK
  <1>3. ASSUME Surface PROVE [Spared]_vars
    BY <1>3 DEF Surface, Spared
  <1>4. ASSUME Token PROVE [Spared]_vars
    BY <1>4 DEF Token, Spared
  <1>5. ASSUME Write PROVE [Spared]_vars
    BY <1>5 DEF Write, Spared
  <1>6. ASSUME Register PROVE [Spared]_vars
    BY <1>6 DEF Register, Spared
  <1>7. ASSUME NEW i \in Issue, Submit(i) PROVE [Spared]_vars
    BY <1>7 DEF Submit, Spared, Interfere, May, TypeOK
  <1>8. ASSUME NEW o \in Options, SetOptions(o) PROVE [Spared]_vars
    BY <1>8 DEF SetOptions, Spared, Interfere, May, TypeOK
  <1>9. ASSUME Remove PROVE [Spared]_vars
    BY <1>9 DEF Remove, Spared, Interfere, May, TypeOK
  <1>10. ASSUME Add PROVE [Spared]_vars
    BY <1>10 DEF Add, Spared, Interfere, May, TypeOK
  <1>11. ASSUME NEW b \in SUBSET (Blueprints \cup Tools), HaRestarts(b)
         PROVE  [Spared]_vars
    BY <1>11 DEF HaRestarts, Spared, Interfere, May, TypeOK
  <1>12. ASSUME NEW p \in Paths, NEW k \in {"none", "foreign", "file", "dir"},
                 HandEdit(p, k)
         PROVE  [Spared]_vars
    BY <1>12 DEF HandEdit, Spared, Interfere, May, TypeOK
  <1>13. ASSUME NEW p \in Paths, Break(p) PROVE [Spared]_vars
    BY <1>13 DEF Break, Spared, Interfere, May, TypeOK
  <1>14. ASSUME Revoke PROVE [Spared]_vars
    BY <1>14 DEF Revoke, Spared, Interfere, May, TypeOK
  <1>15. ASSUME UNCHANGED vars PROVE [Spared]_vars
    BY <1>15 DEF vars, Spared
  <1>16. ASSUME TokenFails PROVE [Spared]_vars
    BY <1>16 DEF TokenFails, Spared
  <1>17. ASSUME WriteFails PROVE [Spared]_vars
    BY <1>17 DEF WriteFails, Spared
  <1> QED
    BY <1>1, <1>2, <1>3, <1>4, <1>5, <1>6, <1>7, <1>8, <1>9, <1>10, <1>11, <1>12,
       <1>13, <1>14, <1>15, <1>16, <1>17, BundleChoice DEF Next, System, Surroundings

\* The types of the initial states.
LEMMA InitTypes == Init => TypeOK
  <1> SUFFICES ASSUME Init PROVE TypeOK
    OBVIOUS
  <1>1. disk \in [Paths -> Contents]
    BY DEF Init, Contents, Ours
  <1>2. reloads \subseteq Reasons /\ issues \in [Issue -> SUBSET Paths]
    BY DEF Init, Reasons
  <1>3. /\ token \in [live : Nat, file : Nat \cup {None}, made : Nat, failed : BOOLEAN] /\ token.live \in {0, token.made}
        /\ trouble \in Nat
    BY InstallerAssumption DEF Init
  <1> QED BY <1>1, <1>2, <1>3 DEF Init, TypeOK

(* The types of every state of the setup.                                  *)
THEOREM TypeCorrect == Spec => []TypeOK
  BY InitTypes, TypeStep, PTL DEF Spec

\* The inductive invariant of the plan.
LEMMA InstallerInductive == Spec => [](TypeOK /\ TodoOK /\ Accounted)
  <1>1. Init => TodoOK /\ Accounted
    BY DEF Init, TodoOK, Accounted
  <1> QED BY <1>1, InitTypes, TypeStep, TodoStep, AccountedStep, PTL DEF Spec

(* Once a setup has shown its issues, every destination is linked, named   *)
(* by an issue or touched since, and no other link of ours is left unnamed *)
(* (_surface_conflicts, _surface_failure, installer.apply).                *)
THEOREM SetupAccounts == Spec => []Accounted
  BY InstallerInductive, PTL

(* "the installer refuses to overwrite them unless explicitly forced"      *)
(* (reconciler.py:6): what is not the toolkit's own is deleted only where  *)
(* a Submit said so or somebody put it after the plan.                     *)
THEOREM NothingIsClobbered == Spec => NothingClobbered
  <1>1. TypeOK /\ TodoOK /\ [Next]_vars => [Spared]_vars
    BY SparedStep
  <1>2. Spec => [][Spared]_vars
    BY <1>1, InstallerInductive, PTL DEF Spec
  <1> QED BY <1>2 DEF NothingClobbered, Spared

(* From the end of a setup until a revocation the token in the file is the *)
(* one HA knows, unless the last to write or delete it failed or was cut   *)
(* (cli_token.async_apply): whatever came before, a step that succeeds is  *)
(* enough.                                                                 *)
THEOREM TokenStaysUsable == Spec => []TokenUsable
  <1>1. Init => TokenOK
    BY DEF Init, TokenOK
  <1>2. TokenOK => TokenUsable
    BY DEF TokenOK, TokenUsable
  <1>3. TypeOK /\ TokenOK /\ [Next]_vars => TokenOK'
    BY TokenStep
  <1> QED BY <1>1, <1>2, <1>3, TypeCorrect, PTL DEF Spec
================================================================================
