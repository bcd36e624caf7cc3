----------------------- MODULE ParameterManagerProofs -----------------------
(***************************************************************************)
(* Theorems about ParameterManager, for all nodes, policy files, bounds    *)
(* and surroundings: the types; that what the pending file lists for this  *)
(* driver session is delivered or in the driver's queue; that a handler    *)
(* that is alone issues a write again only after a reset.                  *)
(*                                                                         *)
(* The last two need to know what a run under way has seen, against what   *)
(* is true by the time it writes.  OnTarget and Kept say it where nobody   *)
(* edits the policy file, KeptAlone and AccountedFor for a handler that is *)
(* alone.                                                                  *)
(***************************************************************************)
EXTENDS ParameterManager, TLAPS

\* A plan of the table is what the planner makes of the file and the nodes.
LEMMA PlanIsEvaluated ==
  ASSUME NEW t \in Texts, ~ConfigErrors(t), NEW n \in SUBSET Nodes
  PROVE  /\ PlanOf(t, n) = EvaluatePolicies(Fleet(n), ParsedPolicies(t))
         /\ \E p \in Plans : p.plan = PlanOf(t, n)
  <1> DEFINE one == [text |-> t, nodes |-> n,
                     plan |-> EvaluatePolicies(Fleet(n), ParsedPolicies(t))]
             chosen == CHOOSE p \in Plans : p.text = t /\ p.nodes = n
  <1>1. one \in Plans /\ one.text = t /\ one.nodes = n
    BY DEF Plans
  <1>2. chosen \in Plans /\ chosen.text = t /\ chosen.nodes = n
    BY <1>1
  <1>3. PlanOf(t, n) = chosen.plan
    BY DEF PlanOf
  <1> HIDE DEF chosen
  <1>4. PICK u \in Texts, m \in SUBSET Nodes :
           chosen = [text |-> u, nodes |-> m,
                     plan |-> EvaluatePolicies(Fleet(m), ParsedPolicies(u))]
    BY <1>2 DEF Plans
  <1>5. u = t /\ m = n
    BY <1>2, <1>4
  <1> QED BY <1>2, <1>3, <1>4, <1>5

\* The writes of a plan, ask by ask.
LEMMA WritesOfPlan ==
  ASSUME NEW D, NEW P
  PROVE  \A w : w \in EvaluatePolicies(D, P).writes <=>
           \E a \in Asks(D, P) : /\ ~Contested(a, Asks(D, P)) /\ Answer(a).status = "resolved"
                                 /\ w = Write(a)
  <1> DEFINE asks     == Asks(D, P)
             clashing == {a \in asks : Contested(a, asks)}
             resolved == {a \in asks \ clashing : Answer(a).status \in {"resolved"}}
  <1>1. EvaluatePolicies(D, P).writes = {Write(a) : a \in resolved}
    BY DEF EvaluatePolicies
  <1> HIDE DEF asks
  <1> QED BY <1>1 DEF asks

\* What is asked of a device does not depend on the others there are.
LEMMA AsksOfDevice ==
  ASSUME NEW D, NEW E, D \subseteq E, NEW P
  PROVE  /\ Asks(D, P) = {a \in Asks(E, P) : a.device \in D}
         /\ \A a \in Asks(D, P) : Contested(a, Asks(D, P)) <=> Contested(a, Asks(E, P))
  <1>1. Asks(D, P) = {a \in Asks(E, P) : a.device \in D}
    BY DEF Asks
  <1>2. ASSUME NEW a \in Asks(D, P)
        PROVE  Contested(a, Asks(D, P)) <=> Contested(a, Asks(E, P))
    BY <1>1 DEF Contested
  <1> QED BY <1>1, <1>2

\* The answer names a parameter of the device.
LEMMA AnswerIsParam ==
  ASSUME NEW a, Answer(a).status = "resolved"
  PROVE  \E p \in a.device.params : Answer(a).id = p.id
  <1> DEFINE v     == a.policy.settings[a.concept]
             found == MatchingParams(a.device, Locators[a.concept])
             key   == <<a.concept, a.device.maker, a.device.model>>
             quirk == IF key \in DOMAIN Quirks THEN Quirks[key] ELSE None
             p     == CHOOSE q \in found : TRUE
             raw   == Raw(p, a.concept, v, quirk)
  <1>1. Answer(a) =
          IF a.concept \notin DOMAIN Locators THEN Failed("unmappable")
          ELSE IF found = {} THEN Failed("not_applicable")
          ELSE IF Cardinality(found) > 1 THEN Failed("ambiguous")
          ELSE IF raw = None THEN Failed("unmappable")
          ELSE [status |-> "resolved", id |-> p.id, value |-> raw]
    BY DEF Answer, Resolve
  <1> HIDE DEF raw, found
  <1>2. found # {} /\ Answer(a).id = p.id
    BY <1>1 DEF Failed
  <1>3. p \in found
    BY <1>2
  <1>4. found \subseteq a.device.params
    BY DEF found, MatchingParams
  <1> QED BY <1>2, <1>3, <1>4

\* Which writes there are for a key.
LEMMA WritesOfFleet ==
  ASSUME NEW n \in SUBSET Nodes, NEW P,
         NEW w \in EvaluatePolicies(Fleet(n), P).writes
  PROVE  \E x \in n : /\ w.device = Device(x) /\ w.device.node = x.id
                      /\ <<x.id, w.id>> \in Keys
  <1>1. PICK a \in Asks(Fleet(n), P) : Answer(a).status = "resolved" /\ w = Write(a)
    BY WritesOfPlan
  <1>2. PICK x \in n : a.device = Device(x)
    BY DEF Asks, Fleet
  <1>3. PICK p \in Device(x).params : w.id = p.id
    BY <1>1, <1>2, AnswerIsParam DEF Write
  <1>4. Device(x).node = x.id /\ Device(x).params = ParamMetas(x.values)
    BY DEF Device
  <1>5. PICK v \in x.values : Settable(v) /\ p.id = v.id
    BY <1>3, <1>4 DEF ParamMetas
  <1>6. <<x.id, v.id>> \in {<<x.id, u.id>> : u \in {y \in x.values : Settable(y)}}
    BY <1>5
  <1>7. <<x.id, v.id>> \in Keys
    BY <1>6 DEF Keys
  <1>8. w.device = Device(x)
    BY <1>1, <1>2 DEF Write
  <1> QED BY <1>3, <1>4, <1>5, <1>7, <1>8
\* What is wanted for a key is what a write of the plan says.
LEMMA WantedOfPlan ==
  ASSUME NEW plan
  PROVE  /\ DOMAIN Wanted(plan) = {<<w.device.node, w.id>> : w \in plan.writes}
         /\ \A k \in DOMAIN Wanted(plan) :
              /\ Wanted(plan)[k] = CHOOSE raw \in RawsFor(plan, k) : TRUE
              /\ \E w \in plan.writes : <<w.device.node, w.id>> = k /\ w.value = Wanted(plan)[k]
  <1> DEFINE keys == {<<w.device.node, w.id>> : w \in plan.writes}
             f == [k \in keys |-> CHOOSE raw \in RawsFor(plan, k) : TRUE]
  <1>1. Wanted(plan) = f
    BY DEF Wanted
  <1>2. ASSUME NEW k \in keys
        PROVE  \E w \in plan.writes : <<w.device.node, w.id>> = k /\ w.value = f[k]
    <2>1. PICK w \in plan.writes : <<w.device.node, w.id>> = k
      BY <1>2
    <2>2. w.value \in RawsFor(plan, k)
      BY <2>1 DEF RawsFor
    <2>3. f[k] \in RawsFor(plan, k)
      BY <2>2
    <2> QED BY <2>3 DEF RawsFor
  <1>3. DOMAIN f = keys /\ \A k \in keys : f[k] = CHOOSE raw \in RawsFor(plan, k) : TRUE
    OBVIOUS
  <1> HIDE DEF f
  <1> QED BY <1>1, <1>2, <1>3

\* What a plan wants may stand in the queue and in the pending file.
LEMMA WantedIsTyped ==
  ASSUME NEW t \in Texts, ~ConfigErrors(t), NEW n \in SUBSET Nodes
  PROVE  /\ Wanted(PlanOf(t, n)) \in Wants
         /\ \A k \in DOMAIN Wanted(PlanOf(t, n)) : k \in Keys /\ k[1] \in Ids(n)
  <1> DEFINE plan == PlanOf(t, n)
             want == Wanted(plan)
  <1>1. plan.writes = EvaluatePolicies(Fleet(n), ParsedPolicies(t)).writes
    BY PlanIsEvaluated
  <1>2. PICK p \in Plans : p.plan = plan
    BY PlanIsEvaluated
  <1> HIDE DEF plan
  <1>3. ASSUME NEW k \in DOMAIN want
        PROVE  k \in Keys /\ k[1] \in Ids(n) /\ want[k] \in Raws
    <2>1. PICK w \in plan.writes : <<w.device.node, w.id>> = k /\ w.value = want[k]
      BY <1>3, WantedOfPlan
    <2>2. PICK x \in n : w.device.node = x.id /\ <<x.id, w.id>> \in Keys
      BY <1>1, <2>1, WritesOfFleet
    <2>3. want[k] \in Raws
      BY <1>2, <2>1 DEF Raws
    <2> QED BY <2>1, <2>2, <2>3 DEF Ids
  <1>4. want = [k \in DOMAIN want |-> want[k]]
    BY DEF Wanted
  <1>5. want \in [DOMAIN want -> Raws]
    BY <1>3, <1>4
  <1>6. want \in Wants
    BY <1>3, <1>5 DEF Wants
  <1> QED BY <1>3, <1>6 DEF plan

\* A node that joins changes nothing for those there are.
LEMMA PlanIsStable ==
  ASSUME NEW t \in Texts, ~ConfigErrors(t), NEW m \in SUBSET Nodes, NEW n \in SUBSET m
  PROVE  LET less == Wanted(PlanOf(t, n))
             more == Wanted(PlanOf(t, m))
         IN \A k : /\ k \in DOMAIN less <=> (k \in DOMAIN more /\ k[1] \in Ids(n))
                   /\ k \in DOMAIN less => less[k] = more[k]
  <1> DEFINE P    == ParsedPolicies(t)
             ones(s) == EvaluatePolicies(Fleet(s), P).writes
             less == Wanted(PlanOf(t, n))
             more == Wanted(PlanOf(t, m))
  <1>1. PlanOf(t, n).writes = ones(n) /\ PlanOf(t, m).writes = ones(m)
    BY PlanIsEvaluated
  <1>2. \A w : w \in ones(n) <=> w \in ones(m) /\ w.device \in Fleet(n)
    <2>1. Fleet(n) \subseteq Fleet(m)
      BY DEF Fleet
    <2>2. /\ Asks(Fleet(n), P) = {a \in Asks(Fleet(m), P) : a.device \in Fleet(n)}
          /\ \A a \in Asks(Fleet(n), P) :
               Contested(a, Asks(Fleet(n), P)) <=> Contested(a, Asks(Fleet(m), P))
      BY <2>1, AsksOfDevice
    <2>3. \A a : Write(a).device = a.device
      BY DEF Write
    <2> QED BY <2>2, <2>3, WritesOfPlan
  <1>3. \A w \in ones(m) : w.device \in Fleet(n) <=> w.device.node \in Ids(n)
    <2> SUFFICES ASSUME NEW w \in ones(m)
                 PROVE  w.device \in Fleet(n) <=> w.device.node \in Ids(n)
      OBVIOUS
    <2>1. PICK x \in m : w.device = Device(x) /\ w.device.node = x.id
      BY WritesOfFleet
    <2>2. ASSUME w.device.node \in Ids(n) PROVE w.device \in Fleet(n)
      <3>1. PICK y \in n : y.id = x.id
        BY <2>1, <2>2 DEF Ids
      <3>2. y = x
        BY <3>1, ManagerAssumption
      <3> QED BY <2>1, <3>1, <3>2 DEF Fleet
    <2>3. ASSUME w.device \in Fleet(n) PROVE w.device.node \in Ids(n)
      BY <2>3 DEF Fleet, Ids, Device
    <2> QED BY <2>2, <2>3
  <1>4. ASSUME NEW k, k[1] \in Ids(n)
        PROVE  RawsFor(PlanOf(t, n), k) = RawsFor(PlanOf(t, m), k)
    <2> HIDE DEF ones
    <2>1. \A w : w \in ones(m) /\ <<w.device.node, w.id>> = k => w \in ones(n)
      BY <1>2, <1>3, <1>4
    <2>2. \A w : w \in ones(n) => w \in ones(m)
      BY <1>2
    <2> QED BY <1>1, <2>1, <2>2 DEF RawsFor
  <1>5. ASSUME NEW k
        PROVE  k \in DOMAIN less <=> (k \in DOMAIN more /\ k[1] \in Ids(n))
    <2> HIDE DEF ones
    <2>1. DOMAIN less = {<<w.device.node, w.id>> : w \in ones(n)}
      BY <1>1, WantedOfPlan
    <2>2. DOMAIN more = {<<w.device.node, w.id>> : w \in ones(m)}
      BY <1>1, WantedOfPlan
    <2>3. ASSUME k \in DOMAIN less PROVE k \in DOMAIN more /\ k[1] \in Ids(n)
      <3>1. PICK w \in ones(n) : k = <<w.device.node, w.id>>
        BY <2>1, <2>3
      <3> QED BY <1>2, <1>3, <2>2, <3>1
    <2>4. ASSUME k \in DOMAIN more, k[1] \in Ids(n) PROVE k \in DOMAIN less
      <3>1. PICK w \in ones(m) : k = <<w.device.node, w.id>>
        BY <2>2, <2>4
      <3> QED BY <1>2, <1>3, <2>1, <2>4, <3>1
    <2> QED BY <2>3, <2>4
  <1>6. ASSUME NEW k, k \in DOMAIN less
        PROVE  less[k] = more[k]
    <2>1. k \in DOMAIN more /\ RawsFor(PlanOf(t, n), k) = RawsFor(PlanOf(t, m), k)
      BY <1>4, <1>5, <1>6
    <2>2. (CHOOSE raw \in RawsFor(PlanOf(t, n), k) : TRUE)
            = CHOOSE raw \in RawsFor(PlanOf(t, m), k) : TRUE
      BY <2>1, Zenon
    <2>3. /\ less[k] = CHOOSE raw \in RawsFor(PlanOf(t, n), k) : TRUE
          /\ more[k] = CHOOSE raw \in RawsFor(PlanOf(t, m), k) : TRUE
      BY <1>6, <2>1, WantedOfPlan
    <2> QED BY <2>2, <2>3, Zenon
  <1> QED BY <1>5, <1>6
-----------------------------------------------------------------------------
(* Type correctness.                                                       *)

\* What TypeOK says of a reconcile in each phase, field by field.
LEMMA HandlerTypes ==
  ASSUME TypeOK
  PROVE  LET r == run["handler"]
         IN /\ r.phase \in {"idle", "load", "session", "fold", "decide", "merge", "report"}
            /\ r.phase = "idle" => r = Idle
            /\ r.phase # "idle" => r.changed \in BOOLEAN
            /\ r.phase \in {"load", "session", "fold", "decide", "merge"} => r.now \in 0..clock
            /\ r.phase \in {"session", "fold", "decide", "merge", "report"} =>
                 r.issues \in BOOLEAN /\ r.unused \in BOOLEAN /\ r.want \in Wants
            /\ r.phase \in {"session", "fold", "decide"} => r.seen \in [Keys -> Held]
            /\ r.phase = "fold" => r.count \in 0..MaxCount /\ r.current \in BOOLEAN
            /\ r.phase = "decide" => r.reset \in (0..clock) \cup {None}
            /\ r.phase = "merge" => r.reset \in 0..clock
            /\ r.phase \in {"merge", "report"} => r.still \in SUBSET Keys
  <1> DEFINE r == run["handler"]
  <1>1. r \in HandlerRuns
    BY DEF TypeOK
  <1> HIDE DEF r
  <1>2. CASE r = Idle
    BY <1>2 DEF Idle, r
  <1>3. CASE r \in [phase : {"load"}, now : 0..clock, changed : BOOLEAN]
    BY <1>3 DEF r
  <1>4. CASE r \in [phase : {"session"}, now : 0..clock, changed : BOOLEAN, issues : BOOLEAN,
                    unused : BOOLEAN, want : Wants, seen : [Keys -> Held]]
    BY <1>4 DEF r
  <1>5. CASE r \in [phase : {"decide"}, now : 0..clock, changed : BOOLEAN, issues : BOOLEAN,
                    unused : BOOLEAN, want : Wants, seen : [Keys -> Held],
                    reset : (0..clock) \cup {None}]
    BY <1>5 DEF r
  <1>8. CASE r \in [phase : {"fold"}, now : 0..clock, changed : BOOLEAN, issues : BOOLEAN,
                    unused : BOOLEAN, want : Wants, seen : [Keys -> Held],
                    count : 0..MaxCount, current : BOOLEAN]
    BY <1>8 DEF r
  <1>6. CASE r \in [phase : {"merge"}, now : 0..clock, changed : BOOLEAN, issues : BOOLEAN,
                    unused : BOOLEAN, want : Wants, still : SUBSET Keys, reset : 0..clock]
    BY <1>6 DEF r
  <1>7. CASE r \in [phase : {"report"}, changed : BOOLEAN, issues : BOOLEAN, unused : BOOLEAN,
                    want : Wants, still : SUBSET Keys]
    BY <1>7 DEF r
  <1> QED BY <1>1, <1>2, <1>3, <1>4, <1>5, <1>6, <1>7, <1>8 DEF HandlerRuns

\* The same of a run of zwavectl.
LEMMA CliTypes ==
  ASSUME TypeOK
  PROVE  LET r == run["cli"]
         IN /\ r.phase \in {"idle", "fold", "decide", "merge"}
            /\ r.phase = "idle" => r = Idle
            /\ r.phase # "idle" => r.want \in Wants
            /\ r.phase \in {"fold", "decide"} => r.seen \in [Keys -> Held]
            /\ r.phase = "fold" => r.count \in 0..MaxCount /\ r.current \in BOOLEAN
            /\ r.phase \in {"decide", "merge"} => r.now \in 0..clock /\ r.reset \in 0..clock
            /\ r.phase = "merge" => r.still \in SUBSET Keys
  <1> DEFINE r == run["cli"]
  <1>1. r \in CliRuns
    BY DEF TypeOK
  <1> HIDE DEF r
  <1>2. CASE r = Idle
    BY <1>2 DEF Idle, r
  <1>3. CASE r \in [phase : {"fold"}, want : Wants, seen : [Keys -> Held],
                    count : 0..MaxCount, current : BOOLEAN]
    BY <1>3 DEF r
  <1>4. CASE r \in [phase : {"decide"}, want : Wants, seen : [Keys -> Held], now : 0..clock,
                    reset : 0..clock]
    BY <1>4 DEF r
  <1>5. CASE r \in [phase : {"merge"}, want : Wants, still : SUBSET Keys, now : 0..clock,
                    reset : 0..clock]
    BY <1>5 DEF r
  <1> QED BY <1>1, <1>2, <1>3, <1>4, <1>5 DEF CliRuns

\* The same of the session monitor.
LEMMA MonitorTypes ==
  ASSUME TypeOK
  PROVE  LET r == run["monitor"]
         IN /\ r.phase \in {"idle", "fold"}
            /\ r.phase = "idle" => r = Idle
            /\ r.phase = "fold" => r.count \in 0..MaxCount /\ r.current \in BOOLEAN
  <1> DEFINE r == run["monitor"]
  <1>1. r \in MonitorRuns
    BY DEF TypeOK
  <1> HIDE DEF r
  <1>2. CASE r = Idle
    BY <1>2 DEF Idle, r
  <1>3. CASE r \in [phase : {"fold"}, count : 0..MaxCount, current : BOOLEAN]
    BY <1>3 DEF r
  <1> QED BY <1>1, <1>2, <1>3 DEF MonitorRuns

\* Whoever folds counters has sampled them.
LEMMA FoldTypes ==
  ASSUME TypeOK, NEW a \in Actors, run[a].phase = "fold"
  PROVE  run[a].count \in 0..MaxCount /\ run[a].current \in BOOLEAN
  BY HandlerTypes, CliTypes, MonitorTypes DEF Actors

\* Runs stay typed when resets are recorded.
LEMMA RunsGrow ==
  ASSUME clock \in Nat, clock' \in Nat, clock <= clock'
  PROVE  /\ HandlerRuns \subseteq HandlerRuns'
         /\ CliRuns \subseteq CliRuns'
  <1>1. 0..clock \subseteq 0..clock'
    OBVIOUS
  <1>2. HandlerRuns \subseteq HandlerRuns'
    <2> SUFFICES ASSUME NEW r \in HandlerRuns PROVE r \in HandlerRuns'
      OBVIOUS
    <2>2. CASE r = Idle
      BY <2>2 DEF HandlerRuns
    <2>3. CASE r \in [phase : {"load"}, now : 0..clock, changed : BOOLEAN]
      BY <1>1, <2>3 DEF HandlerRuns
    <2>4. CASE r \in [phase : {"session"}, now : 0..clock, changed : BOOLEAN, issues : BOOLEAN,
                      unused : BOOLEAN, want : Wants, seen : [Keys -> Held]]
      BY <1>1, <2>4 DEF HandlerRuns
    <2>5. CASE r \in [phase : {"decide"}, now : 0..clock, changed : BOOLEAN, issues : BOOLEAN,
                      unused : BOOLEAN, want : Wants, seen : [Keys -> Held],
                      reset : (0..clock) \cup {None}]
      BY <1>1, <2>5 DEF HandlerRuns
    <2>6. CASE r \in [phase : {"merge"}, now : 0..clock, changed : BOOLEAN, issues : BOOLEAN,
                      unused : BOOLEAN, want : Wants, still : SUBSET Keys, reset : 0..clock]
      BY <1>1, <2>6 DEF HandlerRuns
    <2>7. CASE r \in [phase : {"report"}, changed : BOOLEAN, issues : BOOLEAN, unused : BOOLEAN,
                      want : Wants, still : SUBSET Keys]
      BY <2>7 DEF HandlerRuns
    <2>8. CASE r \in [phase : {"fold"}, now : 0..clock, changed : BOOLEAN, issues : BOOLEAN,
                      unused : BOOLEAN, want : Wants, seen : [Keys -> Held],
                      count : 0..MaxCount, current : BOOLEAN]
      BY <1>1, <2>8 DEF HandlerRuns
    <2> QED BY <2>2, <2>3, <2>4, <2>5, <2>6, <2>7, <2>8 DEF HandlerRuns
  <1>3. CliRuns \subseteq CliRuns'
    <2> SUFFICES ASSUME NEW r \in CliRuns PROVE r \in CliRuns'
      OBVIOUS
    <2>2. CASE r = Idle
      BY <2>2 DEF CliRuns
    <2>3. CASE r \in [phase : {"fold"}, want : Wants, seen : [Keys -> Held],
                      count : 0..MaxCount, current : BOOLEAN]
      BY <2>3 DEF CliRuns
    <2>4. CASE r \in [phase : {"decide"}, want : Wants, seen : [Keys -> Held], now : 0..clock,
                      reset : 0..clock]
      BY <1>1, <2>4 DEF CliRuns
    <2>5. CASE r \in [phase : {"merge"}, want : Wants, still : SUBSET Keys, now : 0..clock,
                      reset : 0..clock]
      BY <1>1, <2>5 DEF CliRuns
    <2> QED BY <2>2, <2>3, <2>4, <2>5 DEF CliRuns
  <1> QED BY <1>2, <1>3
\* Entering a phase leaves the other actor alone.
LEMMA EnterRun ==
  ASSUME TypeOK, NEW a \in Actors, NEW r, Enter(a, r)
  PROVE  /\ DOMAIN run' = Actors
         /\ run'[a] = r
         /\ \A b \in Actors : b # a => run'[b] = run[b]
  BY DEF TypeOK, Enter

\* The pending file and what a run wants map keys to raw values.
LEMMA WantsAreFunctions ==
  /\ \A w \in Wants : DOMAIN w \subseteq Keys /\ \A k \in DOMAIN w : w[k] \in Raws
  /\ NoCommands \in Wants /\ DOMAIN NoCommands = {}
  <1>1. ASSUME NEW w \in Wants
        PROVE  DOMAIN w \subseteq Keys /\ \A k \in DOMAIN w : w[k] \in Raws
    <2>1. PICK S \in SUBSET Keys : w \in [S -> Raws]
      BY DEF Wants
    <2> QED BY <2>1
  <1>2. NoCommands \in [{} -> Raws]
    BY DEF NoCommands
  <1> QED BY <1>1, <1>2 DEF Wants, NoCommands

\* What stands in the file after a merge.
LEMMA MergedFile ==
  ASSUME NEW old, NEW want, NEW still
  PROVE  /\ \A k : k \in DOMAIN Merged(old, want, still) <=>
                  k \in DOMAIN old \ DOMAIN want \/ k \in still
         /\ \A k \in still : Merged(old, want, still)[k] = want[k]
         /\ \A k \in DOMAIN old \ DOMAIN want : k \notin still =>
              Merged(old, want, still)[k] = old[k]
         /\ old \in Wants /\ want \in Wants /\ still \subseteq DOMAIN want =>
              Merged(old, want, still) \in Wants
  <1> DEFINE keys == (DOMAIN old \ DOMAIN want) \cup still
             f    == [k \in keys |-> IF k \in still THEN want[k] ELSE old[k]]
  <1>1. Merged(old, want, still) = f
    BY DEF Merged
  <1>2. /\ DOMAIN f = keys
        /\ \A k \in still : f[k] = want[k]
        /\ \A k \in DOMAIN old \ DOMAIN want : k \notin still => f[k] = old[k]
    OBVIOUS
  <1>3. ASSUME old \in Wants, want \in Wants, still \subseteq DOMAIN want
        PROVE  f \in Wants
    <2>1. keys \subseteq Keys /\ \A k \in keys : f[k] \in Raws
      BY <1>3, WantsAreFunctions
    <2>2. f \in [keys -> Raws]
      BY <2>1
    <2> QED BY <2>1, <2>2 DEF Wants
  <1> HIDE DEF f
  <1> QED BY <1>1, <1>2, <1>3

\* What a merge leaves in the pending file.
LEMMA FileAfterMerge ==
  ASSUME TypeOK, NEW a \in Actors, run[a].phase = "merge", MergePending(a)
  PROVE  LET r == run[a]
         IN /\ r.want \in Wants /\ r.still \subseteq DOMAIN r.want
            /\ r.now \in 0..clock /\ r.reset \in 0..clock
            /\ pending' \in Files \cup {None}
            /\ pending' # None =>
                 /\ DOMAIN pending'.want # {}
                 /\ pending'.want = Merged(Valid(r.reset), r.want, r.still)
                 /\ IF pending # None /\ pending.issued >= r.reset
                    THEN pending'.issued = pending.issued ELSE pending'.issued = r.now
  <1> DEFINE r == run[a]
             valid  == pending # None /\ pending.issued >= r.reset
             merged == Merged(Valid(r.reset), r.want, r.still)
             one    == [issued |-> IF valid THEN pending.issued ELSE r.now, want |-> merged]
  <1>1. /\ r.want \in Wants /\ r.still \subseteq DOMAIN r.want
        /\ r.now \in 0..clock /\ r.reset \in 0..clock
    BY HandlerTypes, CliTypes, MonitorTypes DEF TypeOK, Actors
  <1>2. pending' = IF DOMAIN merged = {} THEN None ELSE one
    BY DEF MergePending
  <1>3. Valid(r.reset) \in Wants
    BY WantsAreFunctions DEF Valid, TypeOK, Files
  <1>4. merged \in Wants
    BY <1>1, <1>3, MergedFile
  <1> HIDE DEF merged, r
  <1>5. one \in Files
    BY <1>1, <1>4 DEF Files, TypeOK
  <1>6. None \notin Files
    BY ManagerAssumption
  <1> QED BY <1>1, <1>2, <1>5, <1>6 DEF merged, r

\* What calls leave in the queue.
LEMMA QueueAfterIssue ==
  ASSUME TypeOK, NEW want \in Wants, NEW keys \in SUBSET DOMAIN want,
         NEW began \in Nat \cup {None}, Issue(keys, want, began)
  PROVE  /\ queue' \in [Keys -> Writes \cup {None}]
         /\ \A k \in Keys :
              IF k \notin keys \/ ~driver.up \/ ~Known(k) THEN queue'[k] = queue[k]
              ELSE /\ queue'[k] # None /\ queue'[k].value = want[k]
                   /\ queue'[k].began = began
  <1> DEFINE one(k) == [value |-> want[k], began |-> began, issued |-> clock]
             f == [k \in Keys |-> IF k \notin keys \/ ~driver.up \/ ~Known(k) THEN queue[k]
                                  ELSE one(k)]
  <1>1. queue' = f
    BY DEF Issue
  <1>2. ASSUME NEW k \in keys
        PROVE  k \in Keys /\ one(k) \in Writes /\ one(k) # None
               /\ one(k).value = want[k] /\ one(k).began = began
    <2>1. k \in Keys /\ want[k] \in Raws
      BY WantsAreFunctions
    <2>2. one(k) \in Writes
      BY <2>1 DEF Writes, TypeOK
    <2> QED BY <2>1, <2>2, ManagerAssumption
  <1> HIDE DEF one
  <1>3. f \in [Keys -> Writes \cup {None}]
    BY <1>2 DEF TypeOK
  <1>4. \A k \in Keys : f[k] = IF k \notin keys \/ ~driver.up \/ ~Known(k) THEN queue[k]
                               ELSE one(k)
    OBVIOUS
  <1> HIDE DEF f
  <1> QED BY <1>1, <1>2, <1>3, <1>4

\* Whoever refreshes the record leaves it with the present time.
LEMMA Refreshed ==
  ASSUME TypeOK, NEW count \in 0..MaxCount, RefreshSession(count)
  PROVE  /\ clock' \in Nat /\ session' \in [count : 0..MaxCount, reset : {clock'}]
         /\ session'.count = count /\ session'.reset = clock'
         /\ clock' = IF count < session.count THEN clock + 1 ELSE clock
  BY ManagerAssumption DEF TypeOK, RefreshSession, Restarted

\* The types hold at first.
LEMMA InitTypes == Init => TypeOK
  <1> SUFFICES ASSUME Init PROVE TypeOK
    OBVIOUS
  <1>1. actual \in [Keys -> Held] /\ queue \in [Keys -> Writes \cup {None}]
    BY DEF Init, Held
  <1>2. /\ session \in [count : 0..MaxCount, reset : {clock}] /\ clock \in Nat
        /\ driver \in [up : BOOLEAN, count : 0..MaxCount]
        /\ pending \in Files \cup {None} /\ pending = None
        /\ desired \in Wants \cup {None} /\ notes = {}
        /\ restarts \in 0..MaxRestarts /\ clis \in 0..MaxCli
    BY ManagerAssumption DEF Init
  <1>3. memory \in [changed : BOOLEAN, edited : BOOLEAN, nodes : {None} \cup SUBSET Ids(Nodes)]
    BY DEF Init
  <1>4. /\ file \in Texts /\ there \subseteq Nodes
        /\ noticed \in BOOLEAN /\ shared \in BOOLEAN /\ calm \in BOOLEAN
    BY ManagerAssumption DEF Init
  <1>5. /\ DOMAIN run = Actors /\ run["handler"] \in HandlerRuns /\ run["cli"] \in CliRuns
        /\ run["monitor"] \in MonitorRuns
        /\ \A a \in Actors : run[a].phase # "merge"
    BY DEF Init, Actors, HandlerRuns, CliRuns, MonitorRuns, Idle
  <1> QED BY <1>1, <1>2, <1>3, <1>4, <1>5 DEF TypeOK

\* The part of the types a step of a run is about.
RunTypes ==
  /\ DOMAIN run = Actors /\ run["handler"] \in HandlerRuns /\ run["cli"] \in CliRuns
  /\ run["monitor"] \in MonitorRuns
  /\ \A a \in Actors : run[a].phase = "merge" => run[a].still \subseteq DOMAIN run[a].want

\* A step of one actor keeps the types of the runs if it enters a typed phase.
LEMMA RunStep ==
  ASSUME TypeOK, NEW a \in Actors, NEW r, Enter(a, r),
         clock' \in Nat, clock <= clock',
         a = "handler" => r \in HandlerRuns', a = "cli" => r \in CliRuns',
         a = "monitor" => r \in MonitorRuns,
         r.phase = "merge" => r.still \subseteq DOMAIN r.want
  PROVE  RunTypes'
  <1>1. DOMAIN run' = Actors /\ run'[a] = r /\ \A b \in Actors : b # a => run'[b] = run[b]
    BY EnterRun
  <1>2. HandlerRuns \subseteq HandlerRuns' /\ CliRuns \subseteq CliRuns'
    BY RunsGrow DEF TypeOK
  <1> QED BY <1>1, <1>2 DEF RunTypes, TypeOK, Actors, MonitorRuns

\* A step that leaves runs and clock alone keeps their types.
LEMMA RunsStay ==
  ASSUME TypeOK, UNCHANGED run, clock' \in Nat, clock <= clock'
  PROVE  RunTypes'
  <1>1. HandlerRuns \subseteq HandlerRuns' /\ CliRuns \subseteq CliRuns'
    BY RunsGrow DEF TypeOK
  <1> QED BY <1>1 DEF RunTypes, TypeOK, MonitorRuns

\* What a run issues, and what it leaves pending, it wants.
LEMMA DeciderTypes ==
  ASSUME NEW want, NEW seen, NEW valid
  PROVE  /\ ToIssue(want, seen, valid) \in SUBSET DOMAIN want
         /\ StillWanted(want, seen, valid) \in SUBSET DOMAIN want
  BY DEF ToIssue, StillWanted

\* The handler keeps the types.
LEMMA HandlerTypeStep == TypeOK /\ Handler => TypeOK'
  <1> SUFFICES ASSUME TypeOK, Handler PROVE TypeOK'
    OBVIOUS
  <1> DEFINE r == run["handler"]
  <1>0. "handler" \in Actors /\ clock \in Nat /\ clock <= clock
    BY DEF Actors, TypeOK
  <1> USE <1>0
  <1>1. CASE Begin
    <2>1. [phase |-> "load", now |-> clock, changed |-> memory.changed] \in HandlerRuns
      BY DEF TypeOK, HandlerRuns
    <2>2. RunTypes'
      BY <1>1, <2>1, RunStep, RunsGrow DEF Begin
    <2>3. memory' \in [changed : BOOLEAN, edited : BOOLEAN,
                       nodes : {None} \cup SUBSET Ids(Nodes)]
      BY <1>1 DEF Begin, TypeOK
    <2> QED BY <1>1, <2>2, <2>3 DEF Begin, TypeOK, RunTypes, world
  <1>2. CASE Load
    <2>1. Idle \in HandlerRuns /\ Idle.phase # "merge"
      BY DEF HandlerRuns, Idle
    <2>2. UNCHANGED clock
      BY <1>2 DEF Load
    <2>3. HandlerRuns \subseteq HandlerRuns'
      BY <2>2, RunsGrow
    <2>4. UNCHANGED <<memory, desired>> /\ notes' \subseteq
            {"config", "internal", "unavailable", "plan_issues", "pending", "unused"}
      BY <1>2 DEF Load, EndsEarly, TypeOK
    <2>5. CASE Enter("handler", Idle)
      <3>1. RunTypes'
        BY <2>1, <2>2, <2>3, <2>5, RunStep
      <3> QED BY <1>2, <2>4, <3>1 DEF Load, TypeOK, RunTypes, world
    <2>6. CASE ~Enter("handler", Idle)
      <3> DEFINE plan == PlanOf(file, there)
                 s == [phase |-> "session", now |-> r.now, changed |-> r.changed,
                       issues |-> (plan.errors # {} \/ plan.warnings # {}),
                       unused |-> (plan.unused # {}), want |-> Wanted(plan), seen |-> actual]
      <3>1. Enter("handler", s) /\ ~ConfigErrors(file)
        BY <1>2, <2>6 DEF Load, EndsEarly
      <3>2. Wanted(plan) \in Wants
        BY <3>1, WantedIsTyped DEF TypeOK
      <3>3. r.now \in 0..clock /\ r.changed \in BOOLEAN
        BY <1>2, HandlerTypes DEF Load
      <3>4. actual \in [Keys -> Held]
        BY DEF TypeOK
      <3> HIDE DEF plan
      <3>5. s \in HandlerRuns
        BY <3>2, <3>3, <3>4 DEF HandlerRuns
      <3>6. RunTypes'
        BY <2>2, <2>3, <3>1, <3>5, RunStep
      <3> QED BY <1>2, <2>4, <3>6 DEF Load, TypeOK, RunTypes, world
    <2> QED BY <2>5, <2>6
  <1>7. CASE SampleSession
    <2> DEFINE s == [phase |-> "fold", now |-> r.now, changed |-> r.changed,
                     issues |-> r.issues, unused |-> r.unused, want |-> r.want,
                     seen |-> r.seen, count |-> driver.count, current |-> TRUE]
               d == [phase |-> "decide", now |-> r.now, changed |-> r.changed,
                     issues |-> r.issues, unused |-> r.unused, want |-> r.want,
                     seen |-> r.seen, reset |-> None]
    <2>1. Enter("handler", IF driver.up THEN s ELSE d) /\ UNCHANGED clock
      BY <1>7 DEF SampleSession
    <2>2. /\ r.now \in 0..clock /\ r.changed \in BOOLEAN /\ r.issues \in BOOLEAN
          /\ r.unused \in BOOLEAN /\ r.want \in Wants /\ r.seen \in [Keys -> Held]
          /\ driver.count \in 0..MaxCount
      BY <1>7, HandlerTypes DEF SampleSession, TypeOK
    <2>3. s \in HandlerRuns /\ d \in HandlerRuns
      BY <2>2 DEF HandlerRuns
    <2>4. HandlerRuns \subseteq HandlerRuns'
      BY <2>1, RunsGrow
    <2>5. RunTypes'
      <3>1. CASE driver.up
        BY <2>1, <2>3, <2>4, <3>1, RunStep
      <3>2. CASE ~driver.up
        BY <2>1, <2>3, <2>4, <3>2, RunStep
      <3> QED BY <3>1, <3>2
    <2> QED BY <1>7, <2>5 DEF SampleSession, TypeOK, RunTypes, world, shown
  <1>3. CASE ReadSession
    <2> DEFINE s == [phase |-> "decide", now |-> r.now, changed |-> r.changed,
                     issues |-> r.issues, unused |-> r.unused, want |-> r.want,
                     seen |-> r.seen, reset |-> session'.reset]
    <2>1. Enter("handler", s) /\ Fold("handler")
      BY <1>3 DEF ReadSession
    <2>2. /\ clock' \in Nat /\ clock <= clock'
          /\ session' \in [count : 0..MaxCount, reset : {clock'}] /\ session'.reset = clock'
          /\ noticed' \in BOOLEAN
      BY <2>1, FoldTypes, Refreshed DEF Fold, TypeOK
    <2>3. /\ r.now \in 0..clock /\ r.changed \in BOOLEAN /\ r.issues \in BOOLEAN
          /\ r.unused \in BOOLEAN /\ r.want \in Wants /\ r.seen \in [Keys -> Held]
      BY <2>1, HandlerTypes DEF Fold
    <2>4. r.now \in 0..clock' /\ session'.reset \in (0..clock') \cup {None}
      BY <2>2, <2>3
    <2>5. s \in HandlerRuns'
      BY <2>3, <2>4 DEF HandlerRuns
    <2>6. RunTypes'
      BY <2>1, <2>2, <2>5, RunStep
    <2>7. pending # None => pending.issued <= clock'
      BY <2>2 DEF TypeOK, Files
    <2> QED BY <1>3, <2>2, <2>6, <2>7 DEF ReadSession, TypeOK, RunTypes, shown
  <1>4. CASE Decide
    <2> DEFINE valid == IF r.reset = None THEN NoCommands ELSE Valid(r.reset)
               still == StillWanted(r.want, r.seen, valid)
               s == [phase |-> "merge", now |-> r.now, changed |-> r.changed,
                     issues |-> r.issues, unused |-> r.unused, want |-> r.want,
                     still |-> still, reset |-> r.reset]
               began == IF shared \/ memory.edited THEN None ELSE r.now
    <2>1. /\ Issue(ToIssue(r.want, r.seen, valid), r.want, began)
          /\ Enter("handler", IF r.reset = None THEN ToReport(r, still) ELSE s)
      BY <1>4 DEF Decide
    <2>2. /\ r.now \in 0..clock /\ r.changed \in BOOLEAN /\ r.issues \in BOOLEAN
          /\ r.unused \in BOOLEAN /\ r.want \in Wants
          /\ r.reset \in (0..clock) \cup {None}
      BY <1>4, HandlerTypes DEF Decide
    <2>3. still \in SUBSET DOMAIN r.want /\ ToIssue(r.want, r.seen, valid) \in SUBSET DOMAIN r.want
      BY DeciderTypes
    <2>4. still \in SUBSET Keys
      BY <2>2, <2>3, WantsAreFunctions
    <2>5. queue' \in [Keys -> Writes \cup {None}]
      <3>1. began \in Nat \cup {None}
        BY <2>2
      <3> QED BY <2>1, <2>2, <2>3, <3>1, QueueAfterIssue
    <2>6. UNCHANGED clock
      BY <1>4 DEF Decide
    <2> HIDE DEF still, r, began
    <2>7. ToReport(r, still) \in HandlerRuns /\ (r.reset # None => s \in HandlerRuns)
      BY <2>2, <2>4 DEF HandlerRuns, ToReport
    <2>8. HandlerRuns \subseteq HandlerRuns'
      BY <2>6, RunsGrow
    <2>9. ToReport(r, still).phase # "merge" /\ s.still \subseteq DOMAIN s.want
      BY <2>3 DEF ToReport
    <2> HIDE DEF s
    <2>10. RunTypes'
      <3>1. CASE r.reset = None
        BY <2>1, <2>6, <2>7, <2>8, <2>9, <3>1, RunStep
      <3>2. CASE r.reset # None
        BY <2>1, <2>6, <2>7, <2>8, <2>9, <3>2, RunStep
      <3> QED BY <3>1, <3>2
    <2> QED BY <1>4, <2>5, <2>10 DEF Decide, TypeOK, RunTypes, world, shown
  <1>5. CASE Merge
    <2>1. /\ run["handler"].phase = "merge" /\ MergePending("handler")
          /\ Enter("handler", ToReport(r, r.still)) /\ UNCHANGED clock
      BY <1>5 DEF Merge
    <2>2. /\ pending' \in Files \cup {None}
          /\ pending' # None => pending'.issued <= clock /\ DOMAIN pending'.want # {}
      BY <2>1, FileAfterMerge DEF TypeOK, Files
    <2>3. /\ r.changed \in BOOLEAN /\ r.issues \in BOOLEAN
          /\ r.unused \in BOOLEAN /\ r.want \in Wants /\ r.still \in SUBSET Keys
      BY <2>1, HandlerTypes
    <2>4. ToReport(r, r.still) \in HandlerRuns /\ ToReport(r, r.still).phase # "merge"
      BY <2>3 DEF HandlerRuns, ToReport
    <2>5. HandlerRuns \subseteq HandlerRuns'
      BY <2>1, RunsGrow
    <2>6. RunTypes'
      BY <2>1, <2>4, <2>5, RunStep
    <2> QED BY <1>5, <2>2, <2>6 DEF Merge, TypeOK, RunTypes, world, shown
  <1>6. CASE Report
    <2>1. r.phase = "report" /\ Enter("handler", Idle) /\ UNCHANGED clock
      BY <1>6 DEF Report
    <2>2. r.changed \in BOOLEAN /\ r.want \in Wants
      BY <2>1, HandlerTypes
    <2>3. notes' \subseteq
            {"config", "internal", "unavailable", "plan_issues", "pending", "unused"}
      BY <1>6 DEF Report, TypeOK
    <2>4. desired' \in Wants \cup {None}
      BY <1>6, <2>2 DEF Report, TypeOK
    <2>5. NodesIn(r.want) \subseteq Ids(Nodes)
      <3>1. \A k \in DOMAIN r.want : k \in Keys
        BY <2>2, WantsAreFunctions
      <3>2. \A k \in Keys : k[1] \in Ids(Nodes)
        BY DEF Keys, Ids
      <3> QED BY <3>1, <3>2 DEF NodesIn
    <2>6. memory' \in [changed : BOOLEAN, edited : BOOLEAN,
                       nodes : {None} \cup SUBSET Ids(Nodes)]
      BY <1>6, <2>5 DEF Report, TypeOK
    <2>7. Idle \in HandlerRuns' /\ Idle.phase # "merge"
      BY DEF HandlerRuns, Idle
    <2>8. RunTypes'
      BY <2>1, <2>7, RunStep
    <2> QED BY <1>6, <2>3, <2>4, <2>6, <2>8 DEF Report, TypeOK, RunTypes, world
  <1> QED BY <1>1, <1>2, <1>3, <1>4, <1>5, <1>6, <1>7 DEF Handler

\* What zwavectl wants is what a reconcile would want now.
LEMMA CliWants ==
  ASSUME TypeOK, ~ConfigErrors(file)
  PROVE  EvaluatePolicies(CliFleet(ServerState), ParsedPolicies(file)) = PlanOf(file, there)
  <1>1. CliFleet(ServerState) = Fleet(there)
    BY DEF CliFleet, ServerState
  <1>2. file \in Texts /\ there \in SUBSET Nodes
    BY DEF TypeOK
  <1> QED BY <1>1, <1>2, PlanIsEvaluated

\* So does zwavectl.
LEMMA CliTypeStep == TypeOK /\ Cli => TypeOK'
  <1> SUFFICES ASSUME TypeOK, Cli PROVE TypeOK'
    OBVIOUS
  <1> DEFINE r == run["cli"]
  <1>0. "cli" \in Actors /\ clock \in Nat /\ clock <= clock
    BY DEF Actors, TypeOK
  <1> USE <1>0
  <1>1. CASE CliBegin
    <2> DEFINE plan == PlanOf(file, there)
               s == [phase |-> "fold", want |-> Wanted(plan), seen |-> actual,
                     count |-> driver.count, current |-> TRUE]
    <2>1. Enter("cli", s) /\ UNCHANGED clock /\ ~ConfigErrors(file)
      BY <1>1, CliWants DEF CliBegin, ServerState
    <2>2. Wanted(plan) \in Wants
      BY <2>1, WantedIsTyped DEF TypeOK
    <2>3. actual \in [Keys -> Held] /\ driver.count \in 0..MaxCount
      BY DEF TypeOK
    <2> HIDE DEF plan
    <2>4. s \in CliRuns
      BY <2>2, <2>3 DEF CliRuns
    <2>5. RunTypes'
      BY <2>1, <2>4, RunStep, RunsGrow
    <2>6. clis' \in 0..MaxCli
      BY <1>1, ManagerAssumption DEF CliBegin, TypeOK
    <2> QED BY <1>1, <2>5, <2>6 DEF CliBegin, TypeOK, RunTypes, shown
  <1>2. CASE CliSession
    <2> DEFINE s == [phase |-> "decide", want |-> r.want, seen |-> r.seen, now |-> clock',
                     reset |-> session'.reset]
    <2>1. /\ Enter("cli", s) /\ RefreshSession(r.count) /\ r.phase = "fold"
          /\ noticed' = (noticed \/ r.current)
      BY <1>2 DEF CliSession, Fold
    <2>2. /\ r.count \in 0..MaxCount /\ r.current \in BOOLEAN
          /\ r.want \in Wants /\ r.seen \in [Keys -> Held]
      BY <2>1, CliTypes
    <2>3. /\ clock' \in Nat /\ clock <= clock'
          /\ session' \in [count : 0..MaxCount, reset : {clock'}] /\ session'.reset = clock'
      BY <2>1, <2>2, Refreshed
    <2>4. s \in CliRuns'
      BY <2>2, <2>3 DEF CliRuns
    <2>5. RunTypes'
      BY <2>1, <2>3, <2>4, RunStep
    <2>6. pending # None => pending.issued <= clock'
      BY <2>3 DEF TypeOK, Files
    <2>7. noticed' \in BOOLEAN
      BY <2>1, <2>2 DEF TypeOK
    <2> QED BY <1>2, <2>3, <2>5, <2>6, <2>7 DEF CliSession, TypeOK, RunTypes, shown
  <1>3. ASSUME NEW dry \in BOOLEAN, NEW force \in BOOLEAN, NEW failed, CliDecide(dry, force, failed)
        PROVE  TypeOK'
    <2> DEFINE valid  == IF force THEN NoCommands ELSE Valid(r.reset)
               writes == ToIssue(r.want, r.seen, valid)
               still  == StillWanted(r.want, r.seen, valid)
               s == [phase |-> "merge", want |-> r.want, still |-> still,
                     now |-> r.now, reset |-> r.reset]
    <2>1. /\ CliIssue(IF dry THEN {} ELSE writes, failed, r.want)
          /\ Enter("cli", IF dry \/ failed # {} THEN Idle ELSE s)
          /\ UNCHANGED clock
      BY <1>3 DEF CliDecide
    <2>2. /\ r.now \in 0..clock /\ r.reset \in 0..clock /\ r.want \in Wants
      BY <1>3, CliTypes DEF CliDecide
    <2>3. still \in SUBSET DOMAIN r.want /\ writes \in SUBSET DOMAIN r.want
      BY DeciderTypes
    <2>4. still \in SUBSET Keys
      BY <2>2, <2>3, WantsAreFunctions
    <2> HIDE DEF still, writes
    <2>5. /\ (IF dry THEN {} ELSE writes) \ failed \in SUBSET DOMAIN r.want
          /\ Issue((IF dry THEN {} ELSE writes) \ failed, r.want, None)
      BY <2>1, <2>3 DEF CliIssue
    <2>6. queue' \in [Keys -> Writes \cup {None}]
      BY <2>2, <2>5, QueueAfterIssue
    <2>7. Idle \in CliRuns /\ Idle.phase # "merge"
      BY DEF CliRuns, Idle
    <2> HIDE DEF r
    <2>8. s \in CliRuns /\ s.still \subseteq DOMAIN s.want
      BY <2>2, <2>3, <2>4 DEF CliRuns
    <2>9. CliRuns \subseteq CliRuns'
      BY <2>1, RunsGrow
    <2> HIDE DEF s
    <2>10. RunTypes'
      <3>1. CASE dry \/ failed # {}
        BY <2>1, <2>7, <2>9, <3>1, RunStep
      <3>2. CASE ~(dry \/ failed # {})
        BY <2>1, <2>8, <2>9, <3>2, RunStep
      <3> QED BY <3>1, <3>2
    <2> QED BY <1>3, <2>6, <2>10 DEF CliDecide, TypeOK, RunTypes, world, shown
  <1>4. CASE CliMerge
    <2>1. r.phase = "merge" /\ MergePending("cli") /\ Enter("cli", Idle) /\ UNCHANGED clock
      BY <1>4 DEF CliMerge
    <2>2. /\ pending' \in Files \cup {None}
          /\ pending' # None => pending'.issued <= clock /\ DOMAIN pending'.want # {}
      BY <2>1, FileAfterMerge DEF TypeOK, Files
    <2>3. Idle \in CliRuns' /\ Idle.phase # "merge"
      BY DEF CliRuns, Idle
    <2>4. RunTypes'
      BY <2>1, <2>3, RunStep
    <2> QED BY <1>4, <2>2, <2>4 DEF CliMerge, TypeOK, RunTypes, world, shown
  <1>5. CASE CliKilled
    <2>1. Enter("cli", Idle) /\ UNCHANGED clock
      BY <1>5 DEF CliKilled
    <2>2. Idle \in CliRuns' /\ Idle.phase # "merge"
      BY DEF CliRuns, Idle
    <2>3. RunTypes'
      BY <2>1, <2>2, RunStep
    <2> QED BY <1>5, <2>3 DEF CliKilled, TypeOK, RunTypes, world, shown
  <1> QED BY <1>1, <1>2, <1>3, <1>4, <1>5 DEF Cli

\* A history that starts anew is one.
LEMMA ForgivenTypes ==
  ASSUME TypeOK
  PROVE  /\ Forgiven \in [Keys -> Writes \cup {None}]
         /\ \A k \in Keys : IF queue[k] = None THEN Forgiven[k] = None
                            ELSE /\ Forgiven[k] # None
                                 /\ Forgiven[k].value = queue[k].value
                                 /\ Forgiven[k].began = None
  <1> DEFINE one(k) == [queue[k] EXCEPT !.began = None]
             f == [k \in Keys |-> IF queue[k] = None THEN None ELSE one(k)]
  <1>1. Forgiven = f
    BY DEF Forgiven
  <1>2. ASSUME NEW k \in Keys, queue[k] # None
        PROVE  one(k) \in Writes /\ one(k).value = queue[k].value /\ one(k).began = None
    <2>1. queue[k] \in Writes
      BY <1>2 DEF TypeOK
    <2> QED BY <2>1 DEF Writes
  <1> HIDE DEF one
  <1>3. f \in [Keys -> Writes \cup {None}]
    BY <1>2
  <1>4. \A k \in Keys : f[k] = IF queue[k] = None THEN None ELSE one(k)
    OBVIOUS
  <1> HIDE DEF f
  <1> QED BY <1>1, <1>2, <1>3, <1>4, ManagerAssumption

\* A driver that stops leaves the runs as they are, but for what was sampled.
LEMMA RunsWhenStopped ==
  ASSUME TypeOK, DriverStops
  PROVE  /\ DOMAIN run' = Actors
         /\ \A a \in Actors :
              /\ run'[a].phase = run[a].phase
              /\ run[a].phase # "fold" => run'[a] = run[a]
              /\ run[a].phase = "fold" =>
                   /\ run'[a] = [run[a] EXCEPT !.current = FALSE]
                   /\ run'[a].count = run[a].count /\ ~run'[a].current
                   /\ a # "monitor" => /\ run'[a].want = run[a].want
                                       /\ run'[a].seen = run[a].seen
                   /\ a = "handler" => run'[a].now = run[a].now
         /\ RunTypes'
  <1> DEFINE f == [a \in Actors |-> IF a \in Sampling THEN [run[a] EXCEPT !.current = FALSE]
                                   ELSE run[a]]
             hands == [phase : {"fold"}, now : 0..clock, changed : BOOLEAN, issues : BOOLEAN,
                       unused : BOOLEAN, want : Wants, seen : [Keys -> Held],
                       count : 0..MaxCount, current : BOOLEAN]
             shell == [phase : {"fold"}, want : Wants, seen : [Keys -> Held],
                       count : 0..MaxCount, current : BOOLEAN]
             mons  == [phase : {"fold"}, count : 0..MaxCount, current : BOOLEAN]
             kinds == [a \in Actors |-> IF a = "handler" THEN hands
                                       ELSE IF a = "cli" THEN shell ELSE mons]
  <1>1. run' = f /\ UNCHANGED clock
    BY DEF DriverStops
  <1>2. ASSUME NEW a \in Actors
        PROVE  run'[a] = IF run[a].phase = "fold" THEN [run[a] EXCEPT !.current = FALSE]
                         ELSE run[a]
    BY <1>1 DEF Sampling
  <1>3. ASSUME NEW a \in Actors, run[a].phase = "fold"
        PROVE  /\ a = "handler" => run[a] \in hands
               /\ a = "cli" => run[a] \in shell
               /\ a = "monitor" => run[a] \in mons
    BY <1>3 DEF TypeOK, HandlerRuns, CliRuns, MonitorRuns, Idle
  <1>4. ASSUME NEW a \in Actors, run[a].phase = "fold"
        PROVE  /\ run'[a].phase = "fold" /\ run'[a].count = run[a].count /\ ~run'[a].current
               /\ a # "monitor" => run'[a].want = run[a].want /\ run'[a].seen = run[a].seen
               /\ a = "handler" => run'[a].now = run[a].now /\ run'[a] \in hands
               /\ a = "cli" => run'[a] \in shell
               /\ a = "monitor" => run'[a] \in mons
    <2>1. CASE a = "handler"
      BY <1>2, <1>3, <1>4, <2>1
    <2>2. CASE a = "cli"
      BY <1>2, <1>3, <1>4, <2>2
    <2>3. CASE a = "monitor"
      BY <1>2, <1>3, <1>4, <2>3
    <2> QED BY <2>1, <2>2, <2>3 DEF Actors
  <1>5. DOMAIN run' = Actors
    BY <1>1
  <1>6. RunTypes'
    <2>1. /\ hands \subseteq HandlerRuns /\ shell \subseteq CliRuns
          /\ mons \subseteq MonitorRuns
      BY DEF HandlerRuns, CliRuns, MonitorRuns
    <2> HIDE DEF hands, shell, mons
    <2>2. HandlerRuns' = HandlerRuns /\ CliRuns' = CliRuns /\ MonitorRuns' = MonitorRuns
      BY <1>1 DEF HandlerRuns, CliRuns, MonitorRuns
    <2>3. "handler" \in Actors /\ "cli" \in Actors /\ "monitor" \in Actors
      BY DEF Actors
    <2>4. /\ run'["handler"] \in HandlerRuns /\ run'["cli"] \in CliRuns
          /\ run'["monitor"] \in MonitorRuns
      BY <1>2, <1>4, <2>1, <2>3 DEF TypeOK
    <2>5. ASSUME NEW a \in Actors, run'[a].phase = "merge"
          PROVE  run'[a].still \subseteq DOMAIN run'[a].want
      <3>1. run[a].phase # "fold"
        BY <1>4, <2>5
      <3> QED BY <1>2, <2>5, <3>1 DEF TypeOK
    <2> QED BY <1>5, <2>2, <2>4, <2>5 DEF RunTypes
  <1> HIDE DEF f, hands, shell, mons
  <1> QED BY <1>2, <1>4, <1>5, <1>6

\* So do the surroundings.
LEMMA WorldTypeStep == TypeOK /\ World => TypeOK'
  <1> SUFFICES ASSUME TypeOK, World PROVE TypeOK'
    OBVIOUS
  <1>0. clock \in Nat /\ clock <= clock
    BY DEF TypeOK
  <1> USE <1>0
  <1>1. CASE Monitor
    <2> DEFINE r == run["monitor"]
    <2>1. /\ clock' \in Nat /\ clock <= clock' /\ noticed' \in BOOLEAN
          /\ session' \in [count : 0..MaxCount, reset : {clock'}]
      BY <1>1, FoldTypes, Refreshed DEF Monitor, Fold, TypeOK, Actors
    <2>2. RunTypes'
      <3>1. Enter("monitor", Idle) /\ Idle \in MonitorRuns /\ Idle.phase # "merge"
        BY <1>1 DEF Monitor, MonitorRuns, Idle
      <3> QED BY <2>1, <3>1, RunStep DEF Actors
    <2>3. pending # None => pending.issued <= clock'
      BY <2>1 DEF TypeOK, Files
    <2> QED BY <1>1, <2>1, <2>2, <2>3 DEF Monitor, TypeOK, RunTypes, shown
  <1>11. CASE MonitorSamples
    <2> DEFINE s == [phase |-> "fold", count |-> driver.count, current |-> TRUE]
    <2>1. Enter("monitor", s) /\ UNCHANGED clock
      BY <1>11 DEF MonitorSamples
    <2>2. s \in MonitorRuns /\ s.phase # "merge"
      BY DEF MonitorRuns, TypeOK
    <2>3. RunTypes'
      BY <2>1, <2>2, RunStep DEF Actors
    <2> QED BY <1>11, <2>3 DEF MonitorSamples, TypeOK, RunTypes, world, shown
  <1>2. CASE Traffic
    <2>1. RunTypes'
      BY <1>2, RunsStay DEF Traffic
    <2>2. driver' \in [up : BOOLEAN, count : 0..MaxCount]
      BY <1>2, ManagerAssumption DEF Traffic, TypeOK
    <2> QED BY <1>2, <2>1, <2>2 DEF Traffic, TypeOK, RunTypes, shown
  <1>3. ASSUME NEW k \in Keys, Land(k) PROVE TypeOK'
    <2>1. RunTypes'
      BY <1>3, RunsStay DEF Land
    <2>2. queue[k] \in Writes /\ queue[k].value \in Held
      BY <1>3 DEF Land, TypeOK, Writes, Held
    <2>3. actual' \in [Keys -> Held] /\ queue' \in [Keys -> Writes \cup {None}]
      BY <1>3, <2>2 DEF Land, TypeOK
    <2> QED BY <1>3, <2>1, <2>3 DEF Land, TypeOK, RunTypes, shown
  <1>4. CASE DriverStops
    <2>1. RunTypes'
      BY <1>4, RunsWhenStopped
    <2>2. queue' \in [Keys -> Writes \cup {None}]
      BY <1>4 DEF DriverStops
    <2>3. driver' \in [up : BOOLEAN, count : 0..MaxCount] /\ restarts' \in 0..MaxRestarts
      BY <1>4, ManagerAssumption DEF DriverStops, TypeOK
    <2> QED BY <1>4, <2>1, <2>2, <2>3 DEF DriverStops, TypeOK, RunTypes, shown
  <1>5. CASE DriverStarts
    <2>1. RunTypes'
      BY <1>5, RunsStay DEF DriverStarts
    <2>2. driver' \in [up : BOOLEAN, count : 0..MaxCount]
      BY <1>5 DEF DriverStarts, TypeOK
    <2> QED BY <1>5, <2>1, <2>2 DEF DriverStarts, TypeOK, RunTypes, shown
  <1>6. ASSUME NEW text \in Texts, Edit(text) PROVE TypeOK'
    <2>1. RunTypes'
      BY <1>6, RunsStay DEF Edit
    <2>2. queue' \in [Keys -> Writes \cup {None}]
      BY <1>6, ForgivenTypes DEF Edit
    <2>3. memory' \in [changed : BOOLEAN, edited : BOOLEAN,
                       nodes : {None} \cup SUBSET Ids(Nodes)]
      BY <1>6 DEF Edit, TypeOK
    <2> QED BY <1>6, <2>1, <2>2, <2>3 DEF Edit, TypeOK, RunTypes
  <1>7. ASSUME NEW n \in Nodes, Join(n) PROVE TypeOK'
    <2>1. RunTypes'
      BY <1>7, RunsStay DEF Join
    <2> QED BY <1>7, <2>1 DEF Join, TypeOK, RunTypes, shown
  <1>8. ASSUME NEW k \in Keys, HandEdit(k) PROVE TypeOK'
    <2>1. RunTypes'
      BY <1>8, RunsStay DEF HandEdit
    <2>2. actual' \in [Keys -> Held]
      BY <1>8 DEF HandEdit, TypeOK, Held
    <2> QED BY <1>8, <2>1, <2>2 DEF HandEdit, TypeOK, RunTypes, shown
  <1>9. CASE HaRestarts
    <2>1. Enter("handler", Idle) /\ UNCHANGED clock
      BY <1>9 DEF HaRestarts
    <2>2. Idle \in HandlerRuns' /\ Idle.phase # "merge"
      BY DEF HandlerRuns, Idle
    <2>3. RunTypes'
      BY <2>1, <2>2, RunStep DEF Actors
    <2>5. memory' \in [changed : BOOLEAN, edited : BOOLEAN,
                       nodes : {None} \cup SUBSET Ids(Nodes)]
      BY <1>9 DEF HaRestarts
    <2>6. notes' = {} /\ desired' = None
      BY <1>9 DEF HaRestarts
    <2> QED BY <1>9, <2>3, <2>5, <2>6 DEF HaRestarts, TypeOK, RunTypes, world
  <1>10. CASE CalmDown
    <2>1. RunTypes'
      BY <1>10, RunsStay DEF CalmDown
    <2> QED BY <1>10, <2>1 DEF CalmDown, TypeOK, RunTypes, shown
  <1> QED BY <1>1, <1>2, <1>3, <1>4, <1>5, <1>6, <1>7, <1>8, <1>9, <1>10, <1>11 DEF World

\* So does every step.
LEMMA TypeStep == TypeOK /\ [Next]_vars => TypeOK'
  <1> SUFFICES ASSUME TypeOK, UNCHANGED vars PROVE TypeOK'
    BY HandlerTypeStep, CliTypeStep, WorldTypeStep DEF Next
  <1>1. RunTypes'
    BY RunsStay DEF vars, TypeOK
  <1> QED BY <1>1 DEF TypeOK, RunTypes, vars, world, shown

\* The files, the queue and the runs are what the code can make of them: in
\* particular no write is issued to a parameter that does not exist, with a
\* value no policy leads to, and what a merge remembers belongs to its plan.
THEOREM TypeCorrect == Spec => []TypeOK
  <1> QED BY InitTypes, TypeStep, PTL DEF Spec
-----------------------------------------------------------------------------
(* What every reachable state has in common: the counters tell restarts,   *)
(* times are in order, and nothing is said of a node that is not there.    *)

Counters ==
  /\ ~noticed => driver.count < session.count
  /\ noticed => driver.up
  /\ ~shared => run["cli"] = Idle
  /\ \A a \in Actors : run[a].phase = "fold" =>
       IF run[a].current THEN driver.up /\ run[a].count <= driver.count
       ELSE ~noticed => driver.count < run[a].count

Times ==
  \A a \in Actors : run[a].phase \in {"decide", "merge"} /\ run[a].reset # None =>
    run[a].now <= run[a].reset

\* Who has planned, and not merged yet; who has not decided yet.
Busy(a)  == a # "monitor" /\ run[a].phase \in {"session", "fold", "decide", "merge"}
Looks(a) == a # "monitor" /\ run[a].phase \in {"session", "fold", "decide"}

Placed(want) == \A k \in DOMAIN want : k[1] \in Ids(there)

Grounded ==
  /\ \A a \in Actors : Busy(a) => Placed(run[a].want)
  /\ pending # None => Placed(pending.want)
  /\ \A k \in Keys : queue[k] # None => driver.up /\ Known(k)

Basics == TypeOK /\ Counters /\ Times /\ Grounded

\* What the handler, and what zwavectl, leaves alone.
LEMMA HandlerFrame ==
  ASSUME TypeOK, Handler
  PROVE  /\ \A b \in Actors : b # "handler" => run'[b] = run[b]
         /\ run'["cli"] = run["cli"]
         /\ UNCHANGED <<file, there, actual, driver, shared>>
         /\ ~ReadSession => UNCHANGED <<session, clock, noticed>>
         /\ ~Decide => UNCHANGED queue
         /\ ~Merge => UNCHANGED pending
  <1> DEFINE Others == /\ \A b \in Actors : b # "handler" => run'[b] = run[b]
                       /\ run'["cli"] = run["cli"]
  <1>1. \A r : Enter("handler", r) => Others
    BY EnterRun DEF Actors
  <1>2. \E r : Enter("handler", r)
    BY DEF Handler, Begin, Load, EndsEarly, SampleSession, ReadSession, Decide, Merge, Report
  <1>0. Others
    BY <1>1, <1>2
  <1>3. CASE Begin
    BY <1>0, <1>3 DEF Begin, world
  <1>4. CASE Load
    BY <1>0, <1>4 DEF Load, world
  <1>5. CASE ReadSession
    BY <1>0, <1>5 DEF ReadSession, shown
  <1>6. CASE Decide
    BY <1>0, <1>6 DEF Decide, world
  <1>7. CASE Merge
    BY <1>0, <1>7 DEF Merge, world
  <1>8. CASE Report
    BY <1>0, <1>8 DEF Report, world
  <1>9. CASE SampleSession
    BY <1>0, <1>9 DEF SampleSession, world
  <1> QED BY <1>0, <1>3, <1>4, <1>5, <1>6, <1>7, <1>8, <1>9 DEF Handler

CliDecides ==
  \E dry, force \in BOOLEAN,
     failed \in IF May("fail") THEN SUBSET Keys ELSE {{}} : CliDecide(dry, force, failed)

\* What the steps of zwavectl leave alone.
LEMMA CliFrame ==
  ASSUME TypeOK, Cli
  PROVE  /\ \A b \in Actors : b # "cli" => run'[b] = run[b]
         /\ run'["handler"] = run["handler"]
         /\ UNCHANGED <<file, there, actual, driver, shared>>
         /\ ~CliSession => UNCHANGED <<session, clock, noticed>>
         /\ ~CliDecides => UNCHANGED queue
         /\ ~CliMerge => UNCHANGED pending
  <1> DEFINE Others == /\ \A b \in Actors : b # "cli" => run'[b] = run[b]
                       /\ run'["handler"] = run["handler"]
  <1>1. \A r : Enter("cli", r) => Others
    BY EnterRun DEF Actors
  <1>7. \E r : Enter("cli", r)
    BY DEF Cli, CliBegin, CliSession, CliDecide, CliMerge, CliKilled
  <1>0. Others
    BY <1>1, <1>7
  <1>2. CASE CliBegin
    BY <1>0, <1>2 DEF CliBegin
  <1>3. CASE CliSession
    BY <1>0, <1>3 DEF CliSession
  <1>4. CASE CliDecides
    BY <1>0, <1>4 DEF CliDecides, CliDecide, world
  <1>5. CASE CliMerge
    BY <1>0, <1>5 DEF CliMerge, world
  <1>6. CASE CliKilled
    BY <1>0, <1>6 DEF CliKilled, world
  <1> QED BY <1>0, <1>2, <1>3, <1>4, <1>5, <1>6 DEF Cli, CliDecides

\* Who folds counters records them.
LEMMA AfterFold ==
  ASSUME TypeOK, NEW a \in Actors, Fold(a)
  PROVE  /\ run[a].phase = "fold" /\ session'.count = run[a].count /\ session'.reset = clock'
         /\ clock' \in {clock, clock + 1}
         /\ clock' = IF run[a].count < session.count THEN clock + 1 ELSE clock
         /\ noticed' = (noticed \/ run[a].current)
  <1>1. run[a].phase = "fold" /\ run[a].count \in 0..MaxCount
    BY FoldTypes DEF Fold
  <1> QED BY <1>1, Refreshed DEF Fold

\* Who samples no counters disturbs none.
LEMMA CountersKept ==
  ASSUME Counters, UNCHANGED <<session, driver, noticed, shared>>,
         \A a \in Actors : run'[a].phase = "fold" => run'[a] = run[a],
         shared \/ run'["cli"] = run["cli"] \/ run'["cli"] = Idle
  PROVE  Counters'
  BY DEF Counters

\* Folded counters are in order, as sampled ones are.
LEMMA FoldKeepsCounters ==
  ASSUME TypeOK, Counters, NEW a \in Actors, Fold(a), UNCHANGED <<driver, shared>>,
         run'[a].phase # "fold", \A b \in Actors : b # a => run'[b] = run[b],
         a = "cli" => shared
  PROVE  Counters'
  <1>1. /\ run[a].phase = "fold" /\ session'.count = run[a].count
        /\ noticed' = (noticed \/ run[a].current)
    BY AfterFold
  <1>2. run[a].current \in BOOLEAN /\ noticed \in BOOLEAN
    BY <1>1, FoldTypes DEF TypeOK
  <1>3. shared \/ run'["cli"] = run["cli"]
    BY DEF Actors
  <1> QED BY <1>1, <1>2, <1>3 DEF Counters

\* Every step keeps the order of the counters.
LEMMA CountersStep == TypeOK /\ Counters /\ [Next]_vars => Counters'
  <1> SUFFICES ASSUME TypeOK, Counters, [Next]_vars PROVE Counters'
    OBVIOUS
  <1>0. /\ driver.count \in 0..MaxCount /\ session.count \in 0..MaxCount
        /\ MaxCount \in Nat
        /\ "handler" \in Actors /\ "cli" \in Actors /\ "monitor" \in Actors
    BY ManagerAssumption DEF TypeOK, Actors
  <1>1. CASE Handler /\ ~ReadSession /\ ~SampleSession
    <2>1. run'["handler"].phase # "fold"
      <3>1. ASSUME NEW r, Enter("handler", r), r.phase # "fold"
            PROVE  run'["handler"].phase # "fold"
        BY <1>0, <3>1, EnterRun
      <3>2. CASE Begin
        BY <3>1, <3>2 DEF Begin
      <3>3. CASE Load
        BY <3>1, <3>3 DEF Load, EndsEarly, Idle
      <3>4. CASE Decide
        BY <3>1, <3>4 DEF Decide, ToReport
      <3>5. CASE Merge \/ Report
        BY <3>1, <3>5 DEF Merge, Report, ToReport, Idle
      <3> QED BY <1>1, <3>2, <3>3, <3>4, <3>5 DEF Handler
    <2> QED BY <1>1, <2>1, HandlerFrame, CountersKept
  <1>2. CASE ReadSession
    <2>1. /\ UNCHANGED <<driver, shared>> /\ Fold("handler")
          /\ \A b \in Actors : b # "handler" => run'[b] = run[b]
      BY <1>2, HandlerFrame DEF Handler, ReadSession
    <2>2. run'["handler"].phase # "fold"
      BY <1>0, <1>2, EnterRun DEF ReadSession
    <2> QED BY <1>0, <2>1, <2>2, FoldKeepsCounters
  <1>6. CASE SampleSession
    <2>1. /\ UNCHANGED <<session, driver, noticed, shared>>
          /\ \A b \in Actors : b # "handler" => run'[b] = run[b]
      BY <1>6, HandlerFrame DEF Handler, SampleSession, world
    <2>2. run'["handler"].phase = "fold" =>
            driver.up /\ run'["handler"].count = driver.count /\ run'["handler"].current
      BY <1>0, <1>6, EnterRun DEF SampleSession
    <2> QED BY <1>0, <2>1, <2>2 DEF Counters
  <1>3. CASE Cli
    <2>0. UNCHANGED <<driver, shared>> /\ \A b \in Actors : b # "cli" => run'[b] = run[b]
      BY <1>3, CliFrame
    <2>1. CASE CliBegin
      <3> DEFINE s == [phase |-> "fold", want |-> Wanted(PlanOf(file, there)),
                       seen |-> actual, count |-> driver.count, current |-> TRUE]
      <3>1. run'["cli"] = s
        BY <1>0, <2>1, CliWants, EnterRun DEF CliBegin, ServerState
      <3>2. UNCHANGED <<session, noticed>> /\ shared /\ driver.up
        BY <2>1 DEF CliBegin
      <3> QED BY <1>0, <2>0, <3>1, <3>2 DEF Counters
    <2>2. CASE CliSession
      <3>1. Fold("cli") /\ run'["cli"].phase = "decide"
        BY <1>0, <2>2, EnterRun DEF CliSession
      <3>2. shared
        BY <3>1 DEF Fold, Counters, Idle
      <3> QED BY <1>0, <2>0, <3>1, <3>2, FoldKeepsCounters
    <2>3. CASE ~CliBegin /\ ~CliSession
      <3>1. UNCHANGED <<session, noticed>>
        BY <1>3, <2>3, CliFrame
      <3>2. /\ run'["cli"].phase # "fold"
            /\ shared \/ run'["cli"] = Idle
        <4>1. CASE CliDecides
          BY <1>0, <4>1, EnterRun DEF CliDecides, CliDecide, Idle, Counters
        <4>2. CASE CliMerge
          BY <1>0, <4>2, EnterRun DEF CliMerge, Idle
        <4>3. CASE CliKilled
          BY <1>0, <4>3, EnterRun DEF CliKilled, Idle
        <4> QED BY <1>3, <2>3, <4>1, <4>2, <4>3 DEF Cli, CliDecides
      <3> QED BY <2>0, <3>1, <3>2, CountersKept
    <2> QED BY <2>1, <2>2, <2>3
  <1>4. CASE World
    <2>1. CASE Monitor
      <3>1. /\ UNCHANGED <<driver, shared>> /\ Fold("monitor") /\ run'["monitor"] = Idle
            /\ \A b \in Actors : b # "monitor" => run'[b] = run[b]
        BY <1>0, <2>1, EnterRun DEF Monitor
      <3> QED BY <1>0, <3>1, FoldKeepsCounters DEF Idle
    <2>11. CASE MonitorSamples
      <3>1. /\ UNCHANGED <<session, driver, noticed, shared>> /\ driver.up
            /\ run'["monitor"] = [phase |-> "fold", count |-> driver.count, current |-> TRUE]
            /\ \A b \in Actors : b # "monitor" => run'[b] = run[b]
        BY <1>0, <2>11, EnterRun DEF MonitorSamples, world
      <3>2. run'["monitor"].count = driver.count /\ run'["monitor"].current
        BY <3>1
      <3> QED BY <1>0, <3>1, <3>2 DEF Counters
    <2>2. CASE Traffic
      <3>1. /\ driver' = [driver EXCEPT !.count = @ + 1] /\ driver.up
            /\ UNCHANGED <<session, noticed, shared, run>>
            /\ \A count \in ReadBefore : driver.count + 1 < count
        BY <2>2 DEF Traffic
      <3>2. driver'.up = driver.up /\ driver'.count = driver.count + 1
        BY <3>1 DEF TypeOK
      <3>3. ~noticed => session.count \in ReadBefore
        BY DEF ReadBefore
      <3>4. \A a \in Actors : ~noticed /\ run[a].phase = "fold" /\ ~run[a].current =>
              run[a].count \in ReadBefore
        BY DEF ReadBefore, Sampling
      <3>5. \A a \in Actors : run[a].phase = "fold" => run[a].count \in 0..MaxCount
        BY FoldTypes
      <3> QED BY <1>0, <3>1, <3>2, <3>3, <3>4, <3>5 DEF Counters
    <2>3. CASE DriverStops
      <3>1. /\ ~noticed' /\ driver'.count = 0 /\ UNCHANGED <<session, shared>>
            /\ session.count > 0
            /\ \A a \in Actors : run[a].phase = "fold" => run[a].count > 0
        BY <2>3 DEF DriverStops, Sampling
      <3>2. ASSUME NEW a \in Actors, run'[a].phase = "fold"
            PROVE  ~run'[a].current /\ run'[a].count > 0
        BY <2>3, <3>1, <3>2, RunsWhenStopped
      <3>3. run["cli"] = Idle => run'["cli"] = Idle
        BY <1>0, <2>3, RunsWhenStopped DEF Idle
      <3> QED BY <1>0, <3>1, <3>2, <3>3 DEF Counters
    <2>4. CASE DriverStarts
      BY <2>4 DEF DriverStarts, Counters, TypeOK
    <2>5. CASE HaRestarts
      <3>1. run'["handler"] = Idle /\ \A b \in Actors : b # "handler" => run'[b] = run[b]
        BY <1>0, <2>5, EnterRun DEF HaRestarts
      <3> QED BY <1>0, <2>5, <3>1, CountersKept DEF HaRestarts, Idle, world
    <2>6. ASSUME UNCHANGED <<session, driver, noticed, shared, run>> PROVE Counters'
      BY <2>6 DEF Counters
    <2>7. ASSUME NEW k \in Keys, Land(k) \/ HandEdit(k) PROVE Counters'
      BY <2>6, <2>7 DEF Land, HandEdit
    <2>8. ASSUME NEW text \in Texts, Edit(text) PROVE Counters'
      BY <2>6, <2>8 DEF Edit
    <2>9. ASSUME NEW n \in Nodes, Join(n) PROVE Counters'
      BY <2>6, <2>9 DEF Join
    <2>10. CASE CalmDown
      BY <2>6, <2>10 DEF CalmDown
    <2> QED BY <1>4, <2>1, <2>2, <2>3, <2>4, <2>5, <2>7, <2>8, <2>9, <2>10, <2>11 DEF World
  <1>5. CASE UNCHANGED vars
    BY <1>5 DEF vars, world, Counters
  <1> QED BY <1>1, <1>2, <1>3, <1>4, <1>5, <1>6 DEF Next, Handler
-----------------------------------------------------------------------------
(* The steps, as the invariants below see them.                            *)

\* The steps of a reconcile, by the phase they end and the one they enter.
LEMMA AfterBegin ==
  ASSUME TypeOK, Begin
  PROVE  /\ run["handler"].phase = "idle"
         /\ run'["handler"].phase = "load" /\ run'["handler"].now = clock
  BY EnterRun DEF Begin, Idle, Actors

LEMMA AfterLoad ==
  ASSUME TypeOK, Load
  PROVE  /\ run["handler"].phase = "load"
         /\ \/ run'["handler"].phase = "idle"
            \/ /\ run'["handler"].phase = "session"
               /\ run'["handler"].now = run["handler"].now
               /\ ~ConfigErrors(file)
               /\ run'["handler"].want = Target
               /\ run'["handler"].seen = actual
  <1> DEFINE r    == run["handler"]
             plan == PlanOf(file, there)
             s == [phase |-> "session", now |-> r.now, changed |-> r.changed,
                   issues |-> (plan.errors # {} \/ plan.warnings # {}),
                   unused |-> (plan.unused # {}), want |-> Wanted(plan), seen |-> actual]
  <1>1. r.phase = "load" /\ (Enter("handler", Idle) \/ (Enter("handler", s) /\ ~ConfigErrors(file)))
    BY DEF Load, EndsEarly
  <1>2. \A x : Enter("handler", x) => run'["handler"] = x
    BY EnterRun DEF Actors
  <1>3. Wanted(plan) = Target
    BY DEF Target
  <1> HIDE DEF plan, r
  <1> QED BY <1>1, <1>2, <1>3 DEF Idle, r

LEMMA AfterSampleSession ==
  ASSUME TypeOK, SampleSession
  PROVE  LET r == run["handler"]
             s == run'["handler"]
         IN /\ r.phase = "session"
            /\ s.now = r.now /\ s.want = r.want /\ s.seen = r.seen
            /\ IF driver.up THEN s.phase = "fold" /\ s.current
               ELSE s.phase = "decide" /\ s.reset = None
            /\ UNCHANGED <<session, clock, noticed, queue, pending, memory>>
  <1> DEFINE r == run["handler"]
             s == [phase |-> "fold", now |-> r.now, changed |-> r.changed,
                   issues |-> r.issues, unused |-> r.unused, want |-> r.want,
                   seen |-> r.seen, count |-> driver.count, current |-> TRUE]
             d == [phase |-> "decide", now |-> r.now, changed |-> r.changed,
                   issues |-> r.issues, unused |-> r.unused, want |-> r.want,
                   seen |-> r.seen, reset |-> None]
  <1>1. run'["handler"] = IF driver.up THEN s ELSE d
    BY EnterRun DEF SampleSession, Actors
  <1> HIDE DEF r
  <1>2. /\ s.phase = "fold" /\ s.now = r.now /\ s.want = r.want /\ s.seen = r.seen
        /\ s.current /\ d.phase = "decide" /\ d.now = r.now /\ d.want = r.want /\ d.seen = r.seen
        /\ d.reset = None
    OBVIOUS
  <1> HIDE DEF s, d
  <1> QED BY <1>1, <1>2 DEF SampleSession, r, world, shown

LEMMA AfterReadSession ==
  ASSUME TypeOK, ReadSession
  PROVE  LET r == run["handler"]
             s == run'["handler"]
         IN /\ r.phase = "fold" /\ s.phase = "decide"
            /\ s.now = r.now /\ s.want = r.want /\ s.seen = r.seen
            /\ s.reset = clock' /\ clock' \in {clock, clock + 1}
            /\ clock' = IF r.count < session.count THEN clock + 1 ELSE clock
            /\ noticed' = (noticed \/ r.current)
            /\ UNCHANGED <<queue, pending, memory>>
  <1> DEFINE r == run["handler"]
             s == [phase |-> "decide", now |-> r.now, changed |-> r.changed,
                   issues |-> r.issues, unused |-> r.unused, want |-> r.want,
                   seen |-> r.seen, reset |-> session'.reset]
  <1>0. "handler" \in Actors
    BY DEF Actors
  <1>1. run'["handler"] = s /\ Fold("handler")
    BY <1>0, EnterRun DEF ReadSession
  <1>2. /\ r.phase = "fold" /\ session'.reset = clock' /\ clock' \in {clock, clock + 1}
        /\ clock' = IF r.count < session.count THEN clock + 1 ELSE clock
        /\ noticed' = (noticed \/ r.current)
    BY <1>0, <1>1, AfterFold
  <1> HIDE DEF r
  <1>4. s.phase = "decide" /\ s.now = r.now /\ s.want = r.want /\ s.seen = r.seen
        /\ s.reset = session'.reset
    OBVIOUS
  <1> HIDE DEF s
  <1> QED BY <1>1, <1>2, <1>4 DEF ReadSession, r, shown

LEMMA AfterDecide ==
  ASSUME TypeOK, Decide
  PROVE  LET r     == run["handler"]
             s     == run'["handler"]
             valid == IF r.reset = None THEN NoCommands ELSE Valid(r.reset)
         IN /\ r.phase = "decide"
            /\ Issue(ToIssue(r.want, r.seen, valid), r.want,
                     IF shared \/ memory.edited THEN None ELSE r.now)
            /\ UNCHANGED <<session, clock, noticed, pending, memory>>
            /\ IF r.reset = None THEN s.phase = "report"
               ELSE /\ s.phase = "merge"
                    /\ s.now = r.now /\ s.want = r.want /\ s.reset = r.reset
                    /\ s.still = StillWanted(r.want, r.seen, valid)
  <1> DEFINE r     == run["handler"]
             valid == IF r.reset = None THEN NoCommands ELSE Valid(r.reset)
             still == StillWanted(r.want, r.seen, valid)
             s == [phase |-> "merge", now |-> r.now, changed |-> r.changed,
                   issues |-> r.issues, unused |-> r.unused, want |-> r.want,
                   still |-> still, reset |-> r.reset]
  <1>1. run'["handler"] = IF r.reset = None THEN ToReport(r, still) ELSE s
    BY EnterRun DEF Decide, Actors
  <1> HIDE DEF still, r
  <1>2. /\ s.phase = "merge" /\ s.now = r.now /\ s.want = r.want /\ s.reset = r.reset
        /\ s.still = still
        /\ ToReport(r, still).phase = "report"
    BY DEF ToReport
  <1> HIDE DEF s
  <1> QED BY <1>1, <1>2 DEF Decide, world, shown, r, still

LEMMA AfterMerge ==
  ASSUME TypeOK, Merge
  PROVE  /\ run["handler"].phase = "merge" /\ run'["handler"].phase = "report"
         /\ MergePending("handler")
         /\ UNCHANGED <<session, clock, noticed, queue>>
  BY EnterRun DEF Merge, ToReport, Actors, world

LEMMA AfterReport ==
  ASSUME TypeOK, Report
  PROVE  run["handler"].phase = "report" /\ run'["handler"].phase = "idle"
  BY EnterRun DEF Report, Idle, Actors

\* The same of zwavectl.
LEMMA AfterCliBegin ==
  ASSUME TypeOK, CliBegin
  PROVE  LET s == run'["cli"]
         IN /\ run["cli"].phase = "idle" /\ s.phase = "fold"
            /\ ~ConfigErrors(file) /\ shared
            /\ s.want = Target /\ s.seen = actual
  <1> DEFINE s == [phase |-> "fold", want |-> Wanted(PlanOf(file, there)),
                   seen |-> actual, count |-> driver.count, current |-> TRUE]
  <1>1. run'["cli"] = s
    BY CliWants, EnterRun DEF CliBegin, ServerState, Actors
  <1> QED BY <1>1 DEF CliBegin, Target, Idle

LEMMA AfterCliSession ==
  ASSUME TypeOK, CliSession
  PROVE  LET r == run["cli"]
             s == run'["cli"]
         IN /\ r.phase = "fold" /\ s.phase = "decide"
            /\ s.want = r.want /\ s.seen = r.seen
            /\ s.now = clock' /\ s.reset = clock'
            /\ clock' \in {clock, clock + 1}
            /\ noticed' = (noticed \/ r.current)
            /\ clock' = IF r.count < session.count THEN clock + 1 ELSE clock
            /\ UNCHANGED <<queue, pending>>
  <1> DEFINE r == run["cli"]
             s == [phase |-> "decide", want |-> r.want, seen |-> r.seen, now |-> clock',
                   reset |-> session'.reset]
  <1>0. "cli" \in Actors
    BY DEF Actors
  <1>1. run'["cli"] = s /\ Fold("cli")
    BY <1>0, EnterRun DEF CliSession
  <1>2. /\ r.phase = "fold" /\ session'.reset = clock' /\ clock' \in {clock, clock + 1}
        /\ clock' = IF r.count < session.count THEN clock + 1 ELSE clock
        /\ noticed' = (noticed \/ r.current)
    BY <1>0, <1>1, AfterFold
  <1> QED BY <1>1, <1>2 DEF CliSession

\* Either actor, when it has decided: `valid' is what it took for pending, and
\* `keys' what it issued; a run that goes on to its merge issued all it had to.
Decides(a, valid, keys) ==
  LET r == run[a]
      s == run'[a]
  IN /\ r.phase = "decide"
     /\ valid = NoCommands \/ (r.reset # None /\ valid = Valid(r.reset))
     /\ keys \subseteq ToIssue(r.want, r.seen, valid)
     /\ \E began \in Nat \cup {None} : Issue(keys, r.want, began)
     /\ s.phase \in {"idle", "merge", "report"}
     /\ s.phase = "merge" =>
          /\ r.reset # None
          /\ keys = ToIssue(r.want, r.seen, valid)
          /\ s.still = StillWanted(r.want, r.seen, valid)
          /\ s.now = r.now /\ s.want = r.want /\ s.reset = r.reset
     /\ \A b \in Actors : b # a => run'[b] = run[b]
     /\ UNCHANGED <<file, there, actual, driver, shared, session, clock, noticed, pending>>

\* Both decide alike.
LEMMA DecideDecides ==
  ASSUME TypeOK, Decide
  PROVE  \E valid, keys : Decides("handler", valid, keys)
  <1> DEFINE r     == run["handler"]
             valid == IF r.reset = None THEN NoCommands ELSE Valid(r.reset)
             began == IF shared \/ memory.edited THEN None ELSE r.now
  <1>0. began \in Nat \cup {None}
    BY AfterDecide, HandlerTypes DEF TypeOK
  <1> HIDE DEF began
  <1>2. Issue(ToIssue(r.want, r.seen, valid), r.want, began)
    BY AfterDecide DEF began
  <1>3. \E b \in Nat \cup {None} : Issue(ToIssue(r.want, r.seen, valid), r.want, b)
    BY <1>0, <1>2
  <1>1. Decides("handler", valid, ToIssue(r.want, r.seen, valid))
    BY <1>3, AfterDecide, HandlerFrame DEF Decides, Handler, Actors
  <1> QED BY <1>1

LEMMA CliDecideDecides ==
  ASSUME TypeOK, CliDecides
  PROVE  \E valid, keys : Decides("cli", valid, keys)
  <1>1. PICK dry \in BOOLEAN, force \in BOOLEAN, failed \in SUBSET Keys : CliDecide(dry, force, failed)
    BY DEF CliDecides
  <1> DEFINE r      == run["cli"]
             valid  == IF force THEN NoCommands ELSE Valid(r.reset)
             writes == ToIssue(r.want, r.seen, valid)
             keys   == (IF dry THEN {} ELSE writes) \ failed
             still  == StillWanted(r.want, r.seen, valid)
             s == [phase |-> "merge", want |-> r.want, still |-> still,
                   now |-> r.now, reset |-> r.reset]
  <1>2. /\ r.phase = "decide" /\ \E began \in Nat \cup {None} : Issue(keys, r.want, began)
        /\ run'["cli"] = IF dry \/ failed # {} THEN Idle ELSE s
    BY <1>1, EnterRun DEF CliDecide, CliIssue, Actors
  <1>3. r.reset \in 0..clock
    BY <1>2, CliTypes
  <1>4. r.reset # None
    BY <1>3, ManagerAssumption
  <1>5. /\ \A b \in Actors : b # "cli" => run'[b] = run[b]
        /\ UNCHANGED <<file, there, actual, driver, shared, session, clock, noticed, pending>>
    BY <1>1, CliFrame DEF Cli, CliDecides, CliDecide, world
  <1> HIDE DEF still, r
  <1>6. /\ s.phase = "merge" /\ s.now = r.now /\ s.want = r.want /\ s.reset = r.reset
        /\ s.still = still /\ Idle.phase = "idle"
    BY DEF Idle
  <1> HIDE DEF s
  <1>7. Decides("cli", valid, keys)
    <2>1. CASE dry \/ failed # {}
      BY <1>2, <1>4, <1>5, <1>6, <2>1 DEF Decides, Actors, r
    <2>2. CASE ~dry /\ failed = {}
      <3>1. keys = writes
        BY <2>2
      <3> HIDE DEF keys, writes, valid
      <3>2. valid = NoCommands \/ valid = Valid(r.reset)
        BY DEF valid
      <3>3. run'["cli"] = s
        BY <1>2, <2>2
      <3> QED BY <1>2, <1>4, <1>5, <1>6, <3>1, <3>2, <3>3 DEF Decides, Actors, r, writes, still
    <2> QED BY <2>1, <2>2
  <1> QED BY <1>7

\* Either actor, when it merges.
Merges(a) ==
  /\ run[a].phase = "merge" /\ run'[a].phase \in {"idle", "report"}
  /\ MergePending(a)
  /\ \A b \in Actors : b # a => run'[b] = run[b]
  /\ UNCHANGED <<file, there, actual, driver, shared, session, clock, noticed, queue>>

LEMMA MergeMerges ==
  ASSUME TypeOK, Merge \/ CliMerge
  PROVE  \E a \in Actors : Merges(a)
  <1>1. CASE Merge
    BY <1>1, AfterMerge, HandlerFrame DEF Merges, Handler, Actors
  <1>2. CASE CliMerge
    <2>1. /\ run["cli"].phase = "merge" /\ run'["cli"].phase = "idle"
          /\ UNCHANGED <<session, clock, noticed, queue>>
      BY <1>2, EnterRun DEF CliMerge, Idle, Actors, world
    <2> QED BY <1>2, <2>1, CliFrame DEF Merges, Cli, CliMerge, Actors
  <1> QED BY <1>1, <1>2

\* Counters sampled before the driver stopped are those of another session.
Overtaken(a) ==
  /\ run[a].phase = "fold" /\ run'[a].phase = "fold"
  /\ run'[a].want = run[a].want /\ run'[a].seen = run[a].seen
  /\ a = "handler" => run'[a].now = run[a].now

\* Nothing the surroundings do is part of a run, but that they end one.
LEMMA WorldFrame ==
  ASSUME TypeOK, World
  PROVE  /\ \A a \in Actors :
              run'[a] = run[a] \/ run'[a].phase = "idle" \/ Overtaken(a) \/ a = "monitor"
         /\ UNCHANGED <<pending, shared>>
         /\ ~Monitor => UNCHANGED <<session, clock>>
         /\ ~HaRestarts => run'["handler"] = run["handler"] \/ Overtaken("handler")
  <1>0. "handler" \in Actors /\ "cli" \in Actors /\ "monitor" \in Actors
    BY DEF Actors
  <1>1. CASE DriverStops
    <2>1. UNCHANGED <<pending, shared, session, clock>>
      BY <1>1 DEF DriverStops, shown
    <2>2. \A a \in Actors : run'[a] = run[a] \/ Overtaken(a) \/ a = "monitor"
      BY <1>1, RunsWhenStopped DEF Overtaken
    <2> QED BY <1>0, <2>1, <2>2
  <1>2. CASE HaRestarts
    <2>1. run'["handler"] = Idle /\ \A b \in Actors : b # "handler" => run'[b] = run[b]
      BY <1>0, <1>2, EnterRun DEF HaRestarts
    <2> QED BY <1>2, <2>1 DEF HaRestarts, Idle, world
  <1>4. CASE Monitor \/ MonitorSamples
    <2>1. \A b \in Actors : b # "monitor" => run'[b] = run[b]
      BY <1>0, <1>4, EnterRun DEF Monitor, MonitorSamples
    <2> QED BY <1>0, <1>4, <2>1 DEF Monitor, MonitorSamples, shown, world
  <1>3. CASE ~DriverStops /\ ~HaRestarts /\ ~Monitor /\ ~MonitorSamples
    BY <1>3 DEF World, Traffic, Land, DriverStarts, Edit, Join, HandEdit, CalmDown, shown
  <1> QED BY <1>1, <1>2, <1>3, <1>4

\* A run begins before the reset it acts on.
LEMMA TimesStep == TypeOK /\ Times /\ [Next]_vars => Times'
  <1> SUFFICES ASSUME TypeOK, Times, [Next]_vars, NEW a \in Actors,
                      run'[a].phase \in {"decide", "merge"}, run'[a].reset # None
               PROVE  run'[a].now <= run'[a].reset
    BY DEF Times
  <1>1. CASE run'[a] = run[a]
    BY <1>1 DEF Times
  <1>2. CASE Handler /\ a = "handler"
    <2>1. CASE ReadSession
      <3>1. run["handler"].now \in 0..clock /\ clock \in Nat
        BY <2>1, HandlerTypes, AfterReadSession DEF TypeOK
      <3>2. clock' = clock \/ clock' = clock + 1
        BY <2>1, AfterReadSession
      <3> QED BY <1>2, <2>1, <3>1, <3>2, AfterReadSession
    <2>2. CASE Decide
      BY <1>2, <2>2, AfterDecide DEF Times, Actors
    <2>3. CASE SampleSession
      BY <1>2, <2>3, AfterSampleSession
    <2> QED BY <1>2, <2>1, <2>2, <2>3, AfterBegin, AfterLoad, AfterMerge, AfterReport DEF Handler
  <1>3. CASE Cli /\ a = "cli"
    <2>1. CASE CliSession
      BY <1>3, <2>1, AfterCliSession DEF TypeOK
    <2>2. CASE CliDecides
      BY <1>3, <2>2, CliDecideDecides DEF Decides, Times, Actors
    <2>3. CASE CliMerge \/ CliKilled
      BY <1>3, <2>3, EnterRun DEF CliMerge, CliKilled, Idle, Actors
    <2> QED BY <1>3, <2>1, <2>2, <2>3, AfterCliBegin DEF Cli, CliDecides
  <1>4. CASE Handler /\ a # "handler"
    BY <1>1, <1>4, HandlerFrame
  <1>5. CASE Cli /\ a # "cli"
    BY <1>1, <1>5, CliFrame
  <1>6. CASE World
    <2>1. TypeOK'
      BY TypeStep
    <2>2. a # "monitor"
      BY <2>1 DEF TypeOK, MonitorRuns, Idle
    <2> QED BY <1>1, <1>6, <2>2, WorldFrame DEF Overtaken
  <1>7. CASE UNCHANGED vars
    BY <1>1, <1>7 DEF vars
  <1> QED BY <1>2, <1>3, <1>4, <1>5, <1>6, <1>7 DEF Next, Actors

\* Nodes stay, and what is known of them.
LEMMA NodesStay ==
  ASSUME TypeOK, [Next]_vars
  PROVE  /\ there \subseteq there' /\ there' \subseteq Nodes
         /\ \A k : k[1] \in Ids(there) => k[1] \in Ids(there)' /\ (Known(k)' <=> Known(k))
  <1>1. there \subseteq there' /\ there' \subseteq Nodes
    <2>1. TypeOK'
      BY TypeStep
    <2>2. CASE Handler \/ Cli
      BY <2>2, HandlerFrame, CliFrame DEF TypeOK
    <2>3. CASE World
      BY <2>1, <2>3 DEF World, Monitor, MonitorSamples, Traffic, Land, DriverStops, DriverStarts, Edit, Join,
                        HandEdit, HaRestarts, CalmDown, TypeOK, world
    <2> QED BY <2>1, <2>2, <2>3 DEF Next, vars, world, TypeOK
  <1>2. ASSUME NEW k, k[1] \in Ids(there)
        PROVE  k[1] \in Ids(there)' /\ (Known(k)' <=> Known(k))
    <2>1. PICK n \in there : n.id = k[1]
      BY <1>2 DEF Ids
    <2>2. \A m \in there' : m.id = k[1] => m = n
      BY <1>1, <2>1, ManagerAssumption
    <2> QED BY <1>1, <2>1, <2>2 DEF Known, Ids
  <1> QED BY <1>1, <1>2

\* The queue holds what it held, or what a run has just issued; a driver that
\* stops holds nothing.
LEMMA QueueStep ==
  ASSUME TypeOK, [Next]_vars, NEW k \in Keys, queue'[k] # None
  PROVE  /\ driver.up => driver'.up
         /\ \/ queue[k] # None /\ queue'[k].value = queue[k].value
            \/ \E a \in Actors : \E valid, keys :
                 /\ IF a = "handler" THEN Decide ELSE CliDecides
                 /\ Decides(a, valid, keys)
                 /\ k \in keys /\ driver.up /\ Known(k)
                 /\ queue'[k].value = run[a].want[k]
  <1>1. ASSUME NEW a \in Actors, NEW valid, NEW keys, Decides(a, valid, keys)
        PROVE  \/ queue'[k] = queue[k]
               \/ /\ k \in keys /\ driver.up /\ Known(k)
                  /\ queue'[k].value = run[a].want[k]
    <2>1. run[a].want \in Wants /\ keys \in SUBSET DOMAIN run[a].want
      BY <1>1, HandlerTypes, CliTypes, MonitorTypes DEF Decides, Actors, ToIssue
    <2>2. PICK began \in Nat \cup {None} : Issue(keys, run[a].want, began)
      BY <1>1 DEF Decides
    <2>3. IF k \notin keys \/ ~driver.up \/ ~Known(k) THEN queue'[k] = queue[k]
          ELSE queue'[k].value = run[a].want[k]
      BY <2>1, <2>2, QueueAfterIssue
    <2> QED BY <2>3
  <1>2. CASE Decide
    BY <1>1, <1>2, DecideDecides, HandlerFrame DEF Handler, Actors
  <1>3. CASE CliDecides
    BY <1>1, <1>3, CliDecideDecides, CliFrame DEF Cli, CliDecides, Actors
  <1>4. CASE Handler /\ ~Decide
    BY <1>4, HandlerFrame
  <1>5. CASE Cli /\ ~CliDecides
    BY <1>5, CliFrame
  <1>6. CASE World
    <2>1. CASE \E text \in Texts : Edit(text)
      <3>1. queue' = Forgiven /\ UNCHANGED driver
        BY <2>1 DEF Edit
      <3> QED BY <3>1, ForgivenTypes
    <2>2. CASE DriverStops
      BY <2>2 DEF DriverStops
    <2>3. ASSUME NEW j \in Keys, Land(j)
          PROVE  UNCHANGED driver /\ queue'[k] = queue[k]
      BY <2>3 DEF Land, TypeOK
    <2>4. ASSUME NEW n \in Nodes, Join(n) PROVE UNCHANGED <<driver, queue>>
      BY <2>4 DEF Join
    <2>5. ASSUME NEW j \in Keys, HandEdit(j) PROVE UNCHANGED <<driver, queue>>
      BY <2>5 DEF HandEdit
    <2>6. CASE Monitor \/ MonitorSamples \/ CalmDown \/ HaRestarts
      BY <2>6 DEF Monitor, MonitorSamples, CalmDown, HaRestarts, world
    <2>7. CASE Traffic \/ DriverStarts
      BY <2>7 DEF Traffic, DriverStarts, TypeOK
    <2> QED BY <1>6, <2>1, <2>2, <2>3, <2>4, <2>5, <2>6, <2>7 DEF World
  <1>7. CASE UNCHANGED vars
    BY <1>7 DEF vars, world
  <1> QED BY <1>2, <1>3, <1>4, <1>5, <1>6, <1>7 DEF Next

\* What a run wants it has wanted since it was planned.
LEMMA WantStep ==
  ASSUME TypeOK, [Next]_vars, NEW a \in Actors, Busy(a)'
  PROVE  \/ Busy(a) /\ run'[a].want = run[a].want
         \/ /\ run[a].phase \in {"idle", "load"}
            /\ ~ConfigErrors(file) /\ run'[a].want = Target
            /\ run'[a].seen = actual /\ UNCHANGED actual
  <1>1. CASE run'[a] = run[a]
    BY <1>1 DEF Busy
  <1>2. CASE Handler /\ a = "handler"
    BY <1>2, AfterBegin, AfterLoad, AfterSampleSession, AfterReadSession, AfterDecide, AfterMerge, AfterReport,
       HandlerFrame DEF Handler, Busy
  <1>3. CASE Cli /\ a = "cli"
    <2>1. CASE CliBegin
      BY <1>3, <2>1, AfterCliBegin, CliFrame
    <2>2. CASE CliSession
      BY <1>3, <2>2, AfterCliSession DEF Busy
    <2>3. CASE CliDecides
      BY <1>3, <2>3, CliDecideDecides DEF Decides, Busy
    <2>4. CASE CliMerge \/ CliKilled
      BY <1>3, <2>4, EnterRun DEF CliMerge, CliKilled, Idle, Busy
    <2> QED BY <1>3, <2>1, <2>2, <2>3, <2>4 DEF Cli, CliDecides
  <1>4. CASE Handler /\ a # "handler"
    BY <1>1, <1>4, HandlerFrame
  <1>5. CASE Cli /\ a # "cli"
    BY <1>1, <1>5, CliFrame
  <1>6. CASE World
    BY <1>1, <1>6, WorldFrame DEF Busy, Overtaken
  <1>7. CASE UNCHANGED vars
    BY <1>1, <1>7 DEF vars
  <1> QED BY <1>2, <1>3, <1>4, <1>5, <1>6, <1>7 DEF Next, Actors

\* What a run has seen was true when it was planned.
LEMMA SeenStep ==
  ASSUME TypeOK, [Next]_vars, NEW a \in Actors, Looks(a)'
  PROVE  \/ Looks(a) /\ run'[a].want = run[a].want /\ run'[a].seen = run[a].seen
         \/ run'[a].seen = actual /\ UNCHANGED actual
  <1>1. CASE run'[a] = run[a]
    BY <1>1 DEF Looks
  <1>2. CASE Handler /\ a = "handler"
    BY <1>2, AfterBegin, AfterLoad, AfterSampleSession, AfterReadSession, AfterDecide, AfterMerge, AfterReport,
       HandlerFrame DEF Handler, Looks
  <1>3. CASE Cli /\ a = "cli"
    <2>1. CASE CliBegin
      BY <1>3, <2>1, AfterCliBegin, CliFrame
    <2>2. CASE CliSession
      BY <1>3, <2>2, AfterCliSession DEF Looks
    <2>3. CASE CliDecides
      BY <1>3, <2>3, CliDecideDecides DEF Decides, Looks
    <2>4. CASE CliMerge \/ CliKilled
      BY <1>3, <2>4, EnterRun DEF CliMerge, CliKilled, Idle, Looks
    <2> QED BY <1>3, <2>1, <2>2, <2>3, <2>4 DEF Cli, CliDecides
  <1>4. CASE Handler /\ a # "handler"
    BY <1>1, <1>4, HandlerFrame
  <1>5. CASE Cli /\ a # "cli"
    BY <1>1, <1>5, CliFrame
  <1>6. CASE World
    BY <1>1, <1>6, WorldFrame DEF Looks, Overtaken
  <1>7. CASE UNCHANGED vars
    BY <1>1, <1>7 DEF vars
  <1> QED BY <1>2, <1>3, <1>4, <1>5, <1>6, <1>7 DEF Next, Actors

\* A run is about to merge from when it has decided.
LEMMA MergeStep ==
  ASSUME TypeOK, [Next]_vars, NEW a \in Actors, run'[a].phase = "merge"
  PROVE  run'[a] = run[a] \/ \E valid, keys : Decides(a, valid, keys)
  <1>2. CASE Handler /\ a = "handler"
    BY <1>2, AfterBegin, AfterLoad, AfterSampleSession, AfterReadSession, DecideDecides, AfterMerge, AfterReport
    DEF Handler
  <1>3. CASE Cli /\ a = "cli"
    <2>4. CASE CliMerge \/ CliKilled
      BY <1>3, <2>4, EnterRun DEF CliMerge, CliKilled, Idle
    <2> QED BY <1>3, <2>4, AfterCliBegin, AfterCliSession, CliDecideDecides DEF Cli, CliDecides
  <1>4. CASE Handler /\ a # "handler"
    BY <1>4, HandlerFrame
  <1>5. CASE Cli /\ a # "cli"
    BY <1>5, CliFrame
  <1>6. CASE World
    <2>1. TypeOK'
      BY TypeStep
    <2>2. a # "monitor"
      BY <2>1 DEF TypeOK, MonitorRuns, Idle
    <2> QED BY <1>6, <2>2, WorldFrame DEF Overtaken
  <1>7. CASE UNCHANGED vars
    BY <1>7 DEF vars
  <1> QED BY <1>2, <1>3, <1>4, <1>5, <1>6, <1>7 DEF Next, Actors

\* The pending file changes when somebody merges.
LEMMA PendingStep ==
  ASSUME TypeOK, [Next]_vars
  PROVE  UNCHANGED pending \/ \E a \in Actors : Merges(a)
  <1>1. CASE Handler
    BY <1>1, MergeMerges, HandlerFrame
  <1>2. CASE Cli
    BY <1>2, MergeMerges, CliFrame
  <1>3. CASE World
    BY <1>3, WorldFrame
  <1> QED BY <1>1, <1>2, <1>3 DEF Next, vars

\* Every step keeps what is wanted, listed and queued to nodes there are.
LEMMA GroundedStep == TypeOK /\ Grounded /\ [Next]_vars => Grounded'
  <1> SUFFICES ASSUME TypeOK, Grounded, [Next]_vars PROVE Grounded'
    OBVIOUS
  <1>0. \A want : Placed(want) => \A k \in DOMAIN want : k[1] \in Ids(there)'
    BY NodesStay DEF Placed
  <1>1. ASSUME NEW a \in Actors, Busy(a)'
        PROVE  Placed(run[a].want)'
    <2>1. CASE Busy(a) /\ run'[a].want = run[a].want
      BY <1>0, <2>1 DEF Grounded, Placed
    <2>2. CASE ~ConfigErrors(file) /\ run'[a].want = Target
      BY <1>0, <2>2, WantedIsTyped DEF Placed, Target, TypeOK
    <2> QED BY <1>1, <2>1, <2>2, WantStep
  <1>2. ASSUME pending' # None
        PROVE  Placed(pending.want)'
    <2>1. ASSUME UNCHANGED pending PROVE Placed(pending.want)'
      BY <1>0, <1>2, <2>1 DEF Grounded, Placed
    <2>2. ASSUME NEW a \in Actors, Merges(a) PROVE Placed(pending.want)'
      <3>2. /\ run[a].still \subseteq DOMAIN run[a].want
            /\ pending'.want = Merged(Valid(run[a].reset), run[a].want, run[a].still)
        BY <1>2, <2>2, FileAfterMerge DEF Merges
      <3>3. Placed(run[a].want)
        BY <2>2, MonitorTypes DEF Grounded, Busy, Merges
      <3>4. Placed(Valid(run[a].reset))
        BY WantsAreFunctions DEF Grounded, Valid, Placed
      <3>5. \A k \in DOMAIN pending'.want :
              k \in DOMAIN Valid(run[a].reset) \/ k \in run[a].still
        BY <3>2, MergedFile
      <3>6. \A k \in DOMAIN pending'.want : k[1] \in Ids(there)
        BY <3>2, <3>3, <3>4, <3>5 DEF Placed
      <3> QED BY <3>6, NodesStay DEF Placed
    <2> QED BY <2>1, <2>2, PendingStep
  <1>3. ASSUME NEW k \in Keys, queue'[k] # None
        PROVE  driver'.up /\ Known(k)'
    <2>1. driver.up /\ Known(k)
      BY <1>3, QueueStep DEF Grounded
    <2>2. k[1] \in Ids(there)
      BY <2>1 DEF Known, Ids
    <2> QED BY <1>3, <2>1, <2>2, QueueStep, NodesStay
  <1> QED BY <1>1, <1>2, <1>3 DEF Grounded

\* Together they hold in every reachable state.
LEMMA BasicsInit == Init => Basics
  <1> SUFFICES ASSUME Init PROVE Basics
    OBVIOUS
  <1>1. TypeOK
    BY InitTypes
  <1>2. \A a \in Actors : run[a] = Idle
    BY DEF Init
  <1>3. Counters
    BY <1>2 DEF Init, Counters, Idle, Actors
  <1>4. Times /\ Grounded
    BY <1>2 DEF Init, Times, Grounded, Busy, Idle
  <1> QED BY <1>1, <1>3, <1>4 DEF Basics

LEMMA BasicsStep == Basics /\ [Next]_vars => Basics'
  BY TypeStep, CountersStep, TimesStep, GroundedStep DEF Basics

LEMMA AlwaysBasics == Spec => []Basics
  BY BasicsInit, BasicsStep, PTL DEF Spec

\* The value of a parameter changes when a write lands, or by hand.
LEMMA ActualStep ==
  ASSUME TypeOK, [Next]_vars, NEW k \in Keys
  PROVE  \/ actual'[k] = actual[k]
         \/ Land(k) /\ queue[k] # None /\ actual'[k] = queue[k].value
         \/ HandEdit(k)
  <1>1. CASE Handler \/ Cli
    BY <1>1, HandlerFrame, CliFrame
  <1>2. CASE World
    <2>1. ASSUME NEW j \in Keys, Land(j) PROVE j = k \/ actual'[k] = actual[k]
      BY <2>1 DEF Land, TypeOK
    <2>2. ASSUME Land(k) PROVE queue[k] # None /\ actual'[k] = queue[k].value
      BY <2>2 DEF Land, TypeOK
    <2>3. ASSUME NEW j \in Keys, HandEdit(j) PROVE j = k \/ actual'[k] = actual[k]
      BY <2>3 DEF HandEdit, TypeOK
    <2>4. UNCHANGED actual \/ \E j \in Keys : Land(j) \/ HandEdit(j)
      BY <1>2 DEF World, Monitor, MonitorSamples, Traffic, DriverStops, DriverStarts, Edit, Join, HaRestarts,
                  CalmDown, world
    <2> QED BY <2>1, <2>2, <2>3, <2>4
  <1> QED BY <1>1, <1>2 DEF Next, vars, world

\* What is queued is issued again, lands or is lost.
LEMMA QueueKeeps ==
  ASSUME TypeOK, [Next]_vars, NEW k \in Keys, queue[k] # None
  PROVE  queue'[k] # None \/ Land(k) \/ DriverStops
  <1>1. ASSUME NEW a \in Actors, NEW valid, NEW keys, Decides(a, valid, keys)
        PROVE  queue'[k] # None
    <2>1. run[a].want \in Wants /\ keys \in SUBSET DOMAIN run[a].want
      BY <1>1, HandlerTypes, CliTypes, MonitorTypes DEF Decides, Actors, ToIssue
    <2>2. PICK began \in Nat \cup {None} : Issue(keys, run[a].want, began)
      BY <1>1 DEF Decides
    <2>3. IF k \notin keys \/ ~driver.up \/ ~Known(k) THEN queue'[k] = queue[k]
          ELSE queue'[k] # None
      BY <2>1, <2>2, QueueAfterIssue
    <2> QED BY <2>3
  <1>2. CASE Handler
    BY <1>1, <1>2, DecideDecides, HandlerFrame DEF Actors
  <1>3. CASE Cli
    BY <1>1, <1>3, CliDecideDecides, CliFrame DEF Actors
  <1>4. CASE World
    <2>1. CASE \E text \in Texts : Edit(text)
      <3>1. queue' = Forgiven
        BY <2>1 DEF Edit
      <3> QED BY <3>1, ForgivenTypes
    <2>2. ASSUME NEW j \in Keys, Land(j) PROVE j = k \/ queue'[k] = queue[k]
      BY <2>2 DEF Land, TypeOK
    <2>3. \/ UNCHANGED queue \/ DriverStops
          \/ \E text \in Texts : Edit(text)
          \/ \E j \in Keys : Land(j)
      BY <1>4 DEF World, Monitor, MonitorSamples, Traffic, DriverStarts, Join, HandEdit,
                  HaRestarts, CalmDown, world
    <2> QED BY <2>1, <2>2, <2>3
  <1> QED BY <1>2, <1>3, <1>4 DEF Next, vars

\* Nobody notices a restart without a reset being recorded; and then nothing
\* else happens.
LEMMA ClockStep ==
  ASSUME Basics, [Next]_vars
  PROVE  \/ clock' = clock /\ (noticed' => noticed)
         \/ clock' = clock + 1 /\ UNCHANGED <<pending, queue, actual, there, file>>
  <1>0. /\ TypeOK /\ Counters /\ driver.count \in 0..MaxCount /\ session.count \in 0..MaxCount
        /\ MaxCount \in Nat
    BY ManagerAssumption DEF Basics, TypeOK
  <1>1. ASSUME NEW a \in Actors, Fold(a), UNCHANGED <<pending, queue, actual, there, file>>
        PROVE  \/ clock' = clock /\ (noticed' => noticed)
               \/ clock' = clock + 1 /\ UNCHANGED <<pending, queue, actual, there, file>>
    <2>1. /\ run[a].phase = "fold" /\ run[a].count \in 0..MaxCount
          /\ run[a].current \in BOOLEAN /\ noticed \in BOOLEAN
          /\ noticed' = (noticed \/ run[a].current)
          /\ clock' = IF run[a].count < session.count THEN clock + 1 ELSE clock
      BY <1>0, <1>1, AfterFold, FoldTypes DEF TypeOK
    <2>2. ~noticed /\ run[a].current => run[a].count < session.count
      BY <1>0, <2>1 DEF Counters
    <2> QED BY <1>1, <2>1, <2>2
  <1>2. CASE ReadSession \/ CliSession \/ Monitor
    <2>1. UNCHANGED <<pending, queue, actual, there, file>>
      BY <1>2 DEF ReadSession, CliSession, Monitor
    <2>2. \E a \in Actors : Fold(a)
      BY <1>2 DEF ReadSession, CliSession, Monitor, Actors
    <2> QED BY <1>1, <2>1, <2>2
  <1>4. CASE Handler /\ ~ReadSession
    BY <1>0, <1>4, HandlerFrame
  <1>5. CASE Cli /\ ~CliSession
    BY <1>0, <1>5, CliFrame
  <1>6. CASE World /\ ~Monitor
    <2>1. UNCHANGED clock
      BY <1>0, <1>6, WorldFrame
    <2>2. noticed' => noticed
      BY <1>6 DEF World, MonitorSamples, Traffic, Land, DriverStops, DriverStarts, Edit, Join, HandEdit,
                  HaRestarts, CalmDown, world
    <2> QED BY <2>1, <2>2
  <1>7. CASE UNCHANGED vars
    BY <1>7 DEF vars, world
  <1> QED BY <1>2, <1>4, <1>5, <1>6, <1>7 DEF Next
-----------------------------------------------------------------------------
(* What was issued in this driver session is kept: PendingIsQueued.        *)

\* The pending file is of the driver session under way, as far as recorded.
Fresh == pending # None /\ pending.issued = clock

Agrees(want) ==
  ~ConfigErrors(file) /\ \A k \in DOMAIN want : k \in DOMAIN Target /\ want[k] = Target[k]

\* With a file nobody edits, all that is ever wanted, pending or queued agrees
\* with the target; zwavectl aims at all of it, and so does a reconcile begun
\* later than zwavectl looked at the record.
OnTarget ==
  /\ \A a \in Actors : Busy(a) => Agrees(run[a].want)
  /\ pending # None => Agrees(pending.want)
  /\ \A k \in Keys : queue[k] # None =>
       ~ConfigErrors(file) /\ k \in DOMAIN Target /\ queue[k].value = Target[k]
  /\ \A a \in Actors : Looks(a) =>
       \A k \in DOMAIN run[a].want :
         Converged(k, run[a].want, run[a].seen) => actual[k] = run[a].want[k]
  /\ Busy("cli") => run["cli"].want = Target
  /\ (/\ run["cli"].phase \in {"decide", "merge"} /\ Busy("handler")
      /\ run["cli"].now < run["handler"].now) => run["handler"].want = Target

Done(k) == queue[k] # None \/ actual[k] = Target[k]

Covered(keys) == \A k \in keys : Known(k) => Done(k)

\* What the file lists is done; what a run has issued is, all that it wants when
\* nothing restarted since it began; so the file may be written again.
Kept ==
  noticed =>
    /\ Fresh => Covered(DOMAIN pending.want)
    /\ \A a \in Actors : run[a].phase = "merge" =>
         /\ run[a].now = clock => Covered(DOMAIN run[a].want)
         /\ Fresh => Covered(run[a].still)

\* The handler alone, while the file is edited: values may be overtaken by those
\* of a later run, which is then about to merge.
Delivered(k, value) == IF queue[k] # None THEN queue[k].value = value ELSE actual[k] = value

KeptAlone ==
  LET r == run["handler"] IN
  noticed =>
    /\ Fresh => \A k \in DOMAIN pending.want : Known(k) =>
         Delivered(k, pending.want[k]) \/ (r.phase = "merge" /\ k \in DOMAIN r.want)
    /\ r.phase = "merge" /\ (Fresh \/ r.now = clock) =>
         \A k \in r.still : Known(k) => Delivered(k, r.want[k])
    /\ r.phase = "decide" /\ r.reset = None => ~Fresh

\* A node that joins adds to the target, and changes nothing of it.
LEMMA TargetGrows ==
  ASSUME TypeOK, [Next]_vars, UNCHANGED file, ~ConfigErrors(file)
  PROVE  /\ \A k \in DOMAIN Target : k[1] \in Ids(there)
         /\ \A k : k[1] \in Ids(there) =>
              /\ k \in DOMAIN Target' <=> k \in DOMAIN Target
              /\ k \in DOMAIN Target => Target'[k] = Target[k]
  <1>1. there \in SUBSET there' /\ there' \in SUBSET Nodes /\ file \in Texts
    BY NodesStay DEF TypeOK
  <1>2. there \in SUBSET Nodes
    BY DEF TypeOK
  <1>3. \A k \in DOMAIN Wanted(PlanOf(file, there)) : k[1] \in Ids(there)
    BY <1>1, <1>2, WantedIsTyped
  <1>4. \A k : /\ k \in DOMAIN Wanted(PlanOf(file, there)) <=>
                    (k \in DOMAIN Wanted(PlanOf(file, there')) /\ k[1] \in Ids(there))
               /\ k \in DOMAIN Wanted(PlanOf(file, there)) =>
                    Wanted(PlanOf(file, there))[k] = Wanted(PlanOf(file, there'))[k]
    BY <1>1, PlanIsStable
  <1>5. Target' = Wanted(PlanOf(file, there')) /\ Target = Wanted(PlanOf(file, there))
    BY DEF Target
  <1> QED BY <1>3, <1>4, <1>5

\* Nobody edits the policy file where zwavectl is used.
LEMMA FileStays ==
  ASSUME TypeOK, [Next]_vars, shared \/ "edit" \notin Env
  PROVE  UNCHANGED file /\ (ConfigErrors(file)' <=> ConfigErrors(file))
  <1>1. UNCHANGED file
    <2>1. CASE Handler \/ Cli
      BY <2>1, HandlerFrame, CliFrame
    <2>2. ASSUME NEW text \in Texts, Edit(text) PROVE FALSE
      BY <2>2 DEF Edit, May
    <2>3. CASE World
      BY <2>2, <2>3 DEF World, Monitor, MonitorSamples, Traffic, Land, DriverStops, DriverStarts, Join,
                        HandEdit, HaRestarts, CalmDown, world
    <2> QED BY <2>1, <2>3 DEF Next, vars, world
  <1> QED BY <1>1

\* As long as zwavectl is busy nobody joins, and the target is what it was.
LEMMA TargetStays ==
  ASSUME TypeOK, [Next]_vars, UNCHANGED file, run["cli"].phase # "idle", "joincli" \notin Env
  PROVE  Target' = Target
  <1>1. UNCHANGED there
    <2>1. CASE Handler \/ Cli
      BY <2>1, HandlerFrame, CliFrame
    <2>2. ASSUME NEW n \in Nodes, Join(n) PROVE FALSE
      BY <2>2 DEF Join, May, Idle
    <2>3. CASE World
      BY <2>2, <2>3 DEF World, Monitor, MonitorSamples, Traffic, Land, DriverStops, DriverStarts, Edit,
                        HandEdit, HaRestarts, CalmDown, world
    <2> QED BY <2>1, <2>3 DEF Next, vars, world
  <1> QED BY <1>1 DEF Target

\* What agrees with the target goes on to.
LEMMA AgreesStays ==
  ASSUME TypeOK, [Next]_vars, UNCHANGED file,
         NEW want, Agrees(want)
  PROVE  /\ ~ConfigErrors(file)'
         /\ \A k \in DOMAIN want : k \in DOMAIN Target' /\ want[k] = Target'[k]
  BY TargetGrows DEF Agrees

\* Without edits, nobody ever wants anything else than the target.
LEMMA OnTargetStep ==
  ASSUME Basics, OnTarget, [Next]_vars, shared \/ "edit" \notin Env, "joincli" \notin Env
  PROVE  OnTarget'
  <1>0. TypeOK /\ UNCHANGED file /\ clock \in Nat
    BY FileStays DEF Basics, TypeOK
  <1>1. ASSUME NEW a \in Actors, Busy(a)'
        PROVE  Agrees(run[a].want)'
    <2>1. CASE Busy(a) /\ run'[a].want = run[a].want
      <3>1. Agrees(run[a].want)
        BY <2>1 DEF OnTarget
      <3> QED BY <1>0, <2>1, <3>1, AgreesStays DEF Agrees
    <2>2. CASE ~ConfigErrors(file) /\ run'[a].want = Target
      <3>1. Agrees(Target)
        BY <2>2 DEF Agrees
      <3> QED BY <1>0, <2>2, <3>1, AgreesStays DEF Agrees
    <2> QED BY <1>0, <1>1, <2>1, <2>2, WantStep
  <1>2. ASSUME pending' # None
        PROVE  Agrees(pending.want)'
    <2>1. CASE UNCHANGED pending
      <3>1. Agrees(pending.want)
        BY <1>2, <2>1 DEF OnTarget
      <3> QED BY <1>0, <2>1, <3>1, AgreesStays DEF Agrees
    <2>2. ASSUME NEW a \in Actors, Merges(a) PROVE Agrees(pending.want)'
      <3> DEFINE r == run[a]
      <3>1. /\ r.still \subseteq DOMAIN r.want
            /\ pending'.want = Merged(Valid(r.reset), r.want, r.still)
        BY <1>0, <1>2, <2>2, FileAfterMerge DEF Merges
      <3>2. Agrees(r.want)
        BY <1>0, <2>2, MonitorTypes DEF OnTarget, Busy, Merges
      <3>3. Agrees(Valid(r.reset))
        BY <3>2, WantsAreFunctions DEF OnTarget, Valid, Agrees
      <3>4. Agrees(pending'.want)
        <4>1. ASSUME NEW k \in DOMAIN pending'.want
              PROVE  k \in DOMAIN Target /\ pending'.want[k] = Target[k]
          <5>1. CASE k \in r.still
            BY <3>1, <3>2, <5>1, MergedFile DEF Agrees
          <5>2. CASE k \notin r.still
            <6>1. k \in DOMAIN Valid(r.reset) \ DOMAIN r.want
              BY <3>1, <4>1, <5>2, MergedFile
            <6> QED BY <3>1, <3>3, <5>2, <6>1, MergedFile DEF Agrees
          <5> QED BY <5>1, <5>2
        <4> QED BY <3>2, <4>1 DEF Agrees
      <3> QED BY <1>0, <3>4, AgreesStays DEF Agrees
    <2> QED BY <1>0, <2>1, <2>2, PendingStep
  <1>3. ASSUME NEW k \in Keys, queue'[k] # None
        PROVE  ~ConfigErrors(file)' /\ k \in DOMAIN Target' /\ queue'[k].value = Target'[k]
    <2>1. ~ConfigErrors(file) /\ k \in DOMAIN Target /\ queue'[k].value = Target[k]
      <3>1. CASE queue[k] # None /\ queue'[k].value = queue[k].value
        BY <3>1 DEF OnTarget
      <3>2. ASSUME NEW a \in Actors, NEW valid, NEW keys, Decides(a, valid, keys),
                   k \in keys, queue'[k].value = run[a].want[k]
            PROVE  ~ConfigErrors(file) /\ k \in DOMAIN Target /\ queue'[k].value = Target[k]
        <4>1. Agrees(run[a].want) /\ k \in DOMAIN run[a].want
          BY <1>0, <3>2, MonitorTypes DEF OnTarget, Busy, Decides, ToIssue
        <4> QED BY <3>2, <4>1 DEF Agrees
      <3> QED BY <1>0, <1>3, <3>1, <3>2, QueueStep
    <2> QED BY <1>0, <2>1, TargetGrows
  <1>4. ASSUME NEW a \in Actors, Looks(a)',
               NEW k \in DOMAIN run'[a].want, run'[a].seen[k] = run'[a].want[k]
        PROVE  actual'[k] = run'[a].want[k]
    <2>1. CASE run'[a].seen = actual /\ UNCHANGED actual
      BY <1>4, <2>1
    <2>2. CASE Looks(a) /\ run'[a].want = run[a].want /\ run'[a].seen = run[a].seen
      <3>1. actual[k] = run[a].want[k] /\ run[a].want[k] = Target[k]
        BY <1>4, <2>2 DEF OnTarget, Converged, Busy, Looks, Agrees
      <3>2. k \in Keys
        BY <1>0, <1>4, <2>2, HandlerTypes, CliTypes, WantsAreFunctions DEF Actors, Looks
      <3>3. ~HandEdit(k)
        BY <2>2 DEF HandEdit, Looks
      <3>4. queue[k] # None => queue[k].value = Target[k]
        BY <3>2 DEF OnTarget
      <3> QED BY <1>0, <2>2, <3>1, <3>2, <3>3, <3>4, ActualStep
    <2> QED BY <1>0, <1>4, <2>1, <2>2, SeenStep
  <1>5. ASSUME Busy("cli")'
        PROVE  run'["cli"].want = Target'
    <2>1. CASE Busy("cli") /\ run'["cli"].want = run["cli"].want
      BY <1>0, <2>1, TargetStays DEF OnTarget, Busy
    <2>2. CASE run["cli"].phase \in {"idle", "load"} /\ run'["cli"].want = Target
      <3>1. UNCHANGED <<file, there>>
        <4>1. CASE Handler \/ Cli
          BY <1>0, <4>1, HandlerFrame, CliFrame
        <4>2. CASE World
          BY <1>0, <1>5, <2>2, <4>2, WorldFrame DEF Busy, Overtaken, Actors
        <4> QED BY <4>1, <4>2 DEF Next, vars, world
      <3> QED BY <2>2, <3>1 DEF Target
    <2> QED BY <1>0, <1>5, <2>1, <2>2, WantStep DEF Actors
  <1>6. ASSUME run'["cli"].phase \in {"decide", "merge"}, Busy("handler")',
               run'["cli"].now < run'["handler"].now
        PROVE  run'["handler"].want = Target'
    <2>1. ASSUME run["cli"].phase \in {"decide", "merge"}, Busy("handler"),
                 run["cli"].now < run["handler"].now,
                 run'["handler"].want = run["handler"].want
          PROVE  run'["handler"].want = Target'
      BY <1>0, <2>1, TargetStays DEF OnTarget
    <2>2. CASE Handler
      <3>0. run'["cli"] = run["cli"]
        BY <1>0, <2>2, HandlerFrame
      <3>1. CASE Load
        <4>1. run'["handler"].want = Target
          BY <1>0, <1>6, <3>1, AfterLoad DEF Busy
        <4> QED BY <1>0, <1>6, <3>0, <4>1, TargetStays
      <3>2. CASE SampleSession \/ ReadSession \/ Decide
        BY <1>0, <1>6, <2>1, <3>0, <3>2, AfterSampleSession, AfterReadSession, AfterDecide
        DEF Busy
      <3> QED BY <1>0, <1>6, <2>2, <3>1, <3>2, AfterBegin, AfterMerge, AfterReport
                 DEF Handler, Busy
    <2>3. CASE Cli
      <3>0. run'["handler"] = run["handler"]
        BY <1>0, <2>3, CliFrame
      <3>1. CASE CliSession
        <4>1. run'["cli"].now = clock' /\ clock <= clock'
          BY <1>0, <3>1, AfterCliSession
        <4>2. run["handler"].now \in 0..clock
          BY <1>0, <1>6, <3>0, HandlerTypes DEF Busy
        <4>3. clock' \in Nat
          BY <1>0, <3>1, AfterCliSession
        <4> QED BY <1>0, <1>6, <3>0, <4>1, <4>2, <4>3
      <3>2. CASE CliDecides
        BY <1>0, <1>6, <2>1, <3>0, <3>2, CliDecideDecides DEF Decides, Busy
      <3>3. CASE CliMerge \/ CliKilled
        BY <1>0, <1>6, <3>3, EnterRun DEF CliMerge, CliKilled, Idle, Actors
      <3> QED BY <1>0, <1>6, <2>3, <3>1, <3>2, <3>3, AfterCliBegin DEF Cli, CliDecides
    <2>4. CASE World
      <3>1. run'["cli"] = run["cli"]
        BY <1>0, <1>6, <2>4, WorldFrame DEF Overtaken, Actors
      <3>2. \/ run'["handler"] = run["handler"]
            \/ Overtaken("handler")
        <4>1. HaRestarts => run'["handler"].phase = "idle"
          BY <1>0, EnterRun DEF HaRestarts, Idle, Actors
        <4> QED BY <1>0, <1>6, <2>4, <4>1, WorldFrame DEF Busy
      <3> QED BY <1>6, <2>1, <3>1, <3>2 DEF Busy, Overtaken
    <2>5. CASE UNCHANGED vars
      BY <1>6, <2>1, <2>5 DEF vars, Busy
    <2> QED BY <2>2, <2>3, <2>4, <2>5 DEF Next
  <1> QED BY <1>1, <1>2, <1>3, <1>4, <1>5, <1>6 DEF OnTarget, Converged


\* What is done stays done until a restart.
LEMMA DoneStays ==
  ASSUME Basics, OnTarget, [Next]_vars, shared \/ "edit" \notin Env,
         noticed', ~ConfigErrors(file), NEW k \in Keys, k \in DOMAIN Target,
         Done(k), ~HandEdit(k)
  PROVE  Done(k)'
  <1>0. TypeOK /\ UNCHANGED file
    BY FileStays DEF Basics
  <1>1. Target'[k] = Target[k]
    BY <1>0, TargetGrows
  <1>2. CASE queue[k] # None
    <2>1. queue[k].value = Target[k]
      BY <1>2 DEF OnTarget
    <2>2. Land(k) => actual'[k] = queue[k].value
      BY <1>0 DEF Land, TypeOK
    <2>3. ~DriverStops
      BY DEF DriverStops
    <2> QED BY <1>0, <1>1, <1>2, <2>1, <2>2, <2>3, QueueKeeps DEF Done
  <1>3. CASE queue[k] = None
    BY <1>0, <1>1, <1>3, ActualStep DEF Done
  <1> QED BY <1>2, <1>3

\* When a run has decided, everything it wants is done, unless the driver has
\* restarted since it began and so has the file.
LEMMA DecisionCovers ==
  ASSUME Basics, OnTarget, Kept, [Next]_vars, shared \/ "edit" \notin Env, noticed,
         NEW a \in Actors, NEW valid, NEW keys, Decides(a, valid, keys),
         run'[a].phase = "merge", Fresh \/ run[a].now = clock,
         NEW k \in DOMAIN run[a].want, Known(k)
  PROVE  Done(k)'
  <1> DEFINE r == run[a]
  <1>0. /\ TypeOK /\ UNCHANGED <<file, actual, clock>> /\ noticed'
        /\ r.phase = "decide" /\ r.reset # None
    BY FileStays DEF Basics, Decides
  <1>8. a # "monitor"
    BY <1>0, MonitorTypes
  <1>1. r.now \in 0..clock /\ r.reset \in 0..clock /\ clock \in Nat /\ r.now <= r.reset
    BY <1>0, <1>8, HandlerTypes, CliTypes DEF Actors, Basics, Times, TypeOK
  <1>2. r.want \in Wants /\ k \in Keys
    BY <1>0, <1>8, HandlerTypes, CliTypes, WantsAreFunctions DEF Actors
  <1>3. ~ConfigErrors(file) /\ k \in DOMAIN Target /\ r.want[k] = Target[k]
    BY <1>0, <1>8 DEF OnTarget, Busy, Agrees
  <1>4. Target'[k] = Target[k]
    BY <1>0, <1>3, TargetGrows
  <1>5. CASE Converged(k, r.want, r.seen)
    BY <1>0, <1>3, <1>4, <1>5, <1>8 DEF OnTarget, Looks, Done
  <1>6. CASE ~Converged(k, r.want, r.seen) /\ k \in DOMAIN valid /\ valid[k] = r.want[k]
    <2>1. pending # None /\ ~(pending.issued < r.reset) /\ k \in DOMAIN pending.want
      BY <1>6, WantsAreFunctions DEF Decides, Valid
    <2>2. Fresh
      BY <1>0, <1>1, <2>1 DEF Fresh, TypeOK, Files
    <2>3. Done(k)
      BY <2>1, <2>2 DEF Kept, Covered
    <2>4. ~HandEdit(k)
      BY <1>0 DEF HandEdit
    <2> QED BY <1>0, <1>2, <1>3, <2>3, <2>4, DoneStays
  <1>7. CASE ~Converged(k, r.want, r.seen) /\ ~(k \in DOMAIN valid /\ valid[k] = r.want[k])
    <2>1. /\ k \in keys /\ keys \in SUBSET DOMAIN r.want
          /\ \E began \in Nat \cup {None} : Issue(keys, r.want, began)
      BY <1>7 DEF Decides, ToIssue
    <2>2. driver.up
      BY DEF Basics, Counters
    <2> QED BY <1>0, <1>2, <2>1, <2>2, QueueAfterIssue DEF Done
  <1> QED BY <1>5, <1>6, <1>7

\* So what is listed stays done: a second writer repeats it at worst.
LEMMA KeptStep ==
  ASSUME Basics, OnTarget, Kept, [Next]_vars, shared \/ "edit" \notin Env,
         "joincli" \notin Env
  PROVE  Kept'
  <1>0. TypeOK /\ TypeOK' /\ clock \in Nat /\ UNCHANGED file
    BY TypeStep, FileStays DEF Basics, TypeOK
  <1>1. CASE clock' # clock
    <2>1. clock' = clock + 1 /\ UNCHANGED pending
      BY <1>1, ClockStep
    <2>2. ~Fresh'
      BY <1>0, <2>1 DEF Fresh, TypeOK, Files
    <2>3. ASSUME NEW a \in Actors, run'[a].phase = "merge"
          PROVE  run'[a].now # clock'
      <3>1. run'[a] = run[a]
        BY <1>0, <2>1, <2>3, MergeStep DEF Decides
      <3>2. run[a].now \in 0..clock
        BY <1>0, <2>3, <3>1, HandlerTypes, CliTypes, MonitorTypes DEF Actors
      <3> QED BY <1>0, <2>1, <3>1, <3>2
    <2> QED BY <2>2, <2>3 DEF Kept
  <1>2. CASE clock' = clock /\ noticed'
    <2>1. noticed
      BY <1>0, <1>2, ClockStep
    \* Whatever is done of what anybody wants or lists.
    <2>2. ASSUME NEW k, k[1] \in Ids(there), Known(k)' PROVE Known(k)
      BY <1>0, <2>2, NodesStay
    <2>3. ASSUME pending # None, Fresh, NEW k \in DOMAIN pending.want, Known(k)'
          PROVE  Done(k) /\ Done(k)'
      <3>1. Known(k) /\ k \in Keys
        BY <1>0, <2>2, <2>3, WantsAreFunctions DEF Basics, Grounded, Placed, TypeOK, Files
      <3>2. Done(k)
        BY <2>1, <2>3, <3>1 DEF Kept, Covered
      <3>3. Agrees(pending.want)
        BY <2>3 DEF OnTarget
      <3>4. ~HandEdit(k)
        BY <2>3 DEF HandEdit, Commands
      <3> QED BY <1>2, <2>3, <3>1, <3>2, <3>3, <3>4, DoneStays DEF Agrees
    <2>4. ASSUME NEW a \in Actors, run[a].phase = "merge", NEW k \in DOMAIN run[a].want, Known(k)'
          PROVE  /\ Known(k) /\ k \in DOMAIN Target
                 /\ Done(k) => Done(k)'
      <3>1. Known(k) /\ k \in Keys
        BY <1>0, <2>2, <2>4, HandlerTypes, CliTypes, MonitorTypes, WantsAreFunctions
        DEF Basics, Grounded, Placed, Busy, Actors
      <3>2. Agrees(run[a].want)
        BY <1>0, <2>4, MonitorTypes DEF OnTarget, Busy
      <3>3. ~HandEdit(k)
        BY <2>4 DEF HandEdit
      <3> QED BY <1>2, <2>4, <3>1, <3>2, <3>3, DoneStays DEF Agrees
    <2>5. ASSUME NEW a \in Actors, run'[a].phase = "merge", run'[a].now = clock',
                 NEW k \in DOMAIN run'[a].want, Known(k)'
          PROVE  Done(k)'
      <3>1. CASE run'[a] = run[a]
        BY <1>2, <2>1, <2>4, <2>5, <3>1 DEF Kept, Covered
      <3>2. ASSUME NEW valid, NEW keys, Decides(a, valid, keys) PROVE Done(k)'
        <4>1. /\ run'[a].want = run[a].want /\ run'[a].now = run[a].now /\ UNCHANGED there
          BY <2>5, <3>2 DEF Decides
        <4>2. Known(k)
          BY <2>5, <4>1 DEF Known
        <4> QED BY <1>2, <2>1, <2>5, <3>2, <4>1, <4>2, DecisionCovers
      <3> QED BY <1>0, <2>5, <3>1, <3>2, MergeStep
    \* Who merges leaves in a file of this session what it listed and issued.
    <2>6. ASSUME NEW b \in Actors, Merges(b), Fresh'
          PROVE  /\ \A k \in DOMAIN pending'.want :
                      (Fresh /\ k \in DOMAIN pending.want) \/ k \in run[b].still
                 /\ run[b].still \subseteq DOMAIN run[b].want
                 /\ ~Fresh => run[b].now = clock
      <3>1. /\ run[b].still \subseteq DOMAIN run[b].want
            /\ run[b].now \in 0..clock /\ run[b].reset \in 0..clock
            /\ pending'.want = Merged(Valid(run[b].reset), run[b].want, run[b].still)
            /\ IF pending # None /\ pending.issued >= run[b].reset
               THEN pending'.issued = pending.issued ELSE pending'.issued = run[b].now
        BY <1>0, <2>6, FileAfterMerge DEF Fresh, Merges
      <3>2. \A k \in DOMAIN pending'.want :
              k \in DOMAIN Valid(run[b].reset) \/ k \in run[b].still
        BY <3>1, MergedFile
      <3>3. CASE pending # None /\ pending.issued >= run[b].reset
        BY <1>2, <2>6, <3>1, <3>2, <3>3, WantsAreFunctions DEF Fresh, Valid
      <3>4. CASE ~(pending # None /\ pending.issued >= run[b].reset)
        <4>1. Valid(run[b].reset) = NoCommands
          BY <1>0, <3>1, <3>4 DEF Valid, TypeOK, Files
        <4> QED BY <1>2, <2>6, <3>1, <3>2, <3>4, <4>1, WantsAreFunctions DEF Fresh
      <3> QED BY <3>3, <3>4
    <2>7. ASSUME NEW a \in Actors, run'[a].phase = "merge", Fresh',
                 NEW k \in run'[a].still, Known(k)'
          PROVE  Done(k)'
      <3>0. k \in DOMAIN run'[a].want
        BY <1>0, <2>7 DEF TypeOK
      <3>1. CASE UNCHANGED pending /\ run'[a] = run[a]
        <4>1. Fresh
          BY <1>2, <2>7, <3>1 DEF Fresh
        <4> QED BY <2>1, <2>4, <2>7, <3>0, <3>1, <4>1 DEF Kept, Covered
      <3>2. ASSUME UNCHANGED pending, NEW valid, NEW keys, Decides(a, valid, keys)
            PROVE  Done(k)'
        <4>1. Fresh
          BY <1>2, <2>7, <3>2 DEF Fresh
        <4>2. run'[a].want = run[a].want /\ UNCHANGED there
          BY <2>7, <3>2 DEF Decides
        <4>3. Known(k)
          BY <2>7, <4>2 DEF Known
        <4> QED BY <2>1, <2>7, <3>0, <3>2, <4>1, <4>2, <4>3, DecisionCovers
      <3>3. ASSUME NEW b \in Actors, Merges(b) PROVE Done(k)'
        <4>1. b # a /\ run'[a] = run[a] /\ run[b].phase = "merge"
          BY <2>7, <3>3 DEF Merges
        <4>2. Known(k) /\ k \in DOMAIN Target
          BY <2>4, <2>7, <3>0, <4>1
        <4>3. CASE Fresh
          BY <2>1, <2>4, <2>7, <3>0, <4>1, <4>2, <4>3 DEF Kept, Covered
        <4>4. CASE ~Fresh
          <5>1. run[b].now = clock
            BY <2>6, <2>7, <3>3, <4>4
          <5>2. CASE run[a].now = clock
            BY <2>1, <2>4, <2>7, <3>0, <4>1, <4>2, <5>2 DEF Kept, Covered
          <5>3. CASE run[a].now # clock
            <6>1. run[a].now \in 0..clock /\ a # "monitor" /\ b # "monitor"
              BY <1>0, <2>7, <4>1, HandlerTypes, CliTypes, MonitorTypes DEF Actors
            <6>2. run[b].want = Target
              <7>1. CASE b = "cli"
                BY <4>1, <7>1 DEF OnTarget, Busy
              <7>2. CASE b = "handler"
                <8>1. a = "cli" /\ run["cli"].now < run["handler"].now
                  BY <1>0, <4>1, <5>1, <5>3, <6>1, <7>2 DEF Actors
                <8> QED BY <2>7, <4>1, <7>2, <8>1 DEF OnTarget, Busy
              <7> QED BY <6>1, <7>1, <7>2 DEF Actors
            <6>3. Done(k)
              BY <2>1, <4>1, <4>2, <5>1, <6>2 DEF Kept, Covered
            <6> QED BY <2>4, <2>7, <3>0, <4>1, <6>3
          <5> QED BY <5>2, <5>3
        <4> QED BY <4>3, <4>4
      <3>4. CASE UNCHANGED pending
        BY <1>0, <2>7, <3>1, <3>2, <3>4, MergeStep
      <3> QED BY <1>0, <3>3, <3>4, PendingStep
    <2>8. ASSUME Fresh', NEW k \in DOMAIN pending'.want, Known(k)'
          PROVE  Done(k)'
      <3>1. CASE UNCHANGED pending
        <4>1. Fresh
          BY <1>2, <2>8, <3>1 DEF Fresh
        <4> QED BY <2>3, <2>8, <3>1, <4>1 DEF Fresh
      <3>2. ASSUME NEW b \in Actors, Merges(b) PROVE Done(k)'
        <4>1. CASE Fresh /\ k \in DOMAIN pending.want
          BY <2>3, <2>8, <4>1 DEF Fresh
        <4>2. CASE k \in run[b].still
          <5>1. k \in DOMAIN run[b].want /\ run[b].phase = "merge" /\ (Fresh \/ run[b].now = clock)
            BY <2>6, <2>8, <3>2, <4>2 DEF Merges
          <5>2. Known(k)
            BY <2>4, <2>8, <5>1
          <5>3. Done(k)
            BY <2>1, <4>2, <5>1, <5>2 DEF Kept, Covered
          <5> QED BY <2>4, <2>8, <5>1, <5>3
        <4> QED BY <2>6, <2>8, <3>2, <4>1, <4>2
      <3> QED BY <1>0, <3>1, <3>2, PendingStep
    <2> QED BY <2>5, <2>7, <2>8 DEF Kept, Covered
  <1> QED BY <1>1, <1>2 DEF Kept


\* Where nobody uses zwavectl, nobody does.
LEMMA Alone ==
  ASSUME Basics, ~shared
  PROVE  /\ ~Cli /\ ~CliDecides /\ run["cli"] = Idle
         /\ \A a \in Actors : Merges(a) => a = "handler"
         /\ \A a \in Actors : \A valid, keys : Decides(a, valid, keys) => a = "handler"
  <1>1. run["cli"].phase = "idle" /\ run["cli"] = Idle
    BY DEF Basics, Counters, Idle
  <1>2. ~Cli /\ ~CliDecides
    BY <1>1 DEF Cli, CliDecides, CliBegin, CliSession, Fold, CliDecide, CliMerge, CliKilled
  <1>3. run["monitor"].phase \in {"idle", "fold"}
    BY MonitorTypes DEF Basics
  <1> QED BY <1>1, <1>2, <1>3 DEF Merges, Decides, Actors

DeliveredThen(k, value) ==
  IF queue'[k] # None THEN queue'[k].value = value ELSE actual'[k] = value

\* What is delivered stays so until a restart, or a decision to the contrary.
LEMMA DeliveredStays ==
  ASSUME Basics, ~shared, [Next]_vars, noticed', NEW k \in Keys, NEW value,
         Delivered(k, value), ~HandEdit(k),
         Decide => k \notin DOMAIN run["handler"].want
  PROVE  DeliveredThen(k, value)
  <1>0. TypeOK
    BY DEF Basics
  <1>1. CASE queue'[k] # None
    <2>1. ASSUME NEW a \in Actors, NEW valid, NEW keys, Decides(a, valid, keys)
          PROVE  a = "handler" /\ keys \subseteq DOMAIN run["handler"].want
      <3>1. a = "handler"
        BY <2>1, Alone
      <3> QED BY <2>1, <3>1 DEF Decides, ToIssue
    <2>2. queue[k] # None /\ queue'[k].value = queue[k].value
      BY <1>0, <1>1, <2>1, QueueStep
    <2> QED BY <1>1, <2>2 DEF Delivered, DeliveredThen
  <1>2. CASE queue'[k] = None
    <2>1. ~DriverStops
      BY DEF DriverStops
    <2>2. CASE queue[k] # None
      <3>1. Land(k)
        BY <1>0, <1>2, <2>1, <2>2, QueueKeeps
      <3>2. actual'[k] = queue[k].value
        BY <1>0, <3>1 DEF Land, TypeOK
      <3> QED BY <1>2, <2>2, <3>2 DEF Delivered, DeliveredThen
    <2>3. CASE queue[k] = None
      BY <1>0, <1>2, <2>3, ActualStep DEF Delivered, DeliveredThen
    <2> QED BY <2>2, <2>3
  <1> QED BY <1>1, <1>2

\* What the handler decides is delivered, unless the driver has restarted.
LEMMA DecisionDelivers ==
  ASSUME Basics, KeptAlone, noticed, ~shared, Decide, run["handler"].reset # None,
         Fresh \/ run["handler"].now = clock,
         NEW k \in run'["handler"].still, Known(k)
  PROVE  DeliveredThen(k, run["handler"].want[k])
  <1> DEFINE r     == run["handler"]
             valid == Valid(r.reset)
             keys  == ToIssue(r.want, r.seen, valid)
             began == IF shared \/ memory.edited THEN None ELSE r.now
  <1>0. /\ TypeOK /\ r.phase = "decide" /\ Issue(keys, r.want, began)
        /\ run'["handler"].still = StillWanted(r.want, r.seen, valid)
        /\ UNCHANGED <<actual, clock, pending>>
    BY AfterDecide, HandlerFrame DEF Basics, Handler
  <1>1. r.now \in 0..clock /\ r.reset \in 0..clock /\ clock \in Nat /\ r.now <= r.reset
    BY <1>0, HandlerTypes DEF Actors, Basics, Times, TypeOK
  <1>2. r.want \in Wants /\ k \in Keys /\ k \in DOMAIN r.want /\ ~Converged(k, r.want, r.seen)
    BY <1>0, HandlerTypes, WantsAreFunctions DEF StillWanted
  <1>3. driver.up /\ keys \in SUBSET DOMAIN r.want /\ began \in Nat \cup {None}
    BY <1>1 DEF Basics, Counters, ToIssue
  <1>4. CASE k \in keys
    <2> HIDE DEF keys, r, began
    <2>1. queue'[k] # None /\ queue'[k].value = r.want[k]
      BY <1>0, <1>2, <1>3, <1>4, QueueAfterIssue
    <2> QED BY <2>1 DEF DeliveredThen, r
  <1>5. CASE k \notin keys
    <2>1. k \in DOMAIN valid /\ valid[k] = r.want[k]
      BY <1>2, <1>5 DEF ToIssue
    <2>2. pending # None /\ ~(pending.issued < r.reset) /\ k \in DOMAIN pending.want
          /\ pending.want[k] = r.want[k]
      BY <2>1, WantsAreFunctions DEF Valid
    <2>3. Fresh
      BY <1>0, <1>1, <2>2 DEF Fresh, TypeOK, Files
    <2>4. Delivered(k, r.want[k])
      BY <1>0, <2>2, <2>3 DEF KeptAlone
    <2>5. queue'[k] = queue[k]
      <3> HIDE DEF keys, r, began
      <3> QED BY <1>0, <1>2, <1>3, <1>5, QueueAfterIssue
    <2> QED BY <1>0, <2>4, <2>5 DEF Delivered, DeliveredThen
  <1> QED BY <1>4, <1>5

\* The handler alone: a merge lists what the same reconcile has just issued.
LEMMA KeptAloneStep ==
  ASSUME Basics, KeptAlone, [Next]_vars, ~shared, "cut" \notin Env
  PROVE  KeptAlone'
  <1> DEFINE r == run["handler"]
             s == run'["handler"]
  <1>0. TypeOK /\ TypeOK' /\ clock \in Nat /\ ~Cli /\ "handler" \in Actors
    BY TypeStep, Alone DEF Basics, TypeOK, Actors
  <1>1. CASE clock' # clock
    <2>1. clock' = clock + 1 /\ UNCHANGED pending
      BY <1>0, <1>1, ClockStep
    <2>2. ~Fresh'
      BY <1>0, <2>1 DEF Fresh, TypeOK, Files
    <2>3. ASSUME s.phase = "merge"
          PROVE  s.now # clock'
      <3>1. s = r
        BY <1>0, <2>1, <2>3, MergeStep DEF Decides
      <3>2. r.now \in 0..clock
        BY <1>0, <2>3, <3>1, HandlerTypes
      <3> QED BY <1>0, <2>1, <3>1, <3>2
    <2> QED BY <2>2, <2>3 DEF KeptAlone
  <1>2. CASE clock' = clock /\ noticed'
    <2>1. noticed /\ driver.up
      BY <1>0, <1>2, ClockStep DEF Basics, Counters
    <2>2. ASSUME NEW k, k[1] \in Ids(there), Known(k)' PROVE Known(k)
      BY <1>0, <2>2, NodesStay
    <2>3. ASSUME Fresh, NEW k \in DOMAIN pending.want, Known(k)'
          PROVE  k \in Keys /\ Known(k) /\ ~HandEdit(k)
      <3>1. k \in Keys /\ k[1] \in Ids(there)
        BY <1>0, <2>3, WantsAreFunctions DEF Basics, Grounded, Placed, TypeOK, Files, Fresh
      <3> QED BY <2>2, <2>3, <3>1 DEF HandEdit, Commands, Fresh
    <2>4. ASSUME r.phase \in {"decide", "merge"}, NEW k \in DOMAIN r.want, Known(k)'
          PROVE  k \in Keys /\ Known(k) /\ ~HandEdit(k)
      <3>1. k \in Keys /\ k[1] \in Ids(there)
        BY <1>0, <2>4, HandlerTypes, WantsAreFunctions DEF Basics, Grounded, Placed, Busy
      <3> QED BY <1>0, <2>2, <2>4, <3>1 DEF HandEdit
    \* Everything but the handler's own merge leaves it at the merge.
    <2>5. r.phase = "merge" => s = r \/ (Merge /\ s.phase = "report")
      <3>1. HaRestarts => r.phase # "merge"
        BY DEF HaRestarts, May
      <3>2. CASE Handler
        BY <1>0, <3>2, AfterBegin, AfterLoad, AfterSampleSession, AfterReadSession, AfterDecide, AfterMerge,
           AfterReport DEF Handler
      <3>3. CASE World
        BY <1>0, <3>1, <3>3, WorldFrame DEF Overtaken
      <3> QED BY <1>0, <3>2, <3>3 DEF Next, vars
    <2>6. ~Merge => UNCHANGED pending
      BY <1>0, HandlerFrame, WorldFrame DEF Next, vars
    <2>7. s.phase = "merge" => ~Merge /\ (s = r \/ (Decide /\ r.reset # None))
      <3>1. CASE Handler
        BY <1>0, <3>1, AfterBegin, AfterLoad, AfterSampleSession, AfterReadSession, AfterDecide, AfterMerge,
           AfterReport DEF Handler
      <3>2. CASE ~Handler
        <4>1. ~HaRestarts \/ s.phase = "idle"
          BY <1>0, EnterRun DEF HaRestarts, Idle
        <4> QED BY <1>0, <3>2, <4>1, WorldFrame DEF Next, vars, Handler, Overtaken
      <3> QED BY <3>1, <3>2
    \* What the file of this session lists.
    <2>8. ASSUME Fresh', NEW k \in DOMAIN pending'.want, Known(k)', ~Merge
          PROVE  \/ DeliveredThen(k, pending'.want[k])
                 \/ s.phase = "merge" /\ k \in DOMAIN s.want
      <3>1. Fresh /\ UNCHANGED pending /\ k \in DOMAIN pending.want
        BY <1>2, <2>6, <2>8 DEF Fresh
      <3>2. k \in Keys /\ Known(k) /\ ~HandEdit(k)
        BY <2>3, <2>8, <3>1
      <3>3. CASE r.phase = "merge" /\ k \in DOMAIN r.want
        BY <2>5, <2>8, <3>3
      <3>4. CASE ~(r.phase = "merge" /\ k \in DOMAIN r.want)
        <4>1. Delivered(k, pending.want[k])
          BY <2>1, <3>1, <3>2, <3>4 DEF KeptAlone
        <4>2. CASE Decide /\ k \in DOMAIN r.want
          <5>1. r.reset # None
            BY <1>0, <2>1, <3>1, <4>2, AfterDecide DEF KeptAlone
          <5> QED BY <1>0, <4>2, <5>1, AfterDecide
        <4>3. CASE ~(Decide /\ k \in DOMAIN r.want)
          BY <1>2, <3>1, <3>2, <4>1, <4>3, DeliveredStays
        <4> QED BY <4>2, <4>3
      <3> QED BY <3>3, <3>4
    <2>9. ASSUME Fresh', NEW k \in DOMAIN pending'.want, Known(k)', Merge
          PROVE  DeliveredThen(k, pending'.want[k])
      <3>0. /\ r.phase = "merge" /\ MergePending("handler") /\ ~Decide
            /\ UNCHANGED <<queue, actual>>
        BY <1>0, <2>9, AfterMerge, AfterDecide, HandlerFrame DEF Handler
      <3>1. /\ r.still \subseteq DOMAIN r.want
            /\ r.now \in 0..clock /\ r.reset \in 0..clock
            /\ pending'.want = Merged(Valid(r.reset), r.want, r.still)
            /\ IF pending # None /\ pending.issued >= r.reset
               THEN pending'.issued = pending.issued ELSE pending'.issued = r.now
        BY <1>0, <2>9, <3>0, FileAfterMerge DEF Fresh
      <3>2. CASE k \in r.still
        <4>1. Fresh \/ r.now = clock
          BY <1>2, <2>9, <3>1 DEF Fresh
        <4>2. Known(k)
          BY <2>4, <2>9, <3>0, <3>1, <3>2
        <4>3. Delivered(k, r.want[k])
          BY <2>1, <3>0, <3>2, <4>1, <4>2 DEF KeptAlone
        <4>4. pending'.want[k] = r.want[k]
          BY <3>1, <3>2, MergedFile
        <4> QED BY <3>0, <4>3, <4>4 DEF Delivered, DeliveredThen
      <3>3. CASE k \notin r.still
        <4>1. k \in DOMAIN Valid(r.reset) \ DOMAIN r.want
          BY <2>9, <3>1, <3>3, MergedFile
        <4>2. pending # None /\ pending.issued >= r.reset /\ Valid(r.reset) = pending.want
          BY <1>0, <3>1, <4>1, WantsAreFunctions DEF Valid, TypeOK, Files
        <4>3. Fresh
          BY <1>2, <2>9, <3>1, <4>2 DEF Fresh
        <4>4. Delivered(k, pending.want[k])
          BY <2>1, <2>3, <2>9, <4>1, <4>2, <4>3 DEF KeptAlone
        <4>5. pending'.want[k] = pending.want[k]
          BY <3>1, <3>3, <4>1, <4>2, MergedFile
        <4> QED BY <3>0, <4>4, <4>5 DEF Delivered, DeliveredThen
      <3> QED BY <3>2, <3>3
    <2>10. ASSUME s.phase = "merge", Fresh' \/ s.now = clock', NEW k \in s.still, Known(k)'
           PROVE  DeliveredThen(k, s.want[k])
      <3>1. UNCHANGED pending /\ (Fresh' <=> Fresh)
        BY <1>2, <2>6, <2>7, <2>10 DEF Fresh
      <3>2. CASE s = r
        <4>1. k \in DOMAIN r.want
          BY <1>0, <2>10, <3>2 DEF TypeOK
        <4>2. k \in Keys /\ Known(k) /\ ~HandEdit(k)
          BY <2>4, <2>10, <3>2, <4>1
        <4>3. Delivered(k, r.want[k])
          BY <1>2, <2>1, <2>10, <3>1, <3>2, <4>2 DEF KeptAlone
        <4>4. ~Decide
          BY <1>0, <2>10, <3>2, AfterDecide
        <4> QED BY <1>2, <3>2, <4>2, <4>3, <4>4, DeliveredStays
      <3>3. CASE Decide /\ r.reset # None
        <4>1. s.want = r.want /\ s.now = r.now /\ r.phase = "decide"
          BY <1>0, <3>3, AfterDecide
        <4>2. k \in DOMAIN r.want
          BY <1>0, <2>10, <4>1 DEF TypeOK
        <4>3. Known(k)
          BY <2>4, <2>10, <4>1, <4>2
        <4> QED BY <1>2, <2>1, <2>10, <3>1, <3>3, <4>1, <4>3, DecisionDelivers
      <3> QED BY <2>7, <2>10, <3>2, <3>3
    <2>11. ASSUME s.phase = "decide", s.reset = None
           PROVE  ~Fresh'
      <3>1. CASE ReadSession \/ SampleSession
        BY <1>0, <2>1, <2>11, <3>1, AfterReadSession, AfterSampleSession, ManagerAssumption
      <3>2. CASE ~ReadSession /\ ~SampleSession
        <4>1. s = r
          <5>1. CASE Handler
            BY <1>0, <2>11, <3>2, <5>1, AfterBegin, AfterLoad, AfterDecide, AfterMerge,
               AfterReport DEF Handler
          <5>2. CASE ~Handler
            <6>1. ~HaRestarts \/ s.phase = "idle"
              BY <1>0, EnterRun DEF HaRestarts, Idle
            <6> QED BY <1>0, <2>11, <5>2, <6>1, WorldFrame DEF Next, vars, Overtaken
          <5> QED BY <5>1, <5>2
        <4>2. ~Merge
          BY <1>0, <2>11, AfterMerge
        <4> QED BY <1>2, <2>1, <2>6, <2>11, <4>1, <4>2 DEF KeptAlone, Fresh
      <3> QED BY <3>1, <3>2
    <2>12. \A k, v : DeliveredThen(k, v) <=>
                       IF queue'[k] # None THEN queue'[k].value = v ELSE actual'[k] = v
      BY DEF DeliveredThen
    <2> QED BY <2>8, <2>9, <2>10, <2>11, <2>12 DEF KeptAlone, Delivered
  <1> QED BY <1>1, <1>2 DEF KeptAlone

\* Nobody edits the file, or the handler is alone and not cut off half-way.
Promised ==
  /\ shared \/ "edit" \notin Env => OnTarget /\ Kept
  /\ ~shared /\ "cut" \notin Env => KeptAlone

\* Nothing is listed at first.
LEMMA KeptInit == Init => OnTarget /\ Kept /\ KeptAlone
  <1> SUFFICES ASSUME Init PROVE OnTarget /\ Kept /\ KeptAlone
    OBVIOUS
  <1>1. /\ pending = None /\ ~Fresh /\ \A k \in Keys : queue[k] = None
        /\ \A a \in Actors : run[a].phase = "idle"
    BY DEF Init, Idle, Fresh
  <1> QED BY <1>1 DEF OnTarget, Kept, KeptAlone, Busy, Looks, Actors

\* Nobody starts to use zwavectl.
LEMMA ConstantsStay == TypeOK /\ [Next]_vars => UNCHANGED shared
  BY HandlerFrame, CliFrame, WorldFrame DEF Next, vars, world

\* Whichever of the two holds, what the file lists is delivered or on its way.
LEMMA KeptIsQueued == Basics /\ OnTarget /\ Kept => PendingIsQueued
  <1> SUFFICES ASSUME Basics, OnTarget, Kept, pending # None,
                      pending.issued >= session.reset, noticed,
                      NEW k \in DOMAIN pending.want, Known(k)
               PROVE  \/ actual[k] = pending.want[k]
                      \/ queue[k] # None /\ queue[k].value = pending.want[k]
    BY DEF PendingIsQueued
  <1>1. /\ pending \in Files /\ session.reset = clock /\ clock \in Nat
        /\ pending.issued <= clock
    BY DEF Basics, TypeOK
  <1>2. pending.issued \in Nat /\ pending.want \in Wants
    BY <1>1 DEF Files
  <1>3. Fresh
    BY <1>1, <1>2 DEF Fresh
  <1>4. k \in Keys
    BY <1>2, WantsAreFunctions
  <1>5. Done(k)
    BY <1>3 DEF Kept, Covered
  <1>6. pending.want[k] = Target[k]
    BY DEF OnTarget, Agrees
  <1> QED BY <1>4, <1>5, <1>6 DEF OnTarget, Done

\* And alone, but for the merge that is about to replace the list.
LEMMA KeptAloneIsQueued == Basics /\ KeptAlone => PendingIsQueued
  <1> SUFFICES ASSUME Basics, KeptAlone, pending # None,
                      pending.issued >= session.reset, noticed,
                      NEW k \in DOMAIN pending.want, Known(k)
               PROVE  \/ actual[k] = pending.want[k]
                      \/ queue[k] # None /\ queue[k].value = pending.want[k]
                      \/ \E a \in Actors : run[a].phase = "merge" /\ k \in DOMAIN run[a].want
    BY DEF PendingIsQueued
  <1>1. /\ pending \in Files /\ session.reset = clock /\ clock \in Nat
        /\ pending.issued <= clock
    BY DEF Basics, TypeOK
  <1>2. pending.issued \in Nat
    BY <1>1 DEF Files
  <1>3. Fresh
    BY <1>1, <1>2 DEF Fresh
  <1> QED BY <1>3 DEF KeptAlone, Delivered, Actors

\* What the pending file holds for this driver session has reached the node, is in
\* the driver's queue, or is about to be replaced: no write is held back that nobody
\* will deliver.  Not so where nodes join while zwavectl runs, which then lists what
\* the handler never issued; and not where reconciles are cut off before their merge
\* while people edit the file, since a value issued and never listed overtakes one.
THEOREM PendingQueued ==
  ASSUME "joincli" \notin Env, ~({"cut", "edit"} \subseteq Env)
  PROVE  Spec => []PendingIsQueued
  <1>1. Init => Promised
    BY KeptInit DEF Promised
  <1>2. Basics /\ Promised /\ [Next]_vars => Promised'
    <2> SUFFICES ASSUME Basics, Promised, [Next]_vars PROVE Promised'
      OBVIOUS
    <2>1. shared' = shared
      BY ConstantsStay DEF Basics
    <2>2. shared \/ "edit" \notin Env => (OnTarget /\ Kept)'
      BY OnTargetStep, KeptStep DEF Promised
    <2>3. ~shared /\ "cut" \notin Env => KeptAlone'
      BY KeptAloneStep DEF Promised
    <2> QED BY <2>1, <2>2, <2>3 DEF Promised
  <1>3. Basics /\ Promised => PendingIsQueued
    BY KeptIsQueued, KeptAloneIsQueued DEF Promised
  <1> QED BY <1>1, <1>2, <1>3, AlwaysBasics, PTL DEF Spec
-----------------------------------------------------------------------------
(* Why a write is issued again: RepeatsFollowReset.                        *)

Tracked(k) == queue[k] # None /\ queue[k].began # None

\* The pending file suppresses the write, until a reset is recorded that is later
\* than the reconcile that issued it.
Listed(k) ==
  /\ pending # None /\ pending.issued >= queue[k].began
  /\ k \in DOMAIN pending.want /\ pending.want[k] = queue[k].value

Superfluous(k) == actual[k] = queue[k].value

\* What stands between a write in the queue and its repetition, by the phase of
\* the reconcile under way: the list about to be merged; a reset; or the list.
Accounted(k) ==
  LET r == run["handler"]
  IN IF r.phase = "merge" THEN k \in r.still \/ Superfluous(k)
     ELSE IF r.phase = "decide"
     THEN Listed(k) \/ Superfluous(k) \/ (r.reset # None /\ r.reset > queue[k].began)
     ELSE Listed(k) \/ Superfluous(k) \/ ~noticed \/ clock > queue[k].began

\* A tracked write is what the policies say, and what a reconcile under way, begun
\* since, wants.
Aimed(k) ==
  LET r == run["handler"]
  IN /\ ~ConfigErrors(file) /\ k \in DOMAIN Target /\ Target[k] = queue[k].value
     /\ Busy("handler") => k \in DOMAIN r.want /\ r.want[k] = queue[k].value
     /\ queue[k].began <= clock
     /\ r.phase \in {"load", "session", "fold", "decide", "merge"} => queue[k].began <= r.now

NothingQueued == \A k \in Keys : queue[k] = None

\* What a reconcile knows while it is under way: a driver that was down since it
\* looked holds nothing, and what is held has not landed since.
Informed ==
  LET r == run["handler"]
  IN /\ r.phase = "fold" /\ ~r.current => NothingQueued
     /\ r.phase = "decide" /\ r.reset = None => NothingQueued /\ (~noticed \/ clock > r.now)
     /\ Looks("handler") => \A k \in Keys : queue[k] # None => r.seen[k] = actual[k]

Unedited ==
  /\ memory.edited => \A k \in Keys : ~Tracked(k)
  /\ ~memory.edited /\ Busy("handler") => Agrees(run["handler"].want)

AccountedFor ==
  /\ Informed /\ Unedited
  /\ \A k \in Keys : Tracked(k) => Aimed(k) /\ Accounted(k)

\* Nobody but the handler adds to the queue, where it is alone.
LEMMA QueueAlone ==
  ASSUME Basics, ~shared, [Next]_vars, ~Decide, NEW k \in Keys, queue'[k] # None
  PROVE  queue[k] # None /\ (queue'[k] = queue[k] \/ queue'[k].began = None)
  <1>0. TypeOK /\ ~Cli
    BY Alone DEF Basics
  <1>1. CASE Handler \/ UNCHANGED vars
    BY <1>0, <1>1, HandlerFrame DEF vars
  <1>2. CASE World
    <2>1. ASSUME NEW text \in Texts, Edit(text)
          PROVE  queue[k] # None /\ queue'[k].began = None
      BY <1>0, <2>1, ForgivenTypes DEF Edit
    <2>2. ASSUME NEW j \in Keys, Land(j) PROVE queue'[k] = queue[k]
      BY <1>0, <2>2 DEF Land, TypeOK
    <2>3. ~DriverStops
      BY DEF DriverStops
    <2>4. \/ UNCHANGED queue
          \/ \E text \in Texts : Edit(text)
          \/ \E j \in Keys : Land(j)
      BY <1>2, <2>3 DEF World, Monitor, MonitorSamples, Traffic, DriverStarts, Join, HandEdit,
                        HaRestarts, CalmDown, world
    <2> QED BY <2>1, <2>2, <2>4
  <1> QED BY <1>0, <1>1, <1>2 DEF Next

\* And what the handler adds it wants, and did not see there.
LEMMA QueueDecided ==
  ASSUME Basics, ~shared, Decide, NEW k \in Keys, queue'[k] # None
  PROVE  LET r == run["handler"]
         IN \/ queue'[k] = queue[k]
            \/ /\ k \in DOMAIN r.want /\ ~Converged(k, r.want, r.seen)
               /\ queue'[k].value = r.want[k]
               /\ queue'[k].began = IF memory.edited THEN None ELSE r.now
  <1> DEFINE r     == run["handler"]
             valid == IF r.reset = None THEN NoCommands ELSE Valid(r.reset)
             keys  == ToIssue(r.want, r.seen, valid)
             began == IF shared \/ memory.edited THEN None ELSE r.now
  <1>1. TypeOK /\ r.phase = "decide" /\ Issue(keys, r.want, began)
    BY AfterDecide DEF Basics
  <1>2. r.want \in Wants /\ began \in Nat \cup {None}
    BY <1>1, HandlerTypes DEF TypeOK
  <1>3. keys \in SUBSET DOMAIN r.want /\ \A j \in keys : ~Converged(j, r.want, r.seen)
    BY DEF ToIssue
  <1> HIDE DEF keys, r, began
  <1>4. \/ queue'[k] = queue[k]
        \/ k \in keys /\ queue'[k].value = r.want[k] /\ queue'[k].began = began
    BY <1>1, <1>2, <1>3, QueueAfterIssue
  <1> QED BY <1>3, <1>4 DEF began, r

\* What the handler's run may become, where it is alone.
LEMMA RunAlone ==
  ASSUME Basics, ~shared, [Next]_vars
  PROVE  LET r == run["handler"]
             s == run'["handler"]
         IN \/ Handler
            \/ s = r
            \/ HaRestarts /\ s.phase = "idle" /\ clock' = clock
            \/ DriverStops /\ r.phase = "fold" /\ s.phase = "fold" /\ s.now = r.now
  <1>0. TypeOK /\ ~Cli /\ "handler" \in Actors
    BY Alone DEF Basics, Actors
  <1>1. CASE World
    <2>1. CASE HaRestarts
      BY <1>0, <2>1, EnterRun DEF HaRestarts, Idle
    <2>2. CASE DriverStops
      BY <1>0, <2>2, RunsWhenStopped
    <2>3. CASE Monitor \/ MonitorSamples
      BY <1>0, <2>3, EnterRun DEF Monitor, MonitorSamples, Actors
    <2>4. CASE ~HaRestarts /\ ~DriverStops /\ ~Monitor /\ ~MonitorSamples
      BY <1>1, <2>4 DEF World, Traffic, Land, DriverStarts, Edit, Join, HandEdit, CalmDown
    <2> QED BY <2>1, <2>2, <2>3, <2>4
  <1> QED BY <1>0, <1>1 DEF Next, vars

\* The phases of a reconcile, where nothing else matters.
LEMMA HandlerPhases ==
  ASSUME TypeOK, Handler
  PROVE  LET r == run["handler"]
             s == run'["handler"]
         IN \/ Begin /\ r.phase = "idle" /\ s.phase = "load" /\ s.now = clock
            \/ Load /\ r.phase = "load" /\ (s.phase = "idle" \/ (s.phase = "session" /\ s.now = r.now))
            \/ SampleSession /\ r.phase = "session" /\ s.phase \in {"fold", "decide"} /\ s.now = r.now
            \/ ReadSession /\ r.phase = "fold" /\ s.phase = "decide" /\ s.now = r.now
            \/ Decide /\ r.phase = "decide" /\ (s.phase = "report" \/ (s.phase = "merge" /\ s.now = r.now))
            \/ Merge /\ r.phase = "merge" /\ s.phase = "report"
            \/ Report /\ r.phase = "report" /\ s.phase = "idle"
  BY AfterBegin, AfterLoad, AfterSampleSession, AfterReadSession, AfterDecide, AfterMerge,
     AfterReport DEF Handler

\* An edit forgives what is queued; nothing else changes the file.
LEMMA EditStep ==
  ASSUME Basics, ~shared, [Next]_vars
  PROVE  \/ /\ UNCHANGED file
            /\ memory'.edited => memory.edited
            /\ Busy("handler")' /\ memory.edited => memory'.edited
         \/ memory'.edited /\ queue' = Forgiven
  <1>0. TypeOK /\ ~Cli /\ "handler" \in Actors
    BY Alone DEF Basics, Actors
  <1>1. CASE Handler
    <2>0. UNCHANGED file
      BY <1>0, <1>1, HandlerFrame
    <2>1. CASE Begin
      <3>1. ~memory'.edited
        BY <1>0, <2>1 DEF Begin, TypeOK
      <3> QED BY <1>0, <2>0, <2>1, <3>1, AfterBegin DEF Busy
    <2>2. CASE Report
      <3>1. ~memory'.edited
        BY <2>2 DEF Report
      <3> QED BY <1>0, <2>0, <2>2, <3>1, AfterReport DEF Busy
    <2>3. CASE ~Begin /\ ~Report
      <3>1. UNCHANGED memory
        BY <1>1, <2>3 DEF Handler, Load, EndsEarly, SampleSession, ReadSession, Decide, Merge,
                          shown
      <3> QED BY <2>0, <3>1
    <2> QED BY <2>1, <2>2, <2>3
  <1>2. CASE World
    <2>1. ASSUME NEW text \in Texts, Edit(text) PROVE memory'.edited /\ queue' = Forgiven
      BY <1>0, <2>1 DEF Edit, TypeOK
    <2>2. CASE HaRestarts
      <3>1. ~memory'.edited /\ UNCHANGED file
        BY <2>2 DEF HaRestarts, world
      <3>2. run'["handler"].phase = "idle"
        BY <1>0, <2>2, EnterRun DEF HaRestarts, Idle
      <3> QED BY <3>1, <3>2 DEF Busy
    <2>3. CASE ~HaRestarts /\ ~\E text \in Texts : Edit(text)
      <3>1. UNCHANGED <<memory, file>>
        BY <1>2, <2>3 DEF World, Monitor, MonitorSamples, Traffic, Land, DriverStops,
                          DriverStarts, Join, HandEdit, CalmDown, world, shown
      <3> QED BY <3>1
    <2> QED BY <2>1, <2>2, <2>3
  <1>3. CASE UNCHANGED vars
    BY <1>3 DEF vars, world, shown
  <1> QED BY <1>0, <1>1, <1>2, <1>3 DEF Next

\* A tracked write was one, or has just been issued.
LEMMA TrackedStep ==
  ASSUME Basics, ~shared, Unedited, [Next]_vars, NEW k \in Keys, Tracked(k)'
  PROVE  /\ UNCHANGED file
         /\ \/ Tracked(k) /\ queue'[k] = queue[k]
            \/ LET r == run["handler"]
               IN /\ Decide /\ ~memory.edited
                  /\ k \in DOMAIN r.want /\ ~Converged(k, r.want, r.seen)
                  /\ queue'[k].value = r.want[k] /\ queue'[k].began = r.now
  <1>0. TypeOK /\ queue'[k] # None /\ queue'[k].began # None
    BY DEF Basics, Tracked
  <1>1. UNCHANGED file
    BY <1>0, EditStep, ForgivenTypes
  <1>2. CASE Decide
    BY <1>0, <1>1, <1>2, QueueDecided DEF Tracked
  <1>3. CASE ~Decide
    BY <1>0, <1>1, <1>3, QueueAlone DEF Tracked
  <1> QED BY <1>2, <1>3

\* What a reconcile knows stays true.
LEMMA InformedStep ==
  ASSUME Basics, ~shared, Informed, [Next]_vars
  PROVE  Informed'
  <1> DEFINE r == run["handler"]
             s == run'["handler"]
  <1>0. TypeOK /\ "handler" \in Actors /\ clock \in Nat
    BY DEF Basics, Actors, TypeOK
  <1>1. NothingQueued /\ ~Decide => NothingQueued'
    BY QueueAlone DEF NothingQueued
  <1>2. ASSUME s.phase = "fold", ~s.current
        PROVE  NothingQueued'
    <2>1. CASE DriverStops
      BY <2>1 DEF DriverStops, NothingQueued
    <2>2. CASE s = r /\ ~Decide
      BY <1>1, <1>2, <2>2 DEF Informed
    <2>3. ~Handler
      BY <1>0, <1>2, HandlerPhases, AfterSampleSession
    <2> QED BY <1>2, <2>1, <2>2, <2>3, RunAlone DEF Handler
  <1>3. ASSUME s.phase = "decide", s.reset = None
        PROVE  NothingQueued' /\ (~noticed' \/ clock' > s.now)
    <2>1. CASE SampleSession
      <3>1. ~driver.up /\ UNCHANGED <<queue, noticed>>
        BY <1>0, <1>3, <2>1, AfterSampleSession
      <3> QED BY <3>1 DEF Basics, Grounded, Counters, NothingQueued
    <2>2. CASE s = r /\ ~Decide
      <3>1. NothingQueued /\ (~noticed \/ clock > r.now) /\ r.now \in 0..clock
        BY <1>0, <1>3, <2>2, HandlerTypes DEF Informed
      <3>2. ~noticed' \/ clock' > r.now
        BY <1>0, <3>1, ClockStep
      <3> QED BY <1>1, <2>2, <3>1, <3>2
    <2>3. Handler => SampleSession
      <3>1. clock' \in Nat => clock' # None
        BY ManagerAssumption
      <3>2. ReadSession => s.reset \in Nat
        BY <1>0, AfterReadSession
      <3>3. ~ReadSession
        BY <1>3, <3>2, ManagerAssumption
      <3> QED BY <1>0, <1>3, <3>3, HandlerPhases
    <2> QED BY <1>3, <2>1, <2>2, <2>3, RunAlone DEF Handler
  <1>4. ASSUME Looks("handler")', NEW k \in Keys, queue'[k] # None
        PROVE  s.seen[k] = actual'[k]
    <2>1. ~Decide
      BY <1>0, <1>4, AfterDecide DEF Looks
    <2>2. queue[k] # None
      BY <1>4, <2>1, QueueAlone
    <2>3. ~Land(k) /\ ~HandEdit(k)
      BY <1>0, <1>4, <2>2 DEF Land, HandEdit, TypeOK
    <2>4. actual'[k] = actual[k]
      BY <1>0, <2>3, ActualStep
    <2>5. \/ Looks("handler") /\ s.seen = r.seen
          \/ s.seen = actual
      BY <1>0, <1>4, SeenStep
    <2> QED BY <2>2, <2>4, <2>5 DEF Informed
  <1> QED BY <1>2, <1>3, <1>4 DEF Informed

\* What is tracked agrees with a file that nobody edits.
LEMMA UneditedStep ==
  ASSUME Basics, ~shared, Unedited, [Next]_vars
  PROVE  Unedited'
  <1> DEFINE s == run'["handler"]
  <1>0. TypeOK /\ "handler" \in Actors
    BY DEF Basics, Actors
  <1>1. ASSUME memory'.edited, NEW k \in Keys, Tracked(k)'
        PROVE  FALSE
    <2>1. memory.edited
      BY <1>0, <1>1, EditStep, ForgivenTypes DEF Tracked
    <2> QED BY <1>1, <2>1, TrackedStep DEF Unedited
  <1>2. ASSUME ~memory'.edited, Busy("handler")'
        PROVE  Agrees(run["handler"].want)'
    <2>1. UNCHANGED file
      BY <1>2, EditStep
    <2>2. CASE Busy("handler") /\ s.want = run["handler"].want
      <3>1. Agrees(run["handler"].want)
        BY <1>2, <2>1, <2>2, EditStep DEF Unedited
      <3> QED BY <1>0, <2>1, <2>2, <3>1, AgreesStays DEF Agrees
    <2>3. CASE ~ConfigErrors(file) /\ s.want = Target
      <3>1. Agrees(Target)
        BY <2>3 DEF Agrees
      <3> QED BY <1>0, <2>1, <2>3, <3>1, AgreesStays DEF Agrees
    <2> QED BY <1>0, <1>2, <2>2, <2>3, WantStep
  <1> QED BY <1>1, <1>2 DEF Unedited

\* What is tracked stays what everybody wants.
LEMMA AimedStep ==
  ASSUME Basics, ~shared, Unedited, [Next]_vars, NEW k \in Keys, Tracked(k)',
         Tracked(k) => Aimed(k)
  PROVE  Aimed(k)'
  <1> DEFINE r == run["handler"]
             s == run'["handler"]
  <1>0. TypeOK /\ "handler" \in Actors /\ clock \in Nat /\ UNCHANGED file
    BY TrackedStep DEF Basics, Actors, TypeOK
  <1>1. clock <= clock'
    BY <1>0, ClockStep
  <1>2. CASE Tracked(k) /\ queue'[k] = queue[k]
    <2>1. Aimed(k) /\ k[1] \in Ids(there) /\ queue[k] # None
      BY <1>2 DEF Tracked, Basics, Grounded, Known, Ids
    <2>2. ~ConfigErrors(file)' /\ k \in DOMAIN Target' /\ Target'[k] = queue'[k].value
      BY <1>0, <1>2, <2>1, TargetGrows DEF Aimed
    <2>3. Busy("handler")' => k \in DOMAIN s.want /\ s.want[k] = queue'[k].value
      BY <1>0, <1>2, <2>1, WantStep DEF Aimed
    <2>4. queue[k].began \in Nat
      BY <1>0, <1>2 DEF Tracked, TypeOK, Writes
    <2>5. queue'[k].began <= clock'
      BY <1>0, <1>1, <1>2, <2>1, <2>4, ClockStep DEF Aimed
    <2>6. s.phase \in {"load", "session", "fold", "decide", "merge"} => queue'[k].began <= s.now
      BY <1>0, <1>2, <2>1, HandlerPhases, RunAlone DEF Aimed
    <2> QED BY <2>2, <2>3, <2>5, <2>6 DEF Aimed
  <1>3. ASSUME Decide, ~memory.edited, k \in DOMAIN r.want,
               queue'[k].value = r.want[k], queue'[k].began = r.now
        PROVE  Aimed(k)'
    <2>1. /\ r.phase = "decide" /\ UNCHANGED <<clock, there>>
          /\ s.phase \in {"report", "merge"} /\ (s.phase = "merge" => s.now = r.now /\ s.want = r.want)
      BY <1>0, <1>3, AfterDecide, HandlerFrame DEF Handler
    <2>2. Agrees(r.want) /\ r.now \in 0..clock
      BY <1>0, <1>3, <2>1, HandlerTypes DEF Unedited, Busy
    <2>3. ~ConfigErrors(file)' /\ k \in DOMAIN Target' /\ Target'[k] = queue'[k].value
      BY <1>0, <1>3, <2>2, AgreesStays DEF Agrees
    <2> QED BY <1>0, <1>3, <2>1, <2>2, <2>3 DEF Aimed, Busy
  <1> QED BY <1>2, <1>3, TrackedStep

\* The decision itself: what it issues it is about to list, unless a reset is due.
LEMMA AccountedDecide ==
  ASSUME Basics, ~shared, Informed, Unedited, [Next]_vars, Decide, NEW k \in Keys,
         Tracked(k)', Tracked(k) => Aimed(k)
  PROVE  Accounted(k)'
  <1> DEFINE r     == run["handler"]
             s     == run'["handler"]
             valid == IF r.reset = None THEN NoCommands ELSE Valid(r.reset)
  <1>0. /\ TypeOK /\ r.phase = "decide" /\ UNCHANGED <<actual, clock, noticed>>
        /\ IF r.reset = None THEN s.phase = "report"
           ELSE s.phase = "merge" /\ s.still = StillWanted(r.want, r.seen, valid)
    BY AfterDecide, HandlerFrame DEF Basics, Handler
  <1>1. CASE r.reset = None
    <2>1. queue[k] = None /\ (~noticed \/ clock > r.now)
      BY <1>0, <1>1 DEF Informed, NothingQueued
    <2>2. queue'[k].began = r.now
      BY <2>1, TrackedStep DEF Tracked
    <2> QED BY <1>0, <1>1, <2>1, <2>2 DEF Accounted
  <1>2. CASE r.reset # None
    <2>1. k \in DOMAIN r.want /\ r.want[k] = queue'[k].value
      BY <1>0, TrackedStep DEF Aimed, Busy
    <2>2. CASE Converged(k, r.want, r.seen)
      <3>1. Tracked(k) /\ queue'[k] = queue[k]
        BY <2>2, TrackedStep
      <3>2. r.seen[k] = actual[k]
        BY <1>0, <3>1 DEF Informed, Looks, Tracked
      <3>3. actual'[k] = queue'[k].value
        BY <1>0, <2>1, <2>2, <3>2 DEF Converged
      <3> QED BY <1>0, <1>2, <3>3 DEF Accounted, Superfluous
    <2>3. CASE ~Converged(k, r.want, r.seen)
      <3>1. k \in s.still
        BY <1>0, <1>2, <2>1, <2>3 DEF StillWanted
      <3> QED BY <1>0, <1>2, <3>1 DEF Accounted
    <2> QED BY <2>2, <2>3
  <1> QED BY <1>1, <1>2

\* The merge lists what was decided, under a time no earlier than its issue.
LEMMA AccountedMerge ==
  ASSUME Basics, ~shared, Merge, NEW k \in Keys, Tracked(k), Aimed(k), Accounted(k),
         queue'[k] = queue[k], actual'[k] = actual[k]
  PROVE  Accounted(k)'
  <1> DEFINE r == run["handler"]
             s == run'["handler"]
  <1>0. /\ TypeOK /\ "handler" \in Actors
        /\ r.phase = "merge" /\ s.phase = "report" /\ MergePending("handler")
    BY AfterMerge DEF Basics, Actors
  <1>1. CASE Superfluous(k)
    BY <1>0, <1>1 DEF Accounted, Superfluous
  <1>2. CASE k \in r.still
    <2> DEFINE merged == Merged(Valid(r.reset), r.want, r.still)
    <2>1. k \in DOMAIN merged /\ merged[k] = r.want[k]
      BY <1>2, MergedFile
    <2>2. pending' # None
      <3>1. DOMAIN merged # {}
        BY <2>1
      <3> DEFINE valid == pending # None /\ pending.issued >= r.reset
                 time  == IF valid THEN pending.issued ELSE r.now
                 one   == [issued |-> time, want |-> merged]
      <3>2. pending' = one
        BY <1>0, <3>1 DEF MergePending
      <3>3. merged \in Wants
        <4>1. Valid(r.reset) \in Wants
          BY <1>0, WantsAreFunctions DEF Valid, TypeOK, Files
        <4> QED BY <1>0, <4>1, FileAfterMerge, MergedFile
      <3>4. time \in Nat
        BY <1>0, HandlerTypes DEF TypeOK, Files
      <3> HIDE DEF merged, time
      <3>5. one \in Files
        BY <3>3, <3>4 DEF Files
      <3> QED BY <3>2, <3>5, ManagerAssumption
    <2>3. /\ pending'.want = merged
          /\ IF pending # None /\ pending.issued >= r.reset
             THEN pending'.issued = pending.issued ELSE pending'.issued = r.now
      BY <1>0, <2>2, FileAfterMerge
    <2>4. /\ queue[k].began \in Nat /\ r.now \in Nat /\ r.reset \in Nat /\ r.now <= r.reset
          /\ queue[k].began <= r.now
      BY <1>0, HandlerTypes, ManagerAssumption
      DEF Tracked, Aimed, Basics, Times, TypeOK, Writes
    <2>5. pending # None => pending.issued \in Nat
      BY <1>0 DEF TypeOK, Files
    <2>6. pending'.issued >= queue[k].began
      BY <2>3, <2>4, <2>5
    <2>7. r.want[k] = queue[k].value
      BY <1>0 DEF Aimed, Busy
    <2>8. Listed(k)'
      BY <2>1, <2>2, <2>3, <2>6, <2>7 DEF Listed
    <2> QED BY <1>0, <2>8 DEF Accounted
  <1> QED BY <1>0, <1>1, <1>2 DEF Accounted

\* What a reconcile's step leaves of an account, the merge and the decision apart.
LEMMA AccountedStep ==
  ASSUME Basics, ~shared, "cut" \notin Env, AccountedFor, [Next]_vars,
         NEW k \in Keys, Tracked(k)'
  PROVE  Accounted(k)'
  <1> DEFINE r == run["handler"]
             s == run'["handler"]
  <1>0. /\ TypeOK /\ "handler" \in Actors /\ clock \in Nat
        /\ Informed /\ Unedited /\ (Tracked(k) => Aimed(k) /\ Accounted(k))
    BY DEF Basics, Actors, TypeOK, AccountedFor
  <1>1. CASE Decide
    BY <1>0, <1>1, AccountedDecide
  <1>2. CASE ~Decide
    <2>1. /\ Tracked(k) /\ queue'[k] = queue[k] /\ queue[k] # None
          /\ queue[k].began \in Nat
      BY <1>0, <1>2, TrackedStep DEF Tracked, TypeOK, Writes
    <2>2. actual'[k] = actual[k]
      <3>1. ~Land(k) /\ ~HandEdit(k)
        BY <1>0, <2>1 DEF Land, HandEdit, TypeOK, Tracked
      <3> QED BY <1>0, <3>1, ActualStep
    <2>3. Aimed(k) /\ Accounted(k)
      BY <1>0, <2>1
    <2>4. CASE Merge
      BY <1>0, <2>1, <2>2, <2>3, <2>4, AccountedMerge
    <2>5. CASE ~Merge
      <3>1. UNCHANGED pending
        BY <1>0, <2>5, PendingStep, Alone, HandlerFrame, WorldFrame DEF Next, vars
      <3>2. (Listed(k) => Listed(k)') /\ (Superfluous(k) => Superfluous(k)')
        BY <2>1, <2>2, <3>1 DEF Listed, Superfluous
      <3>3. queue[k].began <= clock
        BY <2>3 DEF Aimed
      <3>4. CASE s = r
        <4>1. ~noticed \/ clock > queue[k].began => ~noticed' \/ clock' > queue'[k].began
          BY <1>0, <2>1, <3>3, ClockStep
        <4> QED BY <2>1, <2>3, <3>2, <3>4, <4>1 DEF Accounted
      <3>5. CASE ReadSession
        <4>1. /\ r.phase = "fold" /\ s.phase = "decide" /\ s.reset = clock'
              /\ clock' = IF r.count < session.count THEN clock + 1 ELSE clock
              /\ noticed' = (noticed \/ r.current)
          BY <1>0, <3>5, AfterReadSession
        <4>2. Listed(k) \/ Superfluous(k) \/ ~noticed \/ clock > queue[k].began
          BY <2>3, <4>1 DEF Accounted
        <4>3. clock' \in Nat /\ clock' # None /\ clock <= clock'
          BY <1>0, <4>1, ManagerAssumption
        <4>4. CASE ~noticed
          <5>1. r.current
            BY <1>0, <2>1, <4>1 DEF Informed, NothingQueued
          <5>2. r.count < session.count
            <6>1. r.count <= driver.count /\ driver.count < session.count
              BY <1>0, <4>1, <4>4, <5>1 DEF Basics, Counters
            <6>2. r.count \in Nat /\ driver.count \in Nat /\ session.count \in Nat
              BY <1>0, <4>1, HandlerTypes, ManagerAssumption DEF TypeOK
            <6> QED BY <6>1, <6>2
          <5> QED BY <1>0, <2>1, <3>3, <4>1, <4>3, <5>2 DEF Accounted
        <4>5. CASE noticed /\ clock > queue[k].began
          BY <1>0, <2>1, <4>1, <4>3, <4>5 DEF Accounted
        <4>6. CASE Listed(k) \/ Superfluous(k)
          BY <3>2, <4>1, <4>6 DEF Accounted
        <4> QED BY <4>2, <4>4, <4>5, <4>6
      <3>6. CASE SampleSession
        <4>1. driver.up
          BY <2>1 DEF Basics, Grounded, Tracked
        <4>2. /\ r.phase = "session" /\ s.phase = "fold"
              /\ UNCHANGED <<clock, noticed>>
          BY <1>0, <3>6, <4>1, AfterSampleSession
        <4> QED BY <2>1, <2>3, <3>2, <4>2 DEF Accounted
      <3>7. CASE HaRestarts
        <4>1. s.phase = "idle" /\ r.phase # "merge" /\ UNCHANGED <<clock, noticed>>
          BY <1>0, <3>7, EnterRun DEF HaRestarts, Idle, May, world
        <4>2. r.phase = "decide" /\ r.reset # None => r.reset \in 0..clock
          BY <1>0, HandlerTypes
        <4>3. Listed(k) \/ Superfluous(k) \/ ~noticed \/ clock > queue[k].began
          BY <1>0, <2>1, <2>3, <4>1, <4>2 DEF Accounted
        <4> QED BY <2>1, <3>2, <4>1, <4>3 DEF Accounted
      <3>8. CASE s # r /\ ~ReadSession /\ ~SampleSession /\ ~HaRestarts
        <4>1. r.phase \notin {"merge", "decide"} /\ s.phase \notin {"merge", "decide"}
          <5>1. CASE Handler
            BY <1>0, <1>2, <2>5, <3>8, <5>1, HandlerPhases
          <5>2. CASE DriverStops
            BY <2>1, <5>2 DEF DriverStops
          <5> QED BY <3>8, <5>1, <5>2, RunAlone
        <4>2. ~noticed \/ clock > queue[k].began => ~noticed' \/ clock' > queue'[k].began
          BY <1>0, <2>1, <3>3, ClockStep
        <4> QED BY <2>3, <3>2, <4>1, <4>2 DEF Accounted
      <3> QED BY <3>4, <3>5, <3>6, <3>7, <3>8
    <2> QED BY <2>4, <2>5
  <1> QED BY <1>1, <1>2

LEMMA AccountedInit == Init => AccountedFor
  <1> SUFFICES ASSUME Init PROVE AccountedFor
    OBVIOUS
  <1>1. "handler" \in Actors /\ run["handler"].phase = "idle"
    BY DEF Init, Idle, Actors
  <1>2. \A k \in Keys : queue[k] = None
    BY DEF Init
  <1>3. ~memory.edited
    BY DEF Init
  <1> QED BY <1>1, <1>2, <1>3
      DEF AccountedFor, Informed, Unedited, Tracked, Busy, Looks, NothingQueued

\* A handler that is alone accounts for every write the driver holds.
LEMMA AccountedForStep ==
  ASSUME Basics, ~shared, "cut" \notin Env, AccountedFor, [Next]_vars
  PROVE  AccountedFor'
  <1>1. Informed' /\ Unedited'
    BY InformedStep, UneditedStep DEF AccountedFor
  <1>2. ASSUME NEW k \in Keys, Tracked(k)'
        PROVE  Aimed(k)' /\ Accounted(k)'
    BY <1>2, AimedStep, AccountedStep DEF AccountedFor
  <1> QED BY <1>1, <1>2 DEF AccountedFor

\* What is accounted for is issued again only after a reset.
LEMMA AccountedRepeats ==
  Basics /\ ("cut" \notin Env /\ ~shared => AccountedFor) => RepeatsFollowReset
  <1> DEFINE r     == run["handler"]
             valid == IF r.reset = None THEN NoCommands ELSE Valid(r.reset)
  <1> SUFFICES ASSUME Basics, AccountedFor,
                      NEW k \in Keys, Repeats(k), queue[k].began # None
               PROVE  r.reset # None /\ r.reset > queue[k].began
    BY DEF RepeatsFollowReset
  <1>1. /\ r.phase = "decide" /\ k \in ToIssue(r.want, r.seen, valid)
        /\ Tracked(k) /\ queue[k].value = r.want[k]
    BY DEF Repeats, Tracked
  <1>2. TypeOK /\ "handler" \in Actors /\ Accounted(k) /\ Informed
    BY <1>1 DEF Basics, AccountedFor, Actors
  <1>3. r.reset # None
    BY <1>1, <1>2 DEF Informed, NothingQueued, Tracked
  <1>4. ~Superfluous(k)
    <2>1. r.seen[k] = actual[k] /\ r.seen[k] # r.want[k]
      BY <1>1, <1>2 DEF Informed, Looks, Tracked, ToIssue, Converged
    <2> QED BY <1>1, <2>1 DEF Superfluous
  <1>5. CASE Listed(k)
    <2>1. pending.issued < r.reset
      <3>1. ~(k \in DOMAIN valid /\ valid[k] = r.want[k])
        BY <1>1 DEF ToIssue
      <3> QED BY <1>1, <1>3, <1>5, <3>1 DEF Listed, Valid
    <2>2. pending.issued \in Nat /\ r.reset \in Nat /\ queue[k].began \in Nat
      BY <1>1, <1>2, <1>3, <1>5, HandlerTypes DEF TypeOK, Files, Writes, Tracked, Listed
    <2> QED BY <1>3, <1>5, <2>1, <2>2 DEF Listed
  <1> QED BY <1>1, <1>2, <1>3, <1>4, <1>5 DEF Accounted

\* RepeatsFollowReset, for all nodes, policies, bounds and surroundings: a
\* handler that is alone and not cut off between its calls and its merge issues
\* a write the driver holds again only because of a reset recorded after the
\* reconcile began that issued it.
THEOREM RepeatsFollowResets == Spec => []RepeatsFollowReset
  <1> DEFINE AccountedAlone == "cut" \notin Env /\ ~shared => AccountedFor
  <1>1. Init => AccountedAlone
    BY AccountedInit
  <1>2. Basics /\ AccountedAlone /\ [Next]_vars => AccountedAlone'
    BY ConstantsStay, AccountedForStep DEF Basics
  <1>3. Basics /\ AccountedAlone => RepeatsFollowReset
    BY AccountedRepeats
  <1> HIDE DEF AccountedAlone
  <1> QED BY <1>1, <1>2, <1>3, AlwaysBasics, PTL DEF Spec
==============================================================================
