------------------------- MODULE RouteManagerProofs -------------------------
(***************************************************************************)
(* Theorems about RouteConfig and RouteManager, for every house, file,     *)
(* threshold and surroundings.  Of the file: one without errors gives each *)
(* node it has a line for one route, a real one, and the same one          *)
(* whichever other nodes answered.  Of the reconcile: the types; that      *)
(* nothing listed is cleared; that nothing is sent twice; that what is     *)
(* shown has landed; that the breaker backs off.  All these need the shape *)
(* of the reconcile under way and, but for the last two, what is proved    *)
(* of the file it has read.                                                *)
(***************************************************************************)
EXTENDS RouteManager, WellFoundedInduction, TLAPS
-----------------------------------------------------------------------------
(* The file of routes: RouteConfig.                                        *)

\* A line that resolves stands for one of these.
WantedRoutes ==
  [to : [via : {Devices[e].node : e \in DOMAIN Devices}, speed : Speeds], auto : BOOLEAN]

LEMMA LeastNat ==
  ASSUME NEW T \in SUBSET Nat, T # {}
  PROVE  \E x \in T : \A y \in T : x <= y
  <1>1. PICK x \in T : \A y \in T : <<y, x>> \notin OpToRel(<, Nat)
    BY NatLessThanWellFounded, WFMin
  <1>2. \A y \in T : ~(y < x)
    BY <1>1 DEF OpToRel
  <1> QED BY <1>2

LEMMA GreatestNat ==
  ASSUME NEW T \in SUBSET Nat, T # {}, NEW b \in Nat, \A x \in T : x <= b
  PROVE  \E x \in T : \A y \in T : y <= x
  <1>1. PICK D : D = {n \in Nat : \E x \in T : n + x = b}
    OBVIOUS
  <1>2. \A x \in T : b - x \in D
    BY <1>1
  <1>3. PICK d \in D : \A e \in D : d <= e
    BY <1>1, <1>2, LeastNat
  <1>4. PICK x \in T : d + x = b /\ d \in Nat
    BY <1>1
  <1>5. \A y \in T : y <= x
    BY <1>2, <1>3, <1>4
  <1> QED BY <1>5

\* Where a line is, and what is written there.
LEMMA LineFacts ==
  ASSUME NEW conf \in Files, ~ParseErrors(conf), NEW l \in Parsed(conf).lines
  PROVE  \E i \in 1..Len(conf.entries) : \E j \in 1..Len(conf.entries[i].clients) :
           \E k \in 1..Len(conf.entries[i].clients[j].names) :
             /\ l.at = <<i, j, k>>
             /\ Len(conf.entries) \in Nat
             /\ Len(conf.entries[i].clients) \in Nat
             /\ Len(conf.entries[i].clients[j].names) \in Nat
             /\ l.repeater \in Parsed(conf).repeaters
             /\ {l.speed, l.client.speed} \subseteq Speeds \cup {None}
  <1>1. IsSequence(conf.entries) /\ Parsed(conf).lines =
          UNION {ClientsOf(conf.entries[i], i) : i \in DOMAIN conf.entries}
    BY ConfigAssumption DEF Parsed
  <1>2. PICK i \in DOMAIN conf.entries : l \in ClientsOf(conf.entries[i], i)
    BY <1>1
  <1> DEFINE entry == conf.entries[i]
  <1>3. entry.shape = "mapping" /\ ~BadSpeed(entry.speed)
        /\ \A j \in DOMAIN entry.clients : ~BadClient(entry.clients[j])
    BY <1>2 DEF ParseErrors, BadEntry
  <1>4. IsSequence(entry.clients) /\ entry.speed \in RawSpeeds
        /\ \A j \in DOMAIN entry.clients : IsSequence(entry.clients[j].names)
                                           /\ entry.clients[j].speed \in RawSpeeds
    BY <1>2, <1>3, ConfigAssumption
  <1>5. PICK j \in DOMAIN entry.clients : \E k \in DOMAIN entry.clients[j].names :
          l = [at |-> <<i, j, k>>, client |-> ClientSpec(entry.clients[j], k),
               repeater |-> entry.repeater, speed |-> entry.speed]
    BY <1>2 DEF ClientsOf
  <1>6. PICK k \in DOMAIN entry.clients[j].names :
          l = [at |-> <<i, j, k>>, client |-> ClientSpec(entry.clients[j], k),
               repeater |-> entry.repeater, speed |-> entry.speed]
    BY <1>5
  <1>7. l.at = <<i, j, k>> /\ l.repeater = entry.repeater /\ l.speed = entry.speed
        /\ l.client.speed \in {None, entry.clients[j].speed}
        /\ (entry.clients[j].shape = "bare" => l.client.speed = None)
    BY <1>6 DEF ClientSpec
  <1>8. l.repeater \in Parsed(conf).repeaters
    BY <1>2, <1>7 DEF Parsed
  <1>9. l.speed \in Speeds \cup {None}
    BY <1>3, <1>4, <1>7 DEF RawSpeeds, BadSpeed
  <1>10. l.client.speed \in Speeds \cup {None}
    BY <1>3, <1>4, <1>7 DEF RawSpeeds, BadSpeed, BadClient
  <1> QED BY <1>1, <1>2, <1>4, <1>5, <1>7, <1>8, <1>9, <1>10 DEF IsSequence

\* Some line comes last.
LEMMA LastIsThere ==
  ASSUME NEW conf \in Files, ~ParseErrors(conf),
         NEW T \in SUBSET Parsed(conf).lines, T # {}
  PROVE  Last(T) \in T
  <1> DEFINE E == conf.entries
  <1>1. \A l \in T : /\ l.at[1] \in 1..Len(E) /\ Len(E) \in Nat
                     /\ l.at[2] \in 1..Len(E[l.at[1]].clients)
                     /\ Len(E[l.at[1]].clients) \in Nat
                     /\ l.at[3] \in 1..Len(E[l.at[1]].clients[l.at[2]].names)
                     /\ Len(E[l.at[1]].clients[l.at[2]].names) \in Nat
    <2> SUFFICES ASSUME NEW l \in T
                 PROVE  /\ l.at[1] \in 1..Len(E) /\ Len(E) \in Nat
                        /\ l.at[2] \in 1..Len(E[l.at[1]].clients)
                        /\ Len(E[l.at[1]].clients) \in Nat
                        /\ l.at[3] \in 1..Len(E[l.at[1]].clients[l.at[2]].names)
                        /\ Len(E[l.at[1]].clients[l.at[2]].names) \in Nat
      OBVIOUS
    <2>1. l \in Parsed(conf).lines
      OBVIOUS
    <2>2. PICK i \in 1..Len(E) : \E j \in 1..Len(E[i].clients) :
                 \E k \in 1..Len(E[i].clients[j].names) :
                   l.at = <<i, j, k>> /\ Len(E) \in Nat /\ Len(E[i].clients) \in Nat
                   /\ Len(E[i].clients[j].names) \in Nat
      BY <2>1, LineFacts, Zenon
    <2>3. l.at[1] = i /\ Len(E) \in Nat /\ Len(E[i].clients) \in Nat
      BY <2>2
    <2>4. PICK j \in 1..Len(E[i].clients) : \E k \in 1..Len(E[i].clients[j].names) :
            l.at = <<i, j, k>> /\ Len(E[i].clients[j].names) \in Nat
      BY <2>2
    <2>5. l.at[2] = j /\ l.at[3] \in 1..Len(E[i].clients[j].names)
          /\ Len(E[i].clients[j].names) \in Nat
      BY <2>4
    <2> QED BY <2>3, <2>4, <2>5
  <1>2. PICK i \in {l.at[1] : l \in T} : \A x \in {l.at[1] : l \in T} : x <= i
    <2>1. {l.at[1] : l \in T} \in SUBSET Nat /\ {l.at[1] : l \in T} # {}
          /\ Len(E) \in Nat /\ \A x \in {l.at[1] : l \in T} : x <= Len(E)
      BY <1>1
    <2> QED BY <2>1, GreatestNat
  <1> DEFINE Ti == {l \in T : l.at[1] = i}
  <1>3. PICK j \in {l.at[2] : l \in Ti} : \A x \in {l.at[2] : l \in Ti} : x <= j
    <2>1. \A l \in Ti : l.at[2] \in Nat /\ l.at[2] <= Len(E[i].clients)
                        /\ Len(E[i].clients) \in Nat
      BY <1>1
    <2>2. PICK l \in T : l.at[1] = i
      BY <1>2
    <2>3. l \in Ti
      BY <2>2
    <2> HIDE DEF Ti
    <2>4. {m.at[2] : m \in Ti} \in SUBSET Nat /\ {m.at[2] : m \in Ti} # {}
          /\ Len(E[i].clients) \in Nat
          /\ \A x \in {m.at[2] : m \in Ti} : x <= Len(E[i].clients)
      BY <2>1, <2>3
    <2> QED BY <2>4, GreatestNat
  <1> DEFINE Tj == {l \in Ti : l.at[2] = j}
  <1>4. PICK k \in {l.at[3] : l \in Tj} : \A x \in {l.at[3] : l \in Tj} : x <= k
    <2>1. \A l \in Tj : l.at[3] \in Nat /\ l.at[3] <= Len(E[i].clients[j].names)
                        /\ Len(E[i].clients[j].names) \in Nat
      <3> SUFFICES ASSUME NEW l \in Tj
                   PROVE  l.at[3] \in 1..Len(E[i].clients[j].names)
                          /\ Len(E[i].clients[j].names) \in Nat
        OBVIOUS
      <3>1. l \in T /\ l.at[1] = i /\ l.at[2] = j
        OBVIOUS
      <3> HIDE DEF Ti, Tj
      <3> QED BY <1>1, <3>1
    <2>2. PICK l \in Ti : l.at[2] = j
      BY <1>3
    <2>3. l \in Tj
      BY <2>2
    <2> HIDE DEF Ti, Tj
    <2>4. {m.at[3] : m \in Tj} \in SUBSET Nat /\ {m.at[3] : m \in Tj} # {}
          /\ Len(E[i].clients[j].names) \in Nat
          /\ \A x \in {m.at[3] : m \in Tj} : x <= Len(E[i].clients[j].names)
      BY <2>1, <2>3
    <2> QED BY <2>4, GreatestNat
  <1>5. PICK l \in T : l.at[1] = i /\ l.at[2] = j /\ l.at[3] = k
    BY <1>4
  <1>6. \A m \in T : ~Later(m.at, l.at)
    <2> SUFFICES ASSUME NEW m \in T PROVE ~Later(m.at, l.at)
      OBVIOUS
    <2>1. m.at[1] <= i /\ m.at[1] \in Nat /\ i \in Nat
      BY <1>1, <1>2
    <2>2. m.at[1] = i => m.at[2] <= j /\ m.at[2] \in Nat /\ j \in Nat
      BY <1>1, <1>3
    <2>3. m.at[1] = i /\ m.at[2] = j => m.at[3] <= k /\ m.at[3] \in Nat /\ k \in Nat
      BY <1>1, <1>4
    <2> QED BY <1>5, <2>1, <2>2, <2>3 DEF Later
  <1> QED BY <1>5, <1>6 DEF Last

LEMMA LeastSpeed ==
  ASSUME NEW a \in Speeds, NEW b \in Speeds, NEW c \in Speeds
  PROVE  MinSpeed({a, b, c}) \in Speeds
  <1>1. \E s \in {a, b, c} : \A r \in {a, b, c} : s <= r
    BY DEF Speeds
  <1>2. None \notin {a, b, c}
    BY ConfigAssumption
  <1>3. (CHOOSE s \in {a, b, c} : \A r \in {a, b, c} : s <= r) \in {a, b, c}
    BY <1>1
  <1> QED BY <1>2, <1>3 DEF MinSpeed

\* What a resolved speed can be.
LEMMA SpeedOfLine ==
  ASSUME NEW conf \in Files, ~ParseErrors(conf), NEW l \in Parsed(conf).lines,
         l.client.entity \in DOMAIN Devices, l.repeater \in DOMAIN Devices
  PROVE  ResolvedSpeed(l) \in Speeds \cup {None}
  <1>1. {l.speed, l.client.speed, DefaultSpeed} \subseteq Speeds \cup {None}
    BY LineFacts, ConfigAssumption
  <1>2. CASE Given(l) = {}
    <2> DEFINE a == Devices[l.client.entity].rate
               b == Devices[l.repeater].rate
    <2>1. {a, b, ControllerSpeed} \subseteq Speeds \cup {None}
      BY ConfigAssumption
    <2>2. CASE None \in {a, b, ControllerSpeed}
      BY <1>2, <2>2 DEF ResolvedSpeed, AutoSpeed, MinSpeed
    <2>3. CASE None \notin {a, b, ControllerSpeed}
      <3>1. a \in Speeds /\ b \in Speeds /\ ControllerSpeed \in Speeds
        BY <2>1, <2>3
      <3>2. MinSpeed({a, b, ControllerSpeed}) \in Speeds
        BY <3>1, LeastSpeed
      <3> QED BY <1>2, <3>2 DEF ResolvedSpeed, AutoSpeed
    <2> QED BY <2>2, <2>3
  <1>3. CASE Given(l) # {}
    <2>1. \E k \in Given(l) : \A m \in Given(l) : k <= m
      <3>1. Given(l) \in SUBSET Nat
        BY DEF Given
      <3> QED BY <1>3, <3>1, LeastNat
    <2>2. PICK k \in Given(l) : ResolvedSpeed(l) = Explicit(l)[k]
      BY <1>3, <2>1 DEF ResolvedSpeed
    <2> QED BY <1>1, <2>2 DEF Given, Explicit
  <1> QED BY <1>2, <1>3

\* Without errors, no line is left out: that two reconciles of one file take the
\* same lines, whatever else answered.
THEOREM NoLineLost ==
  ASSUME NEW conf \in Files, ~ParseErrors(conf), NEW present,
         ~ResolveErrors(Parsed(conf), present)
  PROVE  Resolved(Parsed(conf), present) = Parsed(conf).lines
  <1>1. \A l \in Parsed(conf).lines : ~BadRepeater(l.repeater, present)
    BY LineFacts DEF ResolveErrors
  <1>2. \A l \in Parsed(conf).lines : ~BadLine(l, present)
    BY <1>1 DEF ResolveErrors
  <1> QED BY <1>1, <1>2 DEF Resolved

\* Without errors, every node of a line has a route, and every route a repeater
\* and a speed (resolve_entities reports what it cannot resolve).
THEOREM RoutesAreReal ==
  ASSUME NEW conf \in Files, ~ParseErrors(conf), NEW present \in SUBSET DOMAIN Devices,
         ~ResolveErrors(Parsed(conf), present)
  PROVE  Desired(Resolved(Parsed(conf), present)) \in
           [{NodeOf(l) : l \in Parsed(conf).lines} -> WantedRoutes]
  <1> DEFINE L == Parsed(conf).lines
  <1>1. Resolved(Parsed(conf), present) = L
    BY NoLineLost
  <1>2. \A l \in L : ~BadRepeater(l.repeater, present) /\ ~BadLine(l, present)
    BY <1>1 DEF Resolved
  <1>3. \A l \in L : ResolvedRoute(l) \in WantedRoutes
    <2> SUFFICES ASSUME NEW l \in L PROVE ResolvedRoute(l) \in WantedRoutes
      OBVIOUS
    <2>1. l.repeater \in DOMAIN Devices /\ l.client.entity \in DOMAIN Devices
          /\ ResolvedSpeed(l) # None
      BY <1>2 DEF BadRepeater, BadLine
    <2>2. ResolvedSpeed(l) \in Speeds
      BY <2>1, SpeedOfLine
    <2> QED BY <2>1, <2>2 DEF ResolvedRoute, WantedRoutes
  <1>4. ASSUME NEW n \in {NodeOf(l) : l \in L}
        PROVE  Last({l \in L : NodeOf(l) = n}) \in L
    BY <1>4, LastIsThere
  <1> QED BY <1>1, <1>3, <1>4 DEF Desired
-----------------------------------------------------------------------------
(* The reconcile: RouteManager.                                            *)

\* The reconcile, by how far it has come.
Reading ==
  /\ run.phase = "read"
  /\ run = [phase |-> "read", trigger |-> run.trigger, changed |-> run.changed,
            edited |-> run.edited]
  /\ run.trigger \in Triggers /\ run.edited \in BOOLEAN

Fetching ==
  /\ run.phase = "fetch"
  /\ run = [phase |-> "fetch", trigger |-> run.trigger, edited |-> run.edited,
            config |-> run.config]
  /\ run.trigger \in Triggers /\ run.edited \in BOOLEAN

Applying ==
  /\ run.phase = "apply"
  /\ run = [phase |-> "apply", edited |-> run.edited, config |-> run.config,
            there |-> run.there, wanted |-> run.wanted, seen |-> run.seen]
  /\ run.edited \in BOOLEAN

RunOK == run = Idle \/ Reading \/ Fetching \/ Applying

CircuitOK == circuit \in [streak : 0..Threshold, open : {None, "open", "cooled"}]

\* Timed-out calls that were scheduled are among those the breaker counts until
\* it opens; a cool-down wipes them out, and one more timeout opens it again.
StrikesOK ==
  /\ strikes \in Nat
  /\ circuit.open = None => strikes <= circuit.streak /\ circuit.streak < Threshold
  /\ circuit.open = "open" => strikes <= Threshold /\ circuit.streak = Threshold
  /\ circuit.open = "cooled" => strikes = 0 /\ circuit.streak = Threshold

\* Nothing scheduled passes the gate of an open circuit.
GateOK == run.phase = "fetch" /\ run.trigger = "periodic" => circuit.open # "open"

BackOffInv == RunOK /\ CircuitOK /\ StrikesOK /\ GateOK

MeshOK ==
  /\ live = [s \in Slots |-> live[s]]
  /\ queued = [s \in Slots |-> queued[s]]

\* Until a reconcile is recorded, what it saw of a sleeping node for which a
\* command waits is what the node has, or nothing.
SeenOK ==
  \A s \in Slots :
    run.phase = "apply" /\ Waits(s) /\ queued[s] # None => run.seen[s] \in {live[s], None}

LandedInv == RunOK /\ MeshOK /\ SeenOK /\ AppliedLanded

\* What a reconcile has read is a file without errors, and what it is about to
\* send is what that file stands for.
ConfigOK ==
  run.phase \in {"fetch", "apply"} =>
    \E f \in Files : ~ParseErrors(f) /\ run.config = Parsed(f)

PlanOK ==
  run.phase = "apply" =>
    /\ run.there \subseteq Nodes
    /\ ~ResolveErrors(run.config, Present(run.there))
    /\ run.wanted = RoutesOf(run.config, run.there)
    /\ run.seen \in [Slots -> Routes \cup {None}]

TypeInv == TypeOK /\ RunOK /\ ConfigOK /\ PlanOK

\* A command waits unchanged: the file has not changed since it was sent.
Held(s) == queued[s] # None /\ ~queued[s].free

\* What a reconcile sees that nothing is asked of.
Settled(s) ==
  LET wanted == Desired(Parsed(file).lines)
  IN s[1] \notin DOMAIN wanted \/ MatchesRoute(live[s], wanted[s[1]])

FileOK ==
  run.phase \in {"fetch", "apply"} /\ (\E s \in Slots : Held(s)) =>
    ~ParseErrors(file) /\ run.config = Parsed(file)

HeldOK ==
  \A s \in Slots :
    /\ queued[s] # None => Waits(s)
    /\ Held(s) =>
         \/ pending[s] # None /\ pending[s].to = queued[s].to /\ ~pending[s].overdue
         \/ Settled(s)

ResendInv == TypeInv /\ LandedInv /\ FileOK /\ HeldOK
-----------------------------------------------------------------------------
\* What an edit of the file leaves of the reconcile.
LEMMA EditKeepsRun ==
  ASSUME RunOK, run # Idle, run' = [run EXCEPT !.edited = TRUE]
  PROVE  /\ RunOK'
         /\ run'.phase = run.phase
         /\ Reading => run'.trigger = run.trigger
         /\ Fetching => run'.trigger = run.trigger /\ run'.config = run.config
         /\ Applying => /\ run'.there = run.there /\ run'.wanted = run.wanted
                        /\ run'.seen = run.seen /\ run'.config = run.config
  <1>1. CASE Reading
    <2>1. PICK t, c, e : run = [phase |-> "read", trigger |-> t, changed |-> c, edited |-> e]
      BY <1>1 DEF Reading
    <2>2. run' = [phase |-> "read", trigger |-> run.trigger, changed |-> run.changed,
                  edited |-> TRUE]
      BY <2>1
    <2>3. run.phase = "read" /\ run'.phase = "read" /\ run'.trigger = run.trigger
          /\ run'.changed = run.changed /\ run'.edited = TRUE
      BY <1>1, <2>2 DEF Reading
    <2>4. Reading'
      BY <1>1, <2>2, <2>3 DEF Reading
    <2> QED BY <2>3, <2>4 DEF RunOK, Fetching, Applying
  <1>2. CASE Fetching
    <2>1. PICK t, e, c : run = [phase |-> "fetch", trigger |-> t, edited |-> e, config |-> c]
      BY <1>2 DEF Fetching
    <2>2. run' = [phase |-> "fetch", trigger |-> run.trigger, edited |-> TRUE,
                  config |-> run.config]
      BY <2>1
    <2>3. run.phase = "fetch" /\ run'.phase = "fetch" /\ run'.trigger = run.trigger
          /\ run'.config = run.config /\ run'.edited = TRUE
      BY <1>2, <2>2 DEF Fetching
    <2>4. Fetching'
      BY <1>2, <2>2, <2>3 DEF Fetching
    <2> QED BY <2>3, <2>4 DEF RunOK, Reading, Applying
  <1>3. CASE Applying
    <2>1. PICK e, c, h, w, n : run = [phase |-> "apply", edited |-> e, config |-> c,
                                      there |-> h, wanted |-> w, seen |-> n]
      BY <1>3 DEF Applying
    <2>2. run' = [phase |-> "apply", edited |-> TRUE, config |-> run.config,
                  there |-> run.there, wanted |-> run.wanted, seen |-> run.seen]
      BY <2>1
    <2>3. run.phase = "apply" /\ run'.phase = "apply" /\ run'.edited = TRUE
          /\ run'.config = run.config /\ run'.there = run.there
          /\ run'.wanted = run.wanted /\ run'.seen = run.seen
      BY <1>3, <2>2 DEF Applying
    <2>4. Applying'
      BY <2>2, <2>3 DEF Applying
    <2> QED BY <2>3, <2>4 DEF RunOK, Reading, Fetching
  <1> QED BY <1>1, <1>2, <1>3 DEF RunOK

LEMMA RunInit == Init => RunOK
  BY DEF Init, RunOK

\* The shape of the next state's reconcile.
LEMMA RunStep == RunOK /\ [Next]_vars => RunOK'
  <1> SUFFICES ASSUME RunOK, [Next]_vars PROVE RunOK'
    OBVIOUS
  <1>1. ASSUME NEW trigger \in Triggers, Begin(trigger) PROVE RunOK'
    <2>1. run' = [phase |-> "read", trigger |-> trigger, changed |-> changed,
                  edited |-> FALSE]
      BY <1>1 DEF Begin
    <2>2. run'.trigger = trigger /\ run'.changed = changed /\ run'.edited = FALSE
      BY <2>1
    <2>3. Reading'
      BY <2>1, <2>2 DEF Reading
    <2> QED BY <2>3 DEF RunOK
  <1>2. ASSUME ReadConfig PROVE RunOK'
    <2>1. CASE run' = Idle
      BY <2>1 DEF RunOK
    <2>2. CASE run' = [phase |-> "fetch", trigger |-> run.trigger,
                       edited |-> run.edited, config |-> Parsed(file)]
      <3>1. run.trigger \in Triggers /\ run.edited \in BOOLEAN
        <4>1. run # Idle /\ ~Fetching /\ ~Applying
          BY <1>2 DEF ReadConfig, Idle, Fetching, Applying
        <4> QED BY <4>1 DEF RunOK, Reading
      <3>2. run'.trigger = run.trigger /\ run'.edited = run.edited
            /\ run'.config = Parsed(file)
        BY <2>2
      <3>3. Fetching'
        BY <2>2, <3>1, <3>2 DEF Fetching
      <3> QED BY <3>3 DEF RunOK
    <2> QED BY <1>2, <2>1, <2>2 DEF ReadConfig, Bail
  <1>3. ASSUME FetchTimesOut \/ FetchRefused \/ FetchMismatch \/ ApplyRefused PROVE RunOK'
    BY <1>3 DEF FetchTimesOut, FetchRefused, FetchMismatch, ApplyRefused, Bail, RunOK
  <1>4. ASSUME NEW there, NEW unread, Fetch(there, unread) PROVE RunOK'
    <2>1. run.edited \in BOOLEAN
      <3>1. Fetching
        BY <1>4 DEF Fetch, RunOK, Idle, Reading, Applying
      <3> QED BY <3>1 DEF Fetching
    <2>2. CASE run' = Idle
      BY <2>2 DEF RunOK
    <2>3. ASSUME NEW wanted, NEW seen,
                 run' = [phase |-> "apply", edited |-> run.edited, config |-> run.config,
                         there |-> there, wanted |-> wanted, seen |-> seen]
          PROVE RunOK'
      <3>1. run'.edited = run.edited /\ run'.config = run.config /\ run'.there = there
            /\ run'.wanted = wanted /\ run'.seen = seen
        BY <2>3
      <3>2. Applying'
        BY <2>1, <2>3, <3>1 DEF Applying
      <3> QED BY <3>2 DEF RunOK
    <2> QED BY <1>4, <2>2, <2>3 DEF Fetch, Bail
  <1>5. ASSUME NEW lost, NEW arrived, Apply(lost, arrived) PROVE RunOK'
    BY <1>5 DEF Apply, Finish, RunOK
  <1>6. ASSUME NEW rejected, ApplyRejected(rejected) PROVE RunOK'
    BY <1>6 DEF ApplyRejected, Bail, RunOK
  <1>7. ASSUME NEW sent, ApplyCut(sent) PROVE RunOK'
    BY <1>7 DEF ApplyCut, RunOK
  <1>8. ASSUME Edit PROVE RunOK'
    <2>1. CASE run = Idle
      BY <1>8, <2>1 DEF Edit, RunOK
    <2>2. CASE run # Idle
      BY <1>8, <2>2, EditKeepsRun DEF Edit
    <2> QED BY <2>1, <2>2
  <1>9. ASSUME Reload \/ Restart PROVE RunOK'
    BY <1>9 DEF Reload, Restart, Forget, RunOK
  <1>10. ASSUME UNCHANGED run PROVE RunOK'
    BY <1>10 DEF RunOK, Reading, Fetching, Applying
  <1>11. ASSUME Time PROVE UNCHANGED run
    BY <1>11 DEF Time, IntervalElapses, RequestOverdue, CircuitCools
  <1>12. ASSUME NEW s \in Slots, NEW route, HandEdit(s, route) \/ Wake(s) PROVE UNCHANGED run
    BY <1>12 DEF HandEdit, Wake
  <1>13. ASSUME DropQueue \/ CalmDown PROVE UNCHANGED run
    BY <1>13 DEF DropQueue, CalmDown
  <1>14. ASSUME Steps PROVE RunOK'
    BY <1>14, <1>1, <1>2, <1>3, <1>4, <1>5, <1>6, <1>7 DEF Steps, Triggers
  <1>15. ASSUME World PROVE RunOK'
    BY <1>15, <1>1, <1>8, <1>9, <1>10, <1>12, <1>13 DEF World, Triggers
  <1> QED BY <1>10, <1>11, <1>14, <1>15 DEF Next, vars
-----------------------------------------------------------------------------
(* The types.                                                              *)

\* What the reconcile wants of a node that is listed is a real route.
LEMMA WantedFacts ==
  ASSUME TypeInv, run.phase = "apply"
  PROVE  /\ run.wanted \in [{NodeOf(l) : l \in run.config.lines} -> [to : Routes, auto : BOOLEAN]]
         /\ run.wanted = Desired(run.config.lines)
         /\ DOMAIN run.wanted \subseteq run.there
         /\ \A s \in Slots : Listed(s) => Intent(s) \in Routes
         /\ \A s \in Slots : Intent(s) \in Targets
  <1>1. PICK f \in Files : ~ParseErrors(f) /\ run.config = Parsed(f)
    BY DEF TypeInv, ConfigOK
  <1>2. Present(run.there) \in SUBSET DOMAIN Devices
        /\ ~ResolveErrors(Parsed(f), Present(run.there))
        /\ run.wanted = Desired(Resolved(Parsed(f), Present(run.there)))
    BY <1>1 DEF TypeInv, PlanOK, RoutesOf, Present
  <1>3. run.wanted \in [{NodeOf(l) : l \in run.config.lines} -> WantedRoutes]
    BY <1>1, <1>2, RoutesAreReal
  <1>4. run.wanted = Desired(run.config.lines)
    BY <1>1, <1>2, NoLineLost
  <1>5. DOMAIN run.wanted \subseteq run.there
    <2>1. \A l \in run.config.lines : l.client.entity \in Present(run.there)
      BY <1>1, <1>2, NoLineLost DEF Resolved, BadLine
    <2>2. \A l \in run.config.lines : NodeOf(l) \in run.there
      BY <2>1 DEF Present, NodeOf
    <2> QED BY <1>3, <2>2
  <1>6. WantedRoutes = [to : Routes, auto : BOOLEAN]
    BY DEF WantedRoutes, Routes, Nodes
  <1>7. \A s \in Slots : Listed(s) => Intent(s) \in Routes
    BY <1>3, <1>6 DEF Listed, Intent
  <1>8. \A s \in Slots : Intent(s) \in Targets
    BY <1>7 DEF Intent, Targets
  <1> QED BY <1>3, <1>4, <1>6, <1>7, <1>8, <1>5

LEMMA LandedType ==
  ASSUME NEW s \in Slots, NEW to \in Targets
  PROVE  Landed(s, to) \in Targets
  <1>1. CASE to = None
    BY <1>1 DEF Landed, Targets
  <1>2. CASE to # None
    <2>1. to \in [via : Nodes, speed : Speeds] /\ Negotiated[s[1]] \in Speeds
      BY <1>2, RouteAssumption DEF Targets, Routes, Slots
    <2>2. Slower(to.speed, Negotiated[s[1]]) \in Speeds
      BY <2>1 DEF Slower
    <2> QED BY <1>2, <2>1, <2>2 DEF Landed, Targets, Routes
  <1> QED BY <1>1, <1>2

LEMMA SendTypes ==
  ASSUME TypeInv, run.phase = "apply", NEW S, Send(S)
  PROVE  live' \in [Slots -> Targets] /\ queued' \in [Slots -> Commands \cup {None}]
  <1>1. \A s \in Slots : Intent(s) \in Targets
    BY WantedFacts
  <1>2. \A s \in Slots : Landed(s, Intent(s)) \in Targets
    BY <1>1, LandedType
  <1>3. \A s \in Slots : live[s] \in Targets /\ queued[s] \in Commands \cup {None}
    BY DEF TypeInv, TypeOK
  <1>4. live' \in [Slots -> Targets]
    BY <1>2, <1>3 DEF Send
  <1>5. queued' \in [Slots -> Commands \cup {None}]
    BY <1>1, <1>3 DEF Send, Commands
  <1> QED BY <1>4, <1>5

LEMMA RecordTypes ==
  ASSUME TypeInv, run.phase = "apply", NEW failed, Record(failed)
  PROVE  pending' \in [Slots -> Requests \cup {None}] /\ applied' \in [Slots -> Targets]
  <1>1. \A s \in Slots : Intent(s) \in Targets /\ pending[s] \in Requests \cup {None}
    BY WantedFacts DEF TypeInv, TypeOK
  <1>2. \A s \in Slots : NewPending(s) \in Requests \cup {None}
    BY <1>1 DEF NewPending, Request, Requests
  <1>3. \A s \in Slots : NewApplied(s) \in Targets
    BY <1>1 DEF NewApplied, Targets
  <1>4. pending' \in [Slots -> Requests \cup {None}]
    BY <1>2 DEF Record
  <1>5. \A s \in Slots : NewPending(s) # None => NewPending(s).to \in Targets
    BY <1>2 DEF Requests
  <1>6. applied' \in [Slots -> Targets]
    BY <1>3, <1>5 DEF Record
  <1> QED BY <1>4, <1>6

LEMMA FreedType ==
  ASSUME TypeOK PROVE [s \in Slots |-> Freed(s)] \in [Slots -> Commands \cup {None}]
  <1>1. ASSUME NEW s \in Slots PROVE Freed(s) \in Commands \cup {None}
    <2>1. queued[s] \in Commands \cup {None}
      BY DEF TypeOK
    <2> QED BY <2>1 DEF Freed, Commands
  <1> QED BY <1>1

\* Notifications that a reconcile shows exist.
LEMMA NotesType ==
  /\ {<<"config">>, <<"api">>, <<"breaker">>, <<"crash">>} \subseteq Notes
  /\ \A S \in SUBSET Slots : {<<"apply", s[1]>> : s \in S} \subseteq Notes
  BY DEF Notes, Slots

LEMMA TypeInit == Init => TypeOK /\ ConfigOK /\ PlanOK
  <1> SUFFICES ASSUME Init PROVE TypeOK /\ ConfigOK /\ PlanOK
    OBVIOUS
  <1>1. live \in [Slots -> Targets]
    BY RouteAssumption DEF Init, Targets
  <1>2. queued \in [Slots -> Commands \cup {None}] /\ applied \in [Slots -> Targets]
        /\ pending \in [Slots -> Requests \cup {None}]
    BY DEF Init, Targets
  <1>3. /\ circuit \in [streak : 0..Threshold, open : {None, "open", "cooled"}]
        /\ strikes \in 0..Threshold + 1
    BY RouteAssumption DEF Init
  <1>4. run.phase = "idle"
    BY DEF Init, Idle
  <1>5. file \in Files /\ changed \in BOOLEAN /\ elapsed \in BOOLEAN /\ again \in BOOLEAN
        /\ notes \subseteq Notes /\ calm \in BOOLEAN
    BY DEF Init
  <1> QED BY <1>1, <1>2, <1>3, <1>4, <1>5 DEF TypeOK, ConfigOK, PlanOK

LEMMA TypeStep == TypeInv /\ [Next]_vars => TypeOK'
  <1> SUFFICES ASSUME TypeInv, [Next]_vars PROVE TypeOK'
    OBVIOUS
  <1> USE DEF TypeInv
  <1>1. run'.phase \in {"idle", "read", "fetch", "apply"}
    BY RunStep DEF RunOK, Idle, Reading, Fetching, Applying
  <1> USE <1>1
  <1>2. ASSUME NEW trigger \in Triggers, Begin(trigger) PROVE TypeOK'
    BY <1>2 DEF Begin, mesh, inst, TypeOK
  <1>3. ASSUME ReadConfig PROVE TypeOK'
    <2>1. notes' \subseteq Notes /\ again' \in BOOLEAN
      BY <1>3, NotesType DEF ReadConfig, Show, ShowOnly, Bail, TypeOK
    <2> QED BY <1>3, <2>1 DEF ReadConfig, mesh, TypeOK
  <1>4. ASSUME FetchTimesOut PROVE TypeOK'
    <2>1. notes' \subseteq Notes /\ again' \in BOOLEAN
      BY <1>4, NotesType DEF FetchTimesOut, Show, Bail, TypeOK
    <2>2. strikes' \in 0..Threshold + 1
      BY <1>4, RouteAssumption DEF FetchTimesOut, TypeOK
    <2>3. Streak \in 0..Threshold
      <3>1. circuit.streak \in 0..Threshold
        BY DEF TypeOK
      <3> QED BY <3>1, RouteAssumption DEF Streak
    <2>4. circuit' \in [streak : 0..Threshold, open : {None, "open", "cooled"}]
      BY <1>4, <2>3 DEF FetchTimesOut, AfterTimeout, TypeOK
    <2> QED BY <1>4, <2>1, <2>2, <2>4 DEF FetchTimesOut, mesh, TypeOK
  <1>5. ASSUME FetchRefused \/ ApplyRefused PROVE TypeOK'
    <2>1. notes' \subseteq Notes /\ again' \in BOOLEAN
      BY <1>5, NotesType DEF FetchRefused, ApplyRefused, Show, Bail, TypeOK
    <2> QED BY <1>5, <2>1 DEF FetchRefused, ApplyRefused, mesh, TypeOK
  <1>6. ASSUME Reached
        PROVE  /\ circuit' \in [streak : 0..Threshold, open : {None, "open", "cooled"}]
               /\ strikes' \in 0..Threshold + 1
    BY <1>6, RouteAssumption DEF Reached
  <1>7. ASSUME FetchMismatch PROVE TypeOK'
    <2>1. notes' \subseteq Notes /\ again' \in BOOLEAN
      BY <1>7, NotesType DEF FetchMismatch, ShowOnly, Bail
    <2> QED BY <1>6, <1>7, <2>1 DEF FetchMismatch, mesh, TypeOK
  <1>8. ASSUME NEW there, NEW unread, Fetch(there, unread) PROVE TypeOK'
    <2>1. notes' \subseteq Notes /\ again' \in BOOLEAN
      BY <1>8, NotesType DEF Fetch, ShowOnly, Bail, TypeOK
    <2> QED BY <1>6, <1>8, <2>1 DEF Fetch, mesh, TypeOK
  <1>9. ASSUME NEW lost \in SUBSET {s \in Slots : run.phase = "apply" /\ s \in Actions
                                                  /\ s[1] \notin Sleepy},
               NEW arrived \in SUBSET lost, Apply(lost, arrived)
        PROVE  TypeOK'
    <2>1. live' \in [Slots -> Targets] /\ queued' \in [Slots -> Commands \cup {None}]
      BY <1>9, SendTypes DEF Apply, Finish
    <2>2. pending' \in [Slots -> Requests \cup {None}] /\ applied' \in [Slots -> Targets]
      BY <1>9, RecordTypes DEF Apply, Finish
    <2>3. notes' \subseteq Notes
      BY <1>9, NotesType DEF Apply, Finish, ShowOnly
    <2>4. changed' \in BOOLEAN
      <3>1. Applying
        BY <1>9 DEF Apply, Finish, RunOK, Idle, Reading, Fetching
      <3> QED BY <1>9, <3>1 DEF Apply, Finish, Applying
    <2> QED BY <1>9, <2>1, <2>2, <2>3, <2>4 DEF Apply, Finish, TypeOK
  <1>10. ASSUME NEW rejected, ApplyRejected(rejected) PROVE TypeOK'
    <2>1. live' \in [Slots -> Targets] /\ queued' \in [Slots -> Commands \cup {None}]
      BY <1>10, SendTypes DEF ApplyRejected
    <2>2. notes' \subseteq Notes /\ again' \in BOOLEAN
      BY <1>10, NotesType DEF ApplyRejected, ShowOnly, Bail
    <2> QED BY <1>10, <2>1, <2>2 DEF ApplyRejected, TypeOK
  <1>11. ASSUME NEW sent, ApplyCut(sent) PROVE TypeOK'
    <2>1. live' \in [Slots -> Targets] /\ queued' \in [Slots -> Commands \cup {None}]
      BY <1>11, SendTypes DEF ApplyCut
    <2>2. notes' \subseteq Notes
      BY <1>11, NotesType DEF ApplyCut, TypeOK
    <2> QED BY <1>11, <2>1, <2>2 DEF ApplyCut, inst, TypeOK
  <1>12. ASSUME Edit PROVE TypeOK'
    <2>1. queued' \in [Slots -> Commands \cup {None}]
      BY <1>12, FreedType DEF Edit
    <2> QED BY <1>12, <2>1 DEF Edit, TypeOK
  <1>13. ASSUME NEW s \in Slots, NEW route \in HandRoutes \cup {None}, HandEdit(s, route)
         PROVE  TypeOK'
    <2>1. live' \in [Slots -> Targets]
      BY <1>13, RouteAssumption DEF HandEdit, TypeOK, Targets
    <2> QED BY <1>13, <2>1 DEF HandEdit, inst, TypeOK
  <1>14. ASSUME NEW s \in Slots, Wake(s) PROVE TypeOK'
    <2>1. queued[s].to \in Targets
      BY <1>14 DEF Wake, TypeOK, Commands
    <2>2. live' \in [Slots -> Targets] /\ queued' \in [Slots -> Commands \cup {None}]
      BY <1>14, <2>1, LandedType DEF Wake, TypeOK
    <2> QED BY <1>14, <2>2 DEF Wake, inst, TypeOK
  <1>15. ASSUME DropQueue PROVE TypeOK'
    BY <1>15 DEF DropQueue, inst, TypeOK
  <1>16. ASSUME IntervalElapses \/ CalmDown PROVE TypeOK'
    BY <1>16 DEF IntervalElapses, CalmDown, mesh, inst, TypeOK
  <1>17. ASSUME NEW s \in Slots, RequestOverdue(s) PROVE TypeOK'
    <2>1. pending' \in [Slots -> Requests \cup {None}]
      <3>1. pending[s] \in Requests
        BY <1>17 DEF RequestOverdue, TypeOK
      <3>2. [pending[s] EXCEPT !.overdue = TRUE] \in Requests
        BY <3>1 DEF Requests
      <3> QED BY <1>17, <3>2 DEF RequestOverdue, TypeOK
    <2>2. queued' \in [Slots -> Commands \cup {None}]
      <3>1. Freed(s) \in Commands \cup {None}
        BY FreedType
      <3> QED BY <1>17, <3>1 DEF RequestOverdue, TypeOK
    <2> QED BY <1>17, <2>1, <2>2 DEF RequestOverdue, TypeOK
  <1>18. ASSUME CircuitCools PROVE TypeOK'
    <2>1. circuit' \in [streak : 0..Threshold, open : {None, "open", "cooled"}]
      BY <1>18 DEF CircuitCools, TypeOK
    <2> QED BY <1>18, <2>1, RouteAssumption DEF CircuitCools, mesh, TypeOK
  <1>19. ASSUME Reload \/ Restart PROVE TypeOK'
    <2>1. Forget
      BY <1>19 DEF Reload, Restart
    <2>2. queued' \in [Slots -> Commands \cup {None}]
      BY <2>1, FreedType DEF Forget
    <2>3. /\ circuit' \in [streak : 0..Threshold, open : {None, "open", "cooled"}]
          /\ strikes' \in 0..Threshold + 1
      BY <2>1, RouteAssumption DEF Forget
    <2>4. pending' \in [Slots -> Requests \cup {None}] /\ applied' \in [Slots -> Targets]
      BY <2>1 DEF Forget, Targets
    <2> QED BY <1>19, <2>1, <2>2, <2>3, <2>4 DEF Reload, Restart, Forget, TypeOK
  <1>20. ASSUME UNCHANGED vars PROVE TypeOK'
    BY <1>20 DEF vars, TypeOK
  <1>21. ASSUME Steps PROVE TypeOK'
    BY <1>21, <1>2, <1>3, <1>4, <1>5, <1>7, <1>8, <1>9, <1>10, <1>11 DEF Steps, Triggers
  <1>22. ASSUME Time PROVE TypeOK'
    BY <1>22, <1>16, <1>17, <1>18 DEF Time
  <1>23. ASSUME World PROVE TypeOK'
    BY <1>23, <1>2, <1>12, <1>13, <1>14, <1>15, <1>16, <1>19 DEF World, Triggers
  <1> QED BY <1>20, <1>21, <1>22, <1>23 DEF Next

\* A reconcile keeps what it has read, and plans from it.
LEMMA PlanStep == TypeInv /\ [Next]_vars => ConfigOK' /\ PlanOK'
  <1> SUFFICES ASSUME TypeInv, [Next]_vars PROVE ConfigOK' /\ PlanOK'
    OBVIOUS
  <1> USE DEF TypeInv
  <1>1. ASSUME run'.phase \notin {"fetch", "apply"} PROVE ConfigOK' /\ PlanOK'
    BY <1>1 DEF ConfigOK, PlanOK
  <1>2. ASSUME run' = Idle PROVE ConfigOK' /\ PlanOK'
    BY <1>1, <1>2 DEF Idle
  <1>3. ASSUME NEW trigger, Begin(trigger) PROVE ConfigOK' /\ PlanOK'
    BY <1>1, <1>3 DEF Begin
  <1>4. ASSUME ReadConfig PROVE ConfigOK' /\ PlanOK'
    <2>1. CASE run' = Idle
      BY <1>2, <2>1
    <2>2. CASE run'.phase = "fetch" /\ run'.config = Parsed(file) /\ ~ParseErrors(file)
      BY <2>2 DEF ConfigOK, PlanOK, TypeOK
    <2> QED BY <1>4, <2>1, <2>2 DEF ReadConfig, Bail
  <1>5. ASSUME NEW there \in SUBSET Nodes, NEW unread, Fetch(there, unread)
        PROVE  ConfigOK' /\ PlanOK'
    <2>1. CASE run' = Idle
      BY <1>2, <2>1
    <2>2. CASE run' # Idle
      <3>1. /\ run'.phase = "apply" /\ run'.config = run.config /\ run'.there = there
            /\ run'.wanted = RoutesOf(run.config, there)
            /\ run'.seen = [s \in Slots |-> IF s \in unread THEN None ELSE live[s]]
            /\ ~ResolveErrors(run.config, Present(there))
        BY <1>5, <2>2 DEF Fetch, Bail
      <3>2. run'.seen \in [Slots -> Routes \cup {None}]
        BY <3>1 DEF TypeOK, Targets
      <3>3. ConfigOK'
        BY <1>5, <3>1 DEF Fetch, ConfigOK
      <3> QED BY <3>1, <3>2, <3>3 DEF PlanOK, RoutesOf
    <2> QED BY <2>1, <2>2
  <1>6. ASSUME Edit PROVE ConfigOK' /\ PlanOK'
    <2>1. CASE run = Idle
      BY <1>2, <1>6, <2>1 DEF Edit
    <2>2. CASE run # Idle
      <3>1. /\ run'.phase = run.phase
            /\ Fetching => run'.config = run.config
            /\ Applying => /\ run'.there = run.there /\ run'.wanted = run.wanted
                           /\ run'.seen = run.seen /\ run'.config = run.config
        BY <1>6, <2>2, EditKeepsRun DEF Edit
      <3>2. (run.phase = "fetch" => Fetching) /\ (run.phase = "apply" => Applying)
        BY <2>2 DEF RunOK, Reading, Fetching, Applying
      <3>3. ConfigOK'
        BY <3>1, <3>2 DEF ConfigOK
      <3>4. PlanOK'
        BY <3>1, <3>2 DEF PlanOK, RoutesOf
      <3> QED BY <3>3, <3>4
    <2> QED BY <2>1, <2>2
  <1>7. ASSUME UNCHANGED run PROVE ConfigOK' /\ PlanOK'
    <2>1. ConfigOK'
      BY <1>7 DEF ConfigOK
    <2>2. PlanOK'
      BY <1>7 DEF PlanOK, RoutesOf
    <2> QED BY <2>1, <2>2
  <1>8. ASSUME Steps PROVE ConfigOK' /\ PlanOK'
    <2>1. ASSUME FetchTimesOut \/ FetchRefused \/ FetchMismatch \/ ApplyRefused PROVE run' = Idle
      BY <2>1 DEF FetchTimesOut, FetchRefused, FetchMismatch, ApplyRefused, Bail
    <2>2. ASSUME NEW X, NEW Y, Apply(X, Y) \/ ApplyRejected(X) \/ ApplyCut(X) PROVE run' = Idle
      BY <2>2 DEF Apply, Finish, ApplyRejected, ApplyCut, Bail
    <2>3. ASSUME NEW there \in IF May("gone") THEN SUBSET Nodes ELSE {Nodes}, NEW unread,
                 Fetch(there, unread)
          PROVE  ConfigOK' /\ PlanOK'
      BY <1>5, <2>3
    <2> QED BY <1>2, <1>3, <1>4, <1>8, <2>1, <2>2, <2>3 DEF Steps
  <1>9. ASSUME Time PROVE ConfigOK' /\ PlanOK'
    BY <1>7, <1>9 DEF Time, IntervalElapses, RequestOverdue, CircuitCools
  <1>10. ASSUME World PROVE ConfigOK' /\ PlanOK'
    <2>1. ASSUME NEW s \in Slots, NEW route, HandEdit(s, route) \/ Wake(s) PROVE UNCHANGED run
      BY <2>1 DEF HandEdit, Wake
    <2>2. ASSUME DropQueue \/ CalmDown PROVE UNCHANGED run
      BY <2>2 DEF DropQueue, CalmDown
    <2>3. ASSUME Reload \/ Restart PROVE run' = Idle
      BY <2>3 DEF Reload, Restart, Forget
    <2> QED BY <1>2, <1>3, <1>6, <1>7, <1>10, <2>1, <2>2, <2>3 DEF World
  <1> QED BY <1>7, <1>8, <1>9, <1>10 DEF Next, vars

LEMMA TypeInvariant == Spec => []TypeInv
  <1>1. Init => TypeInv
    BY RunInit, TypeInit DEF TypeInv
  <1>2. TypeInv /\ [Next]_vars => TypeInv'
    BY RunStep, TypeStep, PlanStep DEF TypeInv
  <1> QED BY <1>1, <1>2, PTL DEF Spec

\* The state of an instance and of the mesh keeps its types: no clamped speed
\* that is none, no pending request or applied route that is no route.
THEOREM TypeCorrect == Spec => []TypeOK
  BY TypeInvariant, PTL DEF TypeInv

\* No route of a node is ever cleared that the file just read has a line for, for
\* every file and whatever the controller leaves out of its answer: with a node
\* or an entity missing resolve_entities finds an error, and _do_reconcile ends
\* before diff_and_plan; without one every line gives a route.
THEOREM ListedAreSpared == Spec => []ListedNeverCleared
  <1>1. TypeInv => ListedNeverCleared
    <2> SUFFICES ASSUME TypeInv, run.phase = "apply", NEW s \in Actions,
                        s[1] \in NodesOf(run.config)
                 PROVE  Intent(s) # None
      BY DEF ListedNeverCleared
    <2>1. PICK l \in run.config.lines : NodeOf(l) = s[1]
      BY DEF NodesOf, NodeOf
    <2>2. Listed(s) /\ s \in Slots
      BY <2>1, WantedFacts DEF Listed, Actions, Unmatched, Considered
    <2>3. Intent(s) \in Routes
      BY <2>2, WantedFacts
    <2> QED BY <2>3, RouteAssumption
  <1> QED BY <1>1, TypeInvariant, PTL
-----------------------------------------------------------------------------
(* The breaker.                                                            *)

\* What the breaker's invariant rests on besides the shape of the reconcile.
LEMMA BreakerInit == Init => CircuitOK /\ StrikesOK /\ GateOK
  BY RouteAssumption DEF Init, CircuitOK, StrikesOK, GateOK, Idle

\* A step that leaves the breaker alone, and starts no call behind a closed gate.
LEMMA BreakerKept ==
  ASSUME CircuitOK, StrikesOK, UNCHANGED <<circuit, strikes>>
  PROVE  CircuitOK' /\ StrikesOK'
  BY DEF CircuitOK, StrikesOK

LEMMA BreakerClosed ==
  ASSUME circuit' = [streak |-> 0, open |-> None], strikes' = 0
  PROVE  CircuitOK' /\ StrikesOK' /\ GateOK'
  BY RouteAssumption DEF CircuitOK, StrikesOK, GateOK

LEMMA BreakerStep == BackOffInv /\ [Next]_vars => CircuitOK' /\ StrikesOK' /\ GateOK'
  <1> SUFFICES ASSUME BackOffInv, [Next]_vars PROVE CircuitOK' /\ StrikesOK' /\ GateOK'
    OBVIOUS
  <1> USE DEF BackOffInv
  <1>1. ASSUME NEW trigger \in Triggers, Begin(trigger) PROVE CircuitOK' /\ StrikesOK' /\ GateOK'
    BY <1>1, BreakerKept DEF Begin, inst, GateOK
  <1>2. ASSUME ReadConfig PROVE CircuitOK' /\ StrikesOK' /\ GateOK'
    <2>1. CircuitOK' /\ StrikesOK'
      BY <1>2, BreakerKept DEF ReadConfig
    <2>2. CASE run' = Idle
      BY <2>1, <2>2 DEF GateOK, Idle
    <2>3. CASE run' = [phase |-> "fetch", trigger |-> run.trigger,
                       edited |-> run.edited, config |-> Parsed(file)]
               /\ (circuit.open # "open" \/ run.trigger = "manual")
      BY <1>2, <2>1, <2>3 DEF GateOK, ReadConfig
    <2> QED BY <1>2, <2>2, <2>3 DEF ReadConfig, Bail
  <1>3. ASSUME FetchTimesOut PROVE CircuitOK' /\ StrikesOK' /\ GateOK'
    <2>1. circuit.streak \in Nat /\ circuit.streak <= Threshold /\ Threshold \in Nat \ {0}
          /\ circuit.open \in {None, "open", "cooled"} /\ None \notin {"open", "cooled"}
      BY RouteAssumption DEF CircuitOK
    <2>2. circuit'.streak = Streak /\ circuit'.open = IF Trips THEN "open" ELSE circuit.open
      BY <1>3 DEF FetchTimesOut, AfterTimeout
    <2>3. CircuitOK'
      <3>1. Streak \in 0..Threshold
        BY <2>1 DEF Streak
      <3> QED BY <1>3, <2>1, <3>1 DEF FetchTimesOut, AfterTimeout, CircuitOK
    <2>4. GateOK'
      BY <1>3 DEF FetchTimesOut, Bail, Idle, GateOK
    <2>5. StrikesOK'
      <3>1. strikes' = IF run.trigger = "periodic" /\ strikes <= Threshold
                       THEN strikes + 1 ELSE strikes
        BY <1>3 DEF FetchTimesOut
      <3>2. run.trigger = "periodic" => circuit.open # "open"
        BY <1>3 DEF FetchTimesOut, GateOK
      <3>3. CASE Trips
        <4>1. circuit'.open = "open" /\ circuit'.streak = Threshold
          BY <2>1, <2>2, <3>3 DEF Trips, Streak
        <4>2. strikes' \in Nat /\ strikes' <= Threshold
          BY <2>1, <3>1, <3>2 DEF StrikesOK
        <4> QED BY <2>1, <4>1, <4>2 DEF StrikesOK
      <3>4. CASE ~Trips
        <4>1. circuit'.open = circuit.open /\ circuit'.streak = circuit.streak + 1
              /\ circuit.streak + 1 < Threshold
          BY <2>1, <2>2, <3>4 DEF Trips, Streak
        <4> QED BY <2>1, <3>1, <3>2, <4>1 DEF StrikesOK
      <3> QED BY <3>3, <3>4
    <2> QED BY <2>3, <2>4, <2>5
  <1>4. ASSUME FetchRefused \/ ApplyRefused PROVE CircuitOK' /\ StrikesOK' /\ GateOK'
    BY <1>4, BreakerKept DEF FetchRefused, ApplyRefused, Bail, Idle, GateOK
  <1>5. ASSUME FetchMismatch PROVE CircuitOK' /\ StrikesOK' /\ GateOK'
    BY <1>5, BreakerClosed DEF FetchMismatch, Reached
  <1>6. ASSUME NEW there, NEW unread, Fetch(there, unread)
        PROVE CircuitOK' /\ StrikesOK' /\ GateOK'
    BY <1>6, BreakerClosed DEF Fetch, Reached
  <1>7. ASSUME NEW lost, NEW arrived, Apply(lost, arrived)
        PROVE CircuitOK' /\ StrikesOK' /\ GateOK'
    BY <1>7, BreakerKept DEF Apply, Finish, Idle, GateOK
  <1>8. ASSUME NEW rejected, ApplyRejected(rejected)
        PROVE CircuitOK' /\ StrikesOK' /\ GateOK'
    BY <1>8, BreakerKept DEF ApplyRejected, Bail, Idle, GateOK
  <1>9. ASSUME NEW sent, ApplyCut(sent) PROVE CircuitOK' /\ StrikesOK' /\ GateOK'
    BY <1>9, BreakerKept DEF ApplyCut, inst, Idle, GateOK
  <1>10. ASSUME Edit PROVE CircuitOK' /\ StrikesOK' /\ GateOK'
    <2>1. CircuitOK' /\ StrikesOK'
      BY <1>10, BreakerKept DEF Edit
    <2>2. CASE run = Idle
      BY <1>10, <2>1, <2>2 DEF Edit, Idle, GateOK
    <2>3. CASE run # Idle
      <3>1. run'.phase = run.phase /\ (Fetching => run'.trigger = run.trigger)
        BY <1>10, <2>3, EditKeepsRun DEF Edit
      <3>2. run.phase = "fetch" => Fetching
        BY <2>3 DEF RunOK, Reading, Applying
      <3> QED BY <1>10, <2>1, <3>1, <3>2 DEF Edit, GateOK
    <2> QED BY <2>2, <2>3
  <1>11. ASSUME Reload \/ Restart PROVE CircuitOK' /\ StrikesOK' /\ GateOK'
    BY <1>11, BreakerClosed DEF Reload, Restart, Forget
  <1>12. ASSUME CircuitCools PROVE CircuitOK' /\ StrikesOK' /\ GateOK'
    <2>1. circuit' = [streak |-> circuit.streak, open |-> "cooled"]
      BY <1>12 DEF CircuitCools, CircuitOK
    <2>2. strikes' = 0 /\ circuit.streak = Threshold /\ None # "cooled"
      BY <1>12, RouteAssumption DEF CircuitCools, StrikesOK
    <2>3. CircuitOK'
      BY <2>1 DEF CircuitOK
    <2>4. GateOK'
      BY <1>12 DEF CircuitCools, Idle, GateOK
    <2> QED BY <2>1, <2>2, <2>3, <2>4 DEF StrikesOK
  <1>13. ASSUME UNCHANGED <<run, circuit, strikes>> PROVE CircuitOK' /\ StrikesOK' /\ GateOK'
    BY <1>13, BreakerKept DEF GateOK
  <1>14. ASSUME IntervalElapses \/ DropQueue \/ CalmDown
         PROVE UNCHANGED <<run, circuit, strikes>>
    BY <1>14 DEF IntervalElapses, DropQueue, CalmDown, inst
  <1>15. ASSUME NEW s \in Slots, NEW route,
                RequestOverdue(s) \/ HandEdit(s, route) \/ Wake(s)
         PROVE UNCHANGED <<run, circuit, strikes>>
    BY <1>15 DEF RequestOverdue, HandEdit, Wake, inst
  <1>16. ASSUME Steps PROVE CircuitOK' /\ StrikesOK' /\ GateOK'
    BY <1>16, <1>1, <1>2, <1>3, <1>4, <1>5, <1>6, <1>7, <1>8, <1>9 DEF Steps, Triggers
  <1>17. ASSUME Time PROVE CircuitOK' /\ StrikesOK' /\ GateOK'
    BY <1>17, <1>12, <1>13, <1>14, <1>15 DEF Time
  <1>18. ASSUME World PROVE CircuitOK' /\ StrikesOK' /\ GateOK'
    BY <1>18, <1>1, <1>10, <1>11, <1>13, <1>14, <1>15 DEF World, Triggers
  <1> QED BY <1>13, <1>16, <1>17, <1>18 DEF Next, vars

\* A controller that does not answer gets at most Threshold scheduled calls in a
\* row before a cool-down, for every threshold and whatever else happens: edits,
\* manual runs, refused connections, reloads (circuit_breaker_is_open and
\* circuit_breaker_next agree on when the breaker opens).
THEOREM CallsBackOff == Spec => []BackOff
  <1>1. Init => BackOffInv
    BY RunInit, BreakerInit DEF BackOffInv
  <1>2. BackOffInv /\ [Next]_vars => BackOffInv'
    BY RunStep, BreakerStep DEF BackOffInv
  <1>3. BackOffInv => BackOff
    BY RouteAssumption DEF BackOffInv, CircuitOK, StrikesOK, BackOff
  <1> QED BY <1>1, <1>2, <1>3, PTL DEF Spec
-----------------------------------------------------------------------------
(* What is shown of a sleeping node.                                       *)

LEMMA LandedInit == Init => MeshOK /\ SeenOK /\ AppliedLanded
  BY DEF Init, MeshOK, SeenOK, AppliedLanded, Idle

LEMMA MeshStep == MeshOK /\ [Next]_vars => MeshOK'
  <1> SUFFICES ASSUME MeshOK, [Next]_vars PROVE MeshOK'
    OBVIOUS
  <1>1. ASSUME UNCHANGED mesh PROVE MeshOK'
    BY <1>1 DEF mesh, MeshOK
  <1>2. ASSUME NEW S, Send(S) PROVE MeshOK'
    BY <1>2 DEF Send, MeshOK
  <1>3. ASSUME UNCHANGED live, queued' = [s \in Slots |-> queued'[s]] PROVE MeshOK'
    BY <1>3 DEF MeshOK
  <1>4. ASSUME Edit \/ DropQueue \/ Reload \/ Restart PROVE MeshOK'
    BY <1>3, <1>4 DEF Edit, DropQueue, Reload, Restart, Forget
  <1>5. ASSUME NEW s \in Slots, RequestOverdue(s) PROVE MeshOK'
    BY <1>3, <1>5 DEF RequestOverdue, MeshOK
  <1>6. ASSUME NEW s \in Slots, NEW route, HandEdit(s, route) PROVE MeshOK'
    BY <1>6 DEF HandEdit, MeshOK
  <1>7. ASSUME NEW s \in Slots, Wake(s) PROVE MeshOK'
    BY <1>7 DEF Wake, MeshOK
  <1>8. ASSUME NEW trigger, Begin(trigger) PROVE MeshOK'
    BY <1>1, <1>8 DEF Begin
  <1>9. ASSUME Steps PROVE MeshOK'
    BY <1>1, <1>2, <1>8, <1>9 DEF Steps, ReadConfig, FetchTimesOut, FetchRefused,
       FetchMismatch, Fetch, Apply, ApplyRefused, ApplyRejected, ApplyCut
  <1>10. ASSUME Time PROVE MeshOK'
    BY <1>1, <1>5, <1>10 DEF Time, IntervalElapses, CircuitCools
  <1>11. ASSUME World PROVE MeshOK'
    BY <1>1, <1>4, <1>6, <1>7, <1>8, <1>11 DEF World, CalmDown
  <1> QED BY <1>1, <1>9, <1>10, <1>11 DEF Next, vars, mesh

\* Steps that queue nothing for a sleeping node, change no sleeping node for
\* which something waits, and show nothing new.
LEMMA LandedKept ==
  ASSUME SeenOK, AppliedLanded,
         \A s \in Slots : Waits(s) /\ queued'[s] # None =>
                            queued[s] # None /\ live'[s] = live[s],
         \A s \in Slots : applied'[s] \in {applied[s], None},
         run'.phase = "apply" => run.phase = "apply" /\ run'.seen = run.seen
  PROVE  SeenOK' /\ AppliedLanded'
  <1>1. SeenOK'
    BY DEF SeenOK, Waits
  <1>2. AppliedLanded'
    BY DEF AppliedLanded, Waits
  <1> QED BY <1>1, <1>2

\* A recorded reconcile shows a sleeping node to have a route only if it saw it,
\* and then nothing was sent to it.
LEMMA LandedApplied ==
  ASSUME LandedInv, NEW lost \in SUBSET {s \in Slots : run.phase = "apply" /\ s \in Actions
                                                       /\ s[1] \notin Sleepy},
         NEW arrived \in SUBSET lost, Apply(lost, arrived)
  PROVE  SeenOK' /\ AppliedLanded'
  <1>1. SeenOK'
    BY DEF Apply, Finish, Idle, SeenOK
  <1>2. ASSUME NEW s \in Slots, Waits(s), queued'[s] # None, applied'[s] # None
        PROVE  live'[s] # None /\ live'[s].via = applied'[s].via
    <2>1. applied'[s] = NewApplied(s)
      BY <1>2 DEF Apply, Finish, Record, Waits
    <2>2. Listed(s) /\ Matches(s) /\ applied'[s] = Intent(s)
      BY <1>2, <2>1 DEF NewApplied
    <2>3. s \notin (Actions \ lost) \cup arrived
      BY <2>2 DEF Actions, Unmatched
    <2>4. live'[s] = live[s] /\ queued'[s] = queued[s]
      BY <1>2, <2>3 DEF Apply, Send
    <2>5. run.seen[s] # None /\ run.seen[s].via = run.wanted[s[1]].to.via
      BY <2>2 DEF Matches, MatchesRoute
    <2>6. run.seen[s] \in {live[s], None}
      BY <1>2, <2>4 DEF LandedInv, SeenOK, Apply, Finish
    <2> QED BY <2>2, <2>4, <2>5, <2>6 DEF Intent
  <1>3. AppliedLanded'
    BY <1>2 DEF AppliedLanded, Waits
  <1> QED BY <1>1, <1>3

LEMMA LandedStep ==
  ASSUME {"cut", "reject"} \cap Env = {}, LandedInv, [Next]_vars
  PROVE  SeenOK' /\ AppliedLanded'
  <1> USE DEF LandedInv
  <1>1. ASSUME UNCHANGED <<live, queued, applied>>, run'.phase # "apply" \/ UNCHANGED run
        PROVE SeenOK' /\ AppliedLanded'
    BY <1>1, LandedKept
  <1>2. ASSUME NEW trigger, Begin(trigger) PROVE SeenOK' /\ AppliedLanded'
    BY <1>1, <1>2 DEF Begin, mesh, inst
  <1>3. ASSUME ReadConfig PROVE SeenOK' /\ AppliedLanded'
    <2>1. run'.phase # "apply"
      BY <1>3 DEF ReadConfig, Bail, Idle
    <2> QED BY <1>1, <1>3, <2>1 DEF ReadConfig, mesh
  <1>4. ASSUME FetchTimesOut \/ FetchRefused \/ FetchMismatch \/ ApplyRefused
        PROVE SeenOK' /\ AppliedLanded'
    BY <1>1, <1>4 DEF FetchTimesOut, FetchRefused, FetchMismatch, ApplyRefused, Bail,
       Idle, mesh
  <1>5. ASSUME NEW there, NEW unread, Fetch(there, unread) PROVE SeenOK' /\ AppliedLanded'
    <2>1. CASE run' = Idle
      BY <1>1, <1>5, <2>1 DEF Fetch, Idle, mesh
    <2>2. CASE run'.seen = [s \in Slots |-> IF s \in unread THEN None ELSE live[s]]
      <3>1. UNCHANGED <<live, queued, applied>>
        BY <1>5 DEF Fetch, mesh
      <3>2. SeenOK'
        BY <2>2, <3>1 DEF SeenOK
      <3>3. AppliedLanded'
        BY <3>1 DEF AppliedLanded, Waits
      <3> QED BY <3>2, <3>3
    <2> QED BY <1>5, <2>1, <2>2 DEF Fetch, Bail
  <1>6. ASSUME NEW rejected, NEW sent, ApplyRejected(rejected) \/ ApplyCut(sent) PROVE FALSE
    BY <1>6 DEF ApplyRejected, ApplyCut, May
  <1>7. ASSUME Edit PROVE SeenOK' /\ AppliedLanded'
    <2>1. \A s \in Slots : queued'[s] # None => queued[s] # None
      BY <1>7 DEF Edit, Freed
    <2>2. run'.phase = "apply" => run.phase = "apply" /\ run'.seen = run.seen
      <3>1. CASE run = Idle
        BY <1>7, <3>1 DEF Edit, Idle
      <3>2. CASE run # Idle
        <4>1. run'.phase = run.phase /\ (Applying => run'.seen = run.seen)
          BY <1>7, <3>2, EditKeepsRun DEF Edit
        <4>2. run.phase = "apply" => Applying
          BY <3>2 DEF RunOK, Reading, Fetching
        <4> QED BY <4>1, <4>2
      <3> QED BY <3>1, <3>2
    <2> QED BY <1>7, <2>1, <2>2, LandedKept DEF Edit
  <1>8. ASSUME Reload \/ Restart PROVE SeenOK' /\ AppliedLanded'
    BY <1>8 DEF Reload, Restart, Forget, Idle, SeenOK, AppliedLanded
  <1>9. ASSUME NEW s \in Slots, RequestOverdue(s) PROVE SeenOK' /\ AppliedLanded'
    <2>1. \A t \in Slots : queued'[t] # None => queued[t] # None
      BY <1>9 DEF RequestOverdue, Freed, MeshOK
    <2> QED BY <1>9, <2>1, LandedKept DEF RequestOverdue
  <1>10. ASSUME NEW s \in Slots, NEW route, HandEdit(s, route) PROVE SeenOK' /\ AppliedLanded'
    <2>1. \A t \in Slots : Waits(t) => live'[t] = live[t]
      BY <1>10 DEF HandEdit, MeshOK
    <2> QED BY <1>10, <2>1, LandedKept DEF HandEdit, inst
  <1>11. ASSUME NEW s \in Slots, Wake(s) PROVE SeenOK' /\ AppliedLanded'
    <2>1. \A t \in Slots : queued'[t] # None => queued[t] # None /\ live'[t] = live[t]
      BY <1>11 DEF Wake, MeshOK
    <2> QED BY <1>11, <2>1, LandedKept DEF Wake, inst
  <1>12. ASSUME DropQueue PROVE SeenOK' /\ AppliedLanded'
    BY <1>12, LandedKept DEF DropQueue, inst
  <1>13. ASSUME IntervalElapses \/ CircuitCools \/ CalmDown \/ UNCHANGED vars
         PROVE SeenOK' /\ AppliedLanded'
    BY <1>1, <1>13 DEF IntervalElapses, CircuitCools, CalmDown, mesh, inst, vars
  <1>14. ASSUME Steps PROVE SeenOK' /\ AppliedLanded'
    BY <1>14, <1>2, <1>3, <1>4, <1>5, <1>6, LandedApplied DEF Steps
  <1>15. ASSUME Time PROVE SeenOK' /\ AppliedLanded'
    BY <1>15, <1>9, <1>13 DEF Time
  <1>16. ASSUME World PROVE SeenOK' /\ AppliedLanded'
    BY <1>16, <1>2, <1>7, <1>8, <1>10, <1>11, <1>12, <1>13 DEF World
  <1> QED BY <1>13, <1>14, <1>15, <1>16 DEF Next

\* Unless a reconcile is cut off or rejected after it sent (both leave `applied'
\* as it was), what is shown of a sleeping node for which a command still waits
\* is what the node has, however answers are incomplete, files change, queues
\* are dropped and instances restarted (_do_reconcile keeps sleepy nodes
\* pending; diff_and_plan counts as applied only what it saw).
THEOREM ShownHasLanded ==
  {"cut", "reject"} \cap Env = {} => (Spec => []AppliedLanded)
  <1> SUFFICES ASSUME {"cut", "reject"} \cap Env = {} PROVE Spec => []AppliedLanded
    OBVIOUS
  <1>1. Init => LandedInv
    BY RunInit, LandedInit DEF LandedInv
  <1>2. LandedInv /\ [Next]_vars => LandedInv'
    BY RunStep, MeshStep, LandedStep DEF LandedInv
  <1>3. LandedInv => AppliedLanded
    BY DEF LandedInv
  <1> QED BY <1>1, <1>2, <1>3, PTL DEF Spec
-----------------------------------------------------------------------------
(* What is sent again.                                                     *)

\* The file stays what the reconcile has read as long as anything is held.
LEMMA FileKept ==
  ASSUME FileOK, file' = file,
         run'.phase \in {"fetch", "apply"} =>
           run.phase \in {"fetch", "apply"} /\ run'.config = run.config,
         \A s \in Slots : Held(s)' => Held(s)
  PROVE  FileOK'
  BY DEF FileOK

\* Steps that send nothing, and touch no request of a command that is held.
LEMMA HeldKept ==
  ASSUME HeldOK, file' = file,
         \A s \in Slots : queued'[s] # None => queued[s] # None,
         \A s \in Slots : Held(s)' => /\ Held(s) /\ queued'[s].to = queued[s].to
                                      /\ pending'[s] = pending[s] /\ live'[s] = live[s]
  PROVE  HeldOK'
  <1> SUFFICES ASSUME NEW s \in Slots
               PROVE  /\ queued'[s] # None => Waits(s)
                      /\ Held(s)' => \/ /\ pending'[s] # None /\ ~pending'[s].overdue
                                        /\ pending'[s].to = queued'[s].to
                                     \/ Settled(s)'
    BY DEF HeldOK, Waits
  <1>1. ASSUME Held(s)', Settled(s) PROVE Settled(s)'
    BY <1>1 DEF Settled
  <1> QED BY <1>1 DEF HeldOK

\* A recorded reconcile: what it sent is pending, what it did not send for it
\* was either pending already or as it should be.
LEMMA HeldApplied ==
  ASSUME ResendInv, NEW lost \in SUBSET {s \in Slots : run.phase = "apply" /\ s \in Actions
                                                       /\ s[1] \notin Sleepy},
         NEW arrived \in SUBSET lost, Apply(lost, arrived)
  PROVE  HeldOK'
  <1> USE DEF ResendInv
  <1>1. run.phase = "apply" /\ Send((Actions \ lost) \cup arrived) /\ Record(lost) /\ file' = file
    BY DEF Apply, Finish
  <1>2. ASSUME NEW s \in Slots, queued'[s] # None PROVE Waits(s)
    BY <1>1, <1>2 DEF Send, HeldOK
  <1>3. ASSUME NEW s \in Slots, Held(s)'
        PROVE  \/ /\ pending'[s] # None /\ ~pending'[s].overdue
                  /\ pending'[s].to = queued'[s].to
               \/ Settled(s)'
    <2>1. Waits(s) /\ s[1] \in Sleepy /\ s \notin lost
      BY <1>2, <1>3 DEF Held, Waits
    <2>2. pending'[s] = NewPending(s)
      BY <1>1, <2>1 DEF Record
    <2>3. CASE s \in Actions
      <3>1. queued'[s] = [to |-> Intent(s), free |-> FALSE]
        BY <1>1, <2>1, <2>3 DEF Send
      <3>2. pending'[s] = Request(Intent(s))
        BY <2>2, <2>3 DEF NewPending, Actions
      <3>3. Request(Intent(s)) # None
        <4>1. Request(Intent(s)) \in Requests
          BY <1>1, WantedFacts DEF Request, Requests
        <4> QED BY <4>1, RouteAssumption
      <3> QED BY <3>1, <3>2, <3>3 DEF Request
    <2>4. CASE s \notin Actions
      <3>1. queued'[s] = queued[s] /\ live'[s] = live[s]
        BY <1>1, <2>4 DEF Send
      <3>2. Held(s)
        BY <1>3, <3>1 DEF Held
      <3>3. ASSUME Settled(s) PROVE Settled(s)'
        BY <1>1, <3>1, <3>3 DEF Settled
      <3>4. CASE s \in Unmatched
        <4>1. pending'[s] = pending[s]
          BY <2>2, <2>4, <3>4 DEF NewPending, Actions
        <4> QED BY <3>1, <3>2, <3>3, <4>1 DEF HeldOK
      <3>5. CASE s \notin Unmatched
        <4>1. run.wanted = Desired(Parsed(file).lines) /\ DOMAIN run.wanted \subseteq run.there
          BY <1>1, <3>2, WantedFacts DEF FileOK
        <4>2. CASE ~Listed(s)
          BY <3>3, <4>1, <4>2 DEF Settled, Listed
        <4>3. CASE Listed(s)
          <5>1. MatchesRoute(run.seen[s], run.wanted[s[1]])
            BY <3>5, <4>1, <4>3 DEF Unmatched, Considered, Listed, Matches
          <5>2. run.seen[s] = live[s]
            BY <1>1, <2>1, <3>2, <5>1 DEF LandedInv, SeenOK, Held, MatchesRoute
          <5> QED BY <3>3, <4>1, <5>1, <5>2 DEF Settled
        <4> QED BY <4>2, <4>3
      <3> QED BY <3>4, <3>5
    <2> QED BY <2>3, <2>4
  <1> QED BY <1>2, <1>3 DEF HeldOK, Waits

LEMMA HeldStep ==
  ASSUME {"cut", "reject"} \cap Env = {}, ResendInv, [Next]_vars
  PROVE  FileOK' /\ HeldOK'
  <1> USE DEF ResendInv
  <1>1. ASSUME UNCHANGED <<file, queued, pending, live>> PROVE HeldOK'
    <2>1. \A s \in Slots : Held(s)' => Held(s)
      BY <1>1 DEF Held
    <2> QED BY <1>1, <2>1, HeldKept
  <1>2. ASSUME run'.phase \notin {"fetch", "apply"} PROVE FileOK'
    BY <1>2 DEF FileOK
  <1>3. ASSUME run' = Idle PROVE FileOK'
    BY <1>2, <1>3 DEF Idle
  <1>4. ASSUME UNCHANGED <<file, queued>>, run'.config = run.config, run.phase = "fetch"
        PROVE  FileOK'
    <2>1. \A s \in Slots : Held(s)' => Held(s)
      BY <1>4 DEF Held
    <2> QED BY <1>4, <2>1, FileKept
  <1>5. ASSUME UNCHANGED <<file, run>>, \A s \in Slots : Held(s)' => Held(s) PROVE FileOK'
    BY <1>5, FileKept
  <1>6. ASSUME NEW trigger, Begin(trigger) PROVE FileOK' /\ HeldOK'
    BY <1>1, <1>2, <1>6 DEF Begin, mesh, inst
  <1>7. ASSUME ReadConfig PROVE FileOK' /\ HeldOK'
    <2>1. HeldOK'
      BY <1>1, <1>7 DEF ReadConfig, mesh
    <2>2. CASE run' = Idle
      BY <1>3, <2>1, <2>2
    <2>3. CASE run'.config = Parsed(file) /\ ~ParseErrors(file) /\ file' = file
      BY <2>1, <2>3 DEF FileOK
    <2> QED BY <1>7, <2>2, <2>3 DEF ReadConfig, Bail
  <1>8. ASSUME FetchTimesOut \/ FetchRefused \/ FetchMismatch \/ ApplyRefused
        PROVE FileOK' /\ HeldOK'
    BY <1>1, <1>3, <1>8 DEF FetchTimesOut, FetchRefused, FetchMismatch, ApplyRefused, Bail, mesh
  <1>9. ASSUME NEW there, NEW unread, Fetch(there, unread) PROVE FileOK' /\ HeldOK'
    <2>1. HeldOK'
      BY <1>1, <1>9 DEF Fetch, mesh
    <2>2. CASE run' = Idle
      BY <1>3, <2>1, <2>2
    <2>3. CASE run'.config = run.config
      BY <1>4, <1>9, <2>1, <2>3 DEF Fetch, mesh
    <2> QED BY <1>9, <2>2, <2>3 DEF Fetch, Bail
  <1>10. ASSUME NEW rejected, NEW sent, ApplyRejected(rejected) \/ ApplyCut(sent) PROVE FALSE
    BY <1>10 DEF ApplyRejected, ApplyCut, May
  <1>11. ASSUME NEW lost \in SUBSET {s \in Slots : run.phase = "apply" /\ s \in Actions
                                                   /\ s[1] \notin Sleepy},
                NEW arrived \in SUBSET lost, Apply(lost, arrived)
         PROVE  FileOK' /\ HeldOK'
    BY <1>3, <1>11, HeldApplied DEF Apply, Finish
  <1>12. ASSUME queued' = [s \in Slots |-> Freed(s)] PROVE \A s \in Slots : ~Held(s)'
    <2> SUFFICES ASSUME NEW s \in Slots, queued[s] # None PROVE queued'[s].free
      BY <1>12 DEF Held, Freed
    <2>1. queued[s] \in Commands
      BY DEF TypeInv, TypeOK
    <2> QED BY <1>12, <2>1 DEF Freed, Commands
  <1>13. ASSUME queued' = [s \in Slots |-> Freed(s)] PROVE FileOK' /\ HeldOK'
    <2>1. \A s \in Slots : queued'[s] # None => queued[s] # None
      BY <1>13 DEF Freed
    <2> QED BY <1>12, <1>13, <2>1 DEF FileOK, HeldOK, Waits
  <1>14. ASSUME NEW s \in Slots, RequestOverdue(s) PROVE FileOK' /\ HeldOK'
    <2>1. queued[s] \in Commands \cup {None}
      BY DEF TypeInv, TypeOK
    <2>2. queued[s] # None => Freed(s).free
      BY <2>1 DEF Freed, Commands
    <2>3. /\ queued'[s] = Freed(s)
          /\ \A t \in Slots \ {s} : queued'[t] = queued[t] /\ pending'[t] = pending[t]
      BY <1>14 DEF RequestOverdue, TypeInv, TypeOK
    <2>4. \A t \in Slots : queued'[t] # None => queued[t] # None
      BY <2>3 DEF Freed
    <2>5. ~Held(s)'
      BY <2>2, <2>3 DEF Held, Freed
    <2>6. \A t \in Slots : Held(t)' => Held(t) /\ t # s
      BY <2>3, <2>5 DEF Held
    <2>7. FileOK'
      BY <1>5, <1>14, <2>6 DEF RequestOverdue
    <2> QED BY <1>14, <2>3, <2>4, <2>6, <2>7, HeldKept DEF RequestOverdue
  <1>15. ASSUME NEW s \in Slots, NEW route, HandEdit(s, route) PROVE FileOK' /\ HeldOK'
    <2>1. \A t \in Slots : Held(t)' => Held(t)
      BY <1>15 DEF HandEdit, Held
    <2>2. \A t \in Slots : Held(t) => t # s
      BY <1>15 DEF HandEdit, HeldOK, Held
    <2>3. \A t \in Slots : Held(t)' => live'[t] = live[t]
      BY <1>15, <2>1, <2>2 DEF HandEdit, TypeInv, TypeOK
    <2>4. FileOK'
      BY <1>5, <1>15, <2>1 DEF HandEdit
    <2> QED BY <1>15, <2>1, <2>3, <2>4, HeldKept DEF HandEdit, inst
  <1>16. ASSUME NEW s \in Slots, Wake(s) PROVE FileOK' /\ HeldOK'
    <2>1. /\ queued'[s] = None
          /\ \A t \in Slots \ {s} : queued'[t] = queued[t] /\ live'[t] = live[t]
      BY <1>16 DEF Wake, TypeInv, TypeOK
    <2>2. \A t \in Slots : Held(t)' => Held(t) /\ t # s
      BY <2>1 DEF Held
    <2>3. FileOK'
      BY <1>5, <1>16, <2>2 DEF Wake
    <2> QED BY <1>16, <2>1, <2>2, <2>3, HeldKept DEF Wake, inst
  <1>17. ASSUME DropQueue PROVE FileOK' /\ HeldOK'
    BY <1>17 DEF DropQueue, FileOK, HeldOK, Held
  <1>18. ASSUME IntervalElapses \/ CircuitCools \/ CalmDown \/ UNCHANGED vars
         PROVE FileOK' /\ HeldOK'
    <2>1. UNCHANGED <<file, run, queued, pending, live>>
      BY <1>18 DEF IntervalElapses, CircuitCools, CalmDown, mesh, inst, vars
    <2>2. \A s \in Slots : Held(s)' => Held(s)
      BY <2>1 DEF Held
    <2> QED BY <1>1, <1>5, <2>1, <2>2
  <1>19. ASSUME Steps PROVE FileOK' /\ HeldOK'
    BY <1>19, <1>6, <1>7, <1>8, <1>9, <1>10, <1>11 DEF Steps
  <1>20. ASSUME Time PROVE FileOK' /\ HeldOK'
    BY <1>20, <1>14, <1>18 DEF Time
  <1>21. ASSUME World PROVE FileOK' /\ HeldOK'
    BY <1>21, <1>6, <1>13, <1>15, <1>16, <1>17, <1>18 DEF World, Edit, Reload, Restart, Forget
  <1> QED BY <1>18, <1>19, <1>20, <1>21 DEF Next

\* Unless a reconcile is cut off or rejected after it sent, a command that waits
\* for its node is not given to Z-Wave JS again before it is overdue, for every
\* sequence of edits, answers, wake-ups, hands and failed calls in between: what
\* is not asked for is as it should be, and nothing but its own command, a new
\* file or a new instance changes that (diff_and_plan carries `pending' over).
THEOREM NothingSentTwice ==
  {"cut", "reject"} \cap Env = {} => (Spec => []NoEarlyResend)
  <1> SUFFICES ASSUME {"cut", "reject"} \cap Env = {} PROVE Spec => []NoEarlyResend
    OBVIOUS
  <1>1. Init => ResendInv
    <2>1. Init => FileOK /\ HeldOK
      BY DEF Init, Idle, FileOK, HeldOK, Held
    <2> QED BY <2>1, RunInit, TypeInit, LandedInit DEF ResendInv, TypeInv, LandedInv
  <1>2. ResendInv /\ [Next]_vars => ResendInv'
    BY RunStep, TypeStep, PlanStep, MeshStep, LandedStep, HeldStep
       DEF ResendInv, TypeInv, LandedInv
  <1>3. ResendInv => NoEarlyResend
    <2> SUFFICES ASSUME ResendInv, run.phase = "apply", NEW s \in Actions, Listed(s),
                        queued[s] # None, queued[s].to = Intent(s), ~queued[s].free
                 PROVE  MatchesRoute(live[s], run.wanted[s[1]])
      BY DEF NoEarlyResend
    <2>1. s \in Slots /\ Held(s) /\ ~Awaited(s)
      BY DEF Actions, Unmatched, Considered, Held
    <2>2. Settled(s)
      BY <2>1 DEF ResendInv, HeldOK, Awaited
    <2>3. run.wanted = Desired(Parsed(file).lines)
      BY <2>1, WantedFacts DEF ResendInv, FileOK
    <2> QED BY <2>2, <2>3 DEF Settled, Listed
  <1> QED BY <1>1, <1>2, <1>3, PTL DEF Spec

=============================================================================
