---------------------------- MODULE RouteManager ----------------------------
(***************************************************************************)
(* The Z-Wave Route Manager (ZRM): a file says through which repeater each *)
(* node is routed, and every reconcile reads it, asks Z-Wave JS UI for the *)
(* routes there are (bridge.py), plans the difference (logic.py), sends it *)
(* and keeps what is pending and what is applied (handler.py).  Around it: *)
(* people edit the file and the routes, nodes sleep and wake, calls time   *)
(* out, are rejected or cut off, the driver and Home Assistant restart.    *)
(*                                                                         *)
(* A slot is a node with one of its two priority routes.  Durations are    *)
(* flags that time sets: the reconcile interval has elapsed, a pending     *)
(* request is overdue, an open circuit has cooled down.  A reconcile takes *)
(* its `now' when it starts, so that time sets them between reconciles.    *)
(***************************************************************************)
EXTENDS RouteConfig, FiniteSets

CONSTANTS
  Types,           \* MANAGED_ROUTE_TYPES
  Sleepy,          \* nodes that neither listen nor listen frequently
  Negotiated,      \* per node: the fastest speed it settles at
  HandRoutes,      \* routes people set by hand in Z-Wave JS UI
  ClearUnmanaged,  \* clear_unmanaged_routes
  Threshold,       \* CIRCUIT_BREAKER_THRESHOLD
  MaxHidden,       \* bound: nodes and routes one answer leaves out
  Env              \* what the surroundings do in this instance (EnvKinds)

Nodes == {Devices[e].node : e \in DOMAIN Devices}
Slots == Nodes \X Types
Routes == [via : Nodes, speed : Speeds]

\* What a request or a command asks for: a route, or None to clear.
Targets == Routes \cup {None}

\* RouteRequest, and a command that waits for its node.
Requests == [to : Targets, overdue : BOOLEAN]
Commands == [to : Targets, free : BOOLEAN]

EnvKinds == {"edit", "hand", "gone", "unread", "refuse", "timeout", "mismatch",
             "nack", "reject", "cut", "drop", "manual", "reload", "restart",
             "calm"}

ASSUME RouteAssumption ==
  /\ Types \subseteq {"app", "suc"}
  /\ Sleepy \subseteq Nodes
  /\ Negotiated \in [Nodes -> Speeds]
  /\ HandRoutes \subseteq Routes
  /\ ClearUnmanaged \in BOOLEAN
  /\ Threshold \in Nat \ {0}
  /\ MaxHidden \in Nat
  /\ Env \subseteq EnvKinds
  /\ None \notin Nodes \cup Routes \cup Requests \cup Commands \cup {"open", "cooled"}

VARIABLES
  file,     \* contents of the configuration file
  changed,  \* its mtime is not last_config_mtime
  live,     \* per slot: the route the controller reports, None is direct
  queued,   \* per slot: the command Z-Wave JS holds until the node wakes; the
            \* history field `free': it may be asked for again
  pending,  \* ZrmInstanceState.pending: per slot the request and its age
  applied,  \* ZrmInstanceState.applied: per slot the route it shows, or None
  elapsed,  \* no last_reconcile_dt, or the interval has elapsed since
  again,    \* reconcile_pending
  circuit,  \* CircuitBreakerState: streak; open is None, "open" or "cooled"
  notes,    \* the persistent notifications shown, by what they are about
  run,      \* the reconcile under way, as far as it has come
  calm,     \* from now on the surroundings leave everything alone
  strikes   \* history: scheduled calls that timed out since one came back or
            \* the circuit cooled down

inst  == <<pending, applied, changed, elapsed, again, circuit>>
mesh  == <<live, queued>>
vars  == <<file, changed, live, queued, pending, applied, elapsed, again,
           circuit, notes, run, calm, strikes>>

\* The notifications, of the reconcile or of a node.
Notes == {<<k>> : k \in {"config", "api", "breaker", "crash"}} \cup {"apply"} \X Nodes

Request(to) == [to |-> to, overdue |-> FALSE]

Idle == [phase |-> "idle"]

Triggers == {"periodic", "manual"}

May(kind) == kind \in Env /\ ~calm

TypeOK ==
  /\ file \in Files
  /\ changed \in BOOLEAN
  /\ live \in [Slots -> Targets]
  /\ queued \in [Slots -> Commands \cup {None}]
  /\ pending \in [Slots -> Requests \cup {None}]
  /\ applied \in [Slots -> Targets]
  /\ elapsed \in BOOLEAN
  /\ again \in BOOLEAN
  /\ circuit \in [streak : 0..Threshold, open : {None, "open", "cooled"}]
  /\ notes \subseteq Notes
  /\ run.phase \in {"idle", "read", "fetch", "apply"}
  /\ calm \in BOOLEAN
  /\ strikes \in 0..Threshold + 1

Init ==
  /\ file \in Files
  /\ changed = (file.read # "missing")
  /\ live \in [Slots -> {None} \cup HandRoutes]
  /\ queued = [s \in Slots |-> None]
  /\ pending = [s \in Slots |-> None]
  /\ applied = [s \in Slots |-> None]
  /\ elapsed = TRUE
  /\ again = FALSE
  /\ circuit = [streak |-> 0, open |-> None]
  /\ notes = {}
  /\ run = Idle
  /\ calm = FALSE
  /\ strikes = 0
-----------------------------------------------------------------------------
(* What a file stands for, given the nodes that answer.                    *)

Present(there) == {e \in DOMAIN Devices : Devices[e].node \in there}

RoutesOf(config, there) == Desired(Resolved(config, Present(there)))

\* The nodes a file has a line for.
NodesOf(config) ==
  {Devices[e].node : e \in {x \in DOMAIN Devices :
                              \E l \in config.lines : l.client.entity = x}}
-----------------------------------------------------------------------------
(* The plan: diff_and_plan on what the reconcile has seen.                 *)

Listed(s) == s[1] \in DOMAIN run.wanted

\* What the slot should hold: _SET_ACTION_KIND_FOR_TYPE or the clear.
Intent(s) == IF Listed(s) THEN run.wanted[s[1]].to ELSE None

\* _current_matches_desired: with "auto" any speed will do.
MatchesRoute(current, wanted) ==
  /\ current # None
  /\ current.via = wanted.to.via
  /\ wanted.auto \/ current.speed = wanted.to.speed

Matches(s) ==
  IF Listed(s) THEN MatchesRoute(run.seen[s], run.wanted[s[1]])
               ELSE ~ClearUnmanaged \/ run.seen[s] = None

Considered == {s \in Slots : s[1] \in run.there}

Unmatched == {s \in Considered : ~Matches(s)}

\* Mutant: asked for once, never again.
AwaitedForever(s) == pending[s] # None /\ pending[s].to = Intent(s)

\* Asked for before, and not long enough ago to ask again.
Awaited(s) ==
  /\ pending[s] # None
  /\ pending[s].to = Intent(s)
  /\ ~pending[s].overdue

Actions == {s \in Unmatched : ~Awaited(s)}

\* new_pending and new_applied, if every action succeeds.
NewPending(s) ==
  IF s \notin Unmatched THEN None
  ELSE IF Awaited(s) THEN pending[s] ELSE Request(Intent(s))

NewApplied(s) ==
  IF s \in Considered /\ Listed(s) /\ Matches(s) THEN Intent(s) ELSE None
-----------------------------------------------------------------------------
(* Notifications.  Every return but that of a lost connection sweeps away  *)
(* what it does not emit again; any return dismisses the crash one.        *)

Show(ids) == notes' = (notes \cup ids) \ {<<"crash">>}

\* Mutant: nothing is swept away.
ShowMore(ids) == notes' = notes \cup ids

ShowOnly(ids) == notes' = ids

(* CircuitBreakerState: circuit_breaker_next after a timed-out call.       *)
Streak == IF circuit.streak < Threshold THEN circuit.streak + 1 ELSE Threshold

\* Mutant: one failure too late.
TripsLate == circuit.streak >= Threshold

Trips == circuit.streak + 1 >= Threshold

AfterTimeout ==
  [streak |-> Streak, open |-> IF Trips THEN "open" ELSE circuit.open]

Bail == again' = TRUE /\ run' = Idle
-----------------------------------------------------------------------------
(* The reconcile, from await to await.                                     *)

\* The timer, or a kick, a reload, a person.  argparse dismisses the
\* notification of a configuration error, and the mtime is read.
Begin(trigger) ==
  /\ run = Idle
  /\ run' = [phase |-> "read", trigger |-> trigger, changed |-> changed,
             edited |-> FALSE]
  /\ notes' = notes \ {<<"config">>}
  /\ UNCHANGED <<file, calm, mesh, inst, strikes>>

\* The text is read and parsed; then the gates.
ReadConfig ==
  /\ run.phase = "read"
  /\ \/ /\ ParseErrors(file)
        /\ ShowOnly({<<"config">>})
        /\ Bail
     \/ /\ ~ParseErrors(file)
        /\ ~(run.changed \/ elapsed \/ again \/ run.trigger = "manual")
        /\ run' = Idle
        /\ Show({})
        /\ UNCHANGED again
     \/ /\ ~ParseErrors(file)
        /\ run.changed \/ elapsed \/ again
        /\ circuit.open = "open" /\ run.trigger = "periodic"
        /\ run' = Idle
        /\ Show({})
        /\ UNCHANGED again
     \/ /\ ~ParseErrors(file)
        /\ run.changed \/ elapsed \/ again \/ run.trigger = "manual"
        /\ circuit.open # "open" \/ run.trigger = "manual"
        /\ run' = [phase |-> "fetch", trigger |-> run.trigger,
                   edited |-> run.edited, config |-> Parsed(file)]
        /\ UNCHANGED <<notes, again>>
  /\ UNCHANGED <<file, calm, mesh, pending, applied, changed, elapsed, circuit, strikes>>

\* getNodes does not come back: connect or a call times out.
FetchTimesOut ==
  /\ May("timeout")
  /\ run.phase = "fetch"
  /\ circuit' = AfterTimeout
  /\ Show({<<"api">>} \cup (IF Trips THEN {<<"breaker">>} ELSE {}))
  /\ Bail
  /\ strikes' = IF run.trigger = "periodic" /\ strikes <= Threshold
                THEN strikes + 1 ELSE strikes
  /\ UNCHANGED <<file, calm, mesh, pending, applied, changed, elapsed>>

\* The connection is refused: no business of the breaker.
FetchRefused ==
  /\ May("refuse")
  /\ run.phase = "fetch"
  /\ Show({<<"api">>})
  /\ Bail
  /\ UNCHANGED <<file, calm, mesh, pending, applied, changed, elapsed, circuit, strikes>>

\* The call landed: the breaker closes.
Reached ==
  /\ circuit' = [streak |-> 0, open |-> None]
  /\ strikes' = 0

\* It came back for another api, failed, or without the controller.
FetchMismatch ==
  /\ May("mismatch")
  /\ run.phase = "fetch"
  /\ Reached
  /\ ShowOnly({<<"api">>})
  /\ Bail
  /\ UNCHANGED <<file, calm, mesh, pending, applied, changed, elapsed>>

\* The nodes, with their routes asked for one by one: a node can be missing
\* from the list, and a route whose own call fails reads as none.
Fetch(there, unread) ==
  /\ run.phase = "fetch"
  /\ Reached
  /\ IF ResolveErrors(run.config, Present(there))
     THEN /\ ShowOnly({<<"config">>})
          /\ Bail
     ELSE /\ run' = [phase |-> "apply", edited |-> run.edited, config |-> run.config,
                     there |-> there, wanted |-> RoutesOf(run.config, there),
                     seen |-> [s \in Slots |-> IF s \in unread THEN None
                                               ELSE live[s]]]
          /\ UNCHANGED <<notes, again>>
  /\ UNCHANGED <<file, calm, mesh, pending, applied, changed, elapsed>>
-----------------------------------------------------------------------------
(* Sending the actions, all at once, and recording what became of them.    *)

\* assignPrioritySUCReturnRoute talks to the node, setPriorityRoute to the
\* controller only.
Waits(s) == s[1] \in Sleepy /\ s[2] = "suc"

Slower(a, b) == IF a < b THEN a ELSE b

\* What a route command leaves on the node: it may settle for a lower speed.
Landed(s, to) ==
  IF to = None THEN None
  ELSE [to EXCEPT !.speed = Slower(to.speed, Negotiated[s[1]])]

\* The commands of S reach Z-Wave JS.
Send(S) ==
  /\ live' = [s \in Slots |-> IF s \in S /\ ~Waits(s) THEN Landed(s, Intent(s))
                              ELSE live[s]]
  /\ queued' = [s \in Slots |-> IF s \in S /\ Waits(s) 
                   THEN [to |-> Intent(s), free |-> FALSE] ELSE queued[s]]

\* Mutant: only what was sent this time is pending.
RecordSent(failed) ==
  LET kept(s)     == IF s \in Actions \ failed THEN NewPending(s) ELSE None
      promoted(s) == /\ kept(s) # None /\ kept(s).to # None
                     /\ s[1] \notin Sleepy
  IN /\ pending' = [s \in Slots |-> IF promoted(s) THEN None ELSE kept(s)]
     /\ applied' = [s \in Slots |-> IF promoted(s) THEN kept(s).to
                                    ELSE NewApplied(s)]

\* Mutant: a sleeping node counts as applied as soon as it is sent to.
RecordSleepyApplied(failed) ==
  LET kept(s)     == IF s \in failed THEN None ELSE NewPending(s)
      promoted(s) == kept(s) # None /\ kept(s).to # None
  IN /\ pending' = [s \in Slots |-> IF promoted(s) THEN None ELSE kept(s)]
     /\ applied' = [s \in Slots |-> IF promoted(s) THEN kept(s).to
                                    ELSE NewApplied(s)]

\* Actions fail for good, one type of a node apart from the other; successes of
\* nodes that are awake count as applied, clears and sleepy nodes wait.
Record(failed) ==
  LET kept(s)     == IF s \in failed THEN None ELSE NewPending(s)
      promoted(s) == /\ kept(s) # None /\ kept(s).to # None
                     /\ s[1] \notin Sleepy
  IN /\ pending' = [s \in Slots |-> IF promoted(s) THEN None ELSE kept(s)]
     /\ applied' = [s \in Slots |-> IF promoted(s) THEN kept(s).to
                                    ELSE NewApplied(s)]

Finish(failed) ==
  /\ run.phase = "apply"
  /\ Record(failed)
  /\ changed' = run.edited
  /\ elapsed' = FALSE
  /\ again' = (failed # {})
  /\ ShowOnly({<<"apply", s[1]>> : s \in failed})
  /\ run' = Idle

\* `lost' are awake nodes that do not acknowledge in time; some of them did
\* get the command.
Apply(lost, arrived) ==
  /\ lost # {} => May("nack")
  /\ Finish(lost)
  /\ Send((Actions \ lost) \cup arrived)
  /\ UNCHANGED <<file, calm, circuit, strikes>>

\* The connection fails before anything is sent.
ApplyRefused ==
  /\ May("refuse")
  /\ run.phase = "apply"
  /\ Actions # {}
  /\ Show({<<"api">>})
  /\ Bail
  /\ UNCHANGED <<file, calm, mesh, pending, applied, changed, elapsed, circuit, strikes>>

\* One action comes back as failed, or echoes another api: the whole reconcile
\* counts as failed, whatever the other actions did.
ApplyRejected(rejected) ==
  /\ May("reject")
  /\ run.phase = "apply"
  /\ rejected # {}
  /\ Send(Actions \ rejected)
  /\ ShowOnly({<<"api">>})
  /\ Bail
  /\ UNCHANGED <<file, calm, pending, applied, changed, elapsed, circuit, strikes>>

\* The connection breaks while actions are under way: the handler crashes.
ApplyCut(sent) ==
  /\ May("cut")
  /\ run.phase = "apply"
  /\ Actions # {}
  /\ Send(sent)
  /\ notes' = notes \cup {<<"crash">>}
  /\ run' = Idle
  /\ UNCHANGED <<file, calm, inst, strikes>>

Steps ==
  \/ Begin("periodic")
  \/ ReadConfig
  \/ FetchTimesOut
  \/ FetchRefused
  \/ FetchMismatch
  \/ \E there \in IF May("gone") THEN SUBSET Nodes ELSE {Nodes},
        unread \in IF May("unread") THEN SUBSET Slots ELSE {{}} :
       /\ Cardinality(Nodes \ there) + Cardinality(unread) <= MaxHidden
       /\ Fetch(there, unread)
  \/ \E lost \in SUBSET {s \in Slots : run.phase = "apply" /\ s \in Actions
                                       /\ s[1] \notin Sleepy} :
       \E arrived \in SUBSET lost : Apply(lost, arrived)
  \/ ApplyRefused
  \/ \E rejected \in SUBSET {s \in Slots : run.phase = "apply" /\ s \in Actions} :
       ApplyRejected(rejected)
  \/ \E sent \in SUBSET {s \in Slots : run.phase = "apply" /\ s \in Actions} :
       ApplyCut(sent)
-----------------------------------------------------------------------------
(* The surroundings.                                                       *)

\* Something new may be asked for.
Freed(s) == IF queued[s] = None THEN None ELSE [queued[s] EXCEPT !.free = TRUE]

Edit ==
  /\ May("edit")
  /\ file' \in Files \ {file}
  /\ changed' = TRUE
  /\ run' = IF run = Idle THEN Idle ELSE [run EXCEPT !.edited = TRUE]
  /\ queued' = [s \in Slots |-> Freed(s)]
  /\ UNCHANGED <<calm, live, pending, applied, elapsed, again, circuit, notes, strikes>>

\* Somebody changes a route in Z-Wave JS UI.
HandEdit(s, route) ==
  /\ May("hand")
  /\ ~Waits(s)
  /\ live' = [live EXCEPT ![s] = route]
  /\ UNCHANGED <<file, calm, queued, inst, notes, run, strikes>>

\* A sleeping node wakes up and gets what waits for it.
Wake(s) ==
  /\ queued[s] # None
  /\ live' = [live EXCEPT ![s] = Landed(s, queued[s].to)]
  /\ queued' = [queued EXCEPT ![s] = None]
  /\ UNCHANGED <<file, calm, inst, notes, run, strikes>>

\* The driver restarts: nothing waits any more.
DropQueue ==
  /\ May("drop")
  /\ \E s \in Slots : queued[s] # None
  /\ queued' = [s \in Slots |-> None]
  /\ UNCHANGED <<file, calm, live, inst, notes, run, strikes>>

IntervalElapses ==
  /\ run = Idle
  /\ ~elapsed
  /\ elapsed' = TRUE
  /\ UNCHANGED <<file, calm, mesh, pending, applied, changed, again, circuit, notes,
                 run, strikes>>

RequestOverdue(s) ==
  /\ run = Idle
  /\ pending[s] # None /\ ~pending[s].overdue
  /\ pending' = [pending EXCEPT ![s].overdue = TRUE]
  /\ queued' = [queued EXCEPT ![s] = Freed(s)]
  /\ UNCHANGED <<file, calm, live, applied, changed, elapsed, again, circuit, notes,
                 run, strikes>>

CircuitCools ==
  /\ run = Idle
  /\ circuit.open = "open"
  /\ circuit' = [circuit EXCEPT !.open = "cooled"]
  /\ strikes' = 0
  /\ UNCHANGED <<file, calm, mesh, pending, applied, changed, elapsed, again, notes, run>>

\* The instance's state is gone, a reconcile under way with it.
Forget ==
  /\ pending' = [s \in Slots |-> None]
  /\ applied' = [s \in Slots |-> None]
  /\ queued' = [s \in Slots |-> Freed(s)]
  /\ changed' = (file.read # "missing")
  /\ elapsed' = TRUE
  /\ again' = FALSE
  /\ circuit' = [streak |-> 0, open |-> None]
  /\ run' = Idle
  /\ strikes' = 0

\* The entry is unloaded and set up again.
Reload ==
  /\ May("reload")
  /\ Forget
  /\ UNCHANGED <<file, calm, live, notes>>

\* HA restarts: its notifications go too.
Restart ==
  /\ May("restart")
  /\ Forget
  /\ notes' = {}
  /\ UNCHANGED <<file, calm, live>>

CalmDown ==
  /\ May("calm")
  /\ calm' = TRUE
  /\ UNCHANGED <<file, mesh, inst, notes, run, strikes>>

Time ==
  \/ IntervalElapses
  \/ \E s \in Slots : RequestOverdue(s)
  \/ CircuitCools

World ==
  \/ Edit
  \/ \E s \in Slots, route \in HandRoutes \cup {None} : HandEdit(s, route)
  \/ \E s \in Slots : Wake(s)
  \/ DropQueue
  \/ Reload
  \/ Restart
  \/ May("manual") /\ Begin("manual")
  \/ CalmDown

Next == Steps \/ Time \/ World

Spec == Init /\ [][Next]_vars

\* Time passes, nodes wake, reconciles are scheduled and go on to their end.
FairSpec ==
  /\ Spec
  /\ WF_vars(Steps)
  /\ SF_vars(IntervalElapses)
  /\ SF_vars(\E s \in Slots : RequestOverdue(s))
  /\ WF_vars(\E s \in Slots : Wake(s))
  /\ SF_vars(CircuitCools)
-----------------------------------------------------------------------------
(* What must hold.                                                         *)

\* Whatever getNodes leaves out or reads as none, no route of a node is ever
\* cleared that the file this reconcile read has a line for (the resolve errors
\* abort before diff_and_plan takes an unresolved node for an unmanaged one).
ListedNeverCleared ==
  run.phase = "apply" =>
    \A s \in Actions : s[1] \in NodesOf(run.config) => Intent(s) # None

\* A route command that waits to change its node is not given to Z-Wave JS
\* again before it is overdue, unless the file changed or the instance lost its
\* memory in between: every completed reconcile keeps what it still waits for.
NoEarlyResend ==
  run.phase = "apply" =>
    \A s \in Actions :
      /\ Listed(s)
      /\ queued[s] # None /\ queued[s].to = Intent(s)
      /\ ~MatchesRoute(live[s], run.wanted[s[1]])
      => queued[s].free

\* A sleeping node is shown to have a route only when the controller reported
\* it: as long as a command still waits, what is shown is what the node has (a
\* reconcile that is cut off or rejected leaves what was shown before it).
AppliedLanded ==
  \A s \in Slots :
    Waits(s) /\ queued[s] # None /\ applied[s] # None
      => live[s] # None /\ live[s].via = applied[s].via

\* A controller that does not answer gets at most Threshold scheduled calls in
\* a row before a cool-down, whatever people trigger by hand in between.
BackOff == strikes <= Threshold

GoodFile == ~ParseErrors(file) /\ ~ResolveErrors(Parsed(file), DOMAIN Devices)

\* Every listed node has its route and, if so configured, no other node one.
Routed ==
  LET wanted == RoutesOf(Parsed(file), Nodes)
  IN \A s \in Slots :
       IF s[1] \in DOMAIN wanted THEN MatchesRoute(live[s], wanted[s[1]])
       ELSE ClearUnmanaged => live[s] = None

\* Once people, the driver and the connection let it, the routes become what
\* the file says and stay so, whatever was sent, lost or forgotten before.
RoutesConverge == <>[](calm /\ GoodFile => Routed)

\* And no notification outlives its cause.
NotesSettle == <>[](calm /\ GoodFile => notes = {})
==============================================================================
