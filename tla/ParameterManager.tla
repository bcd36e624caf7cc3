--------------------------- MODULE ParameterManager ---------------------------
(***************************************************************************)
(* The Z-Wave Parameter Manager (ZPM): the handler's reconcile, and        *)
(* `zwavectl param-manager apply', which does the same from a shell, share *)
(* two files.  The driver-session record (driver_session.py) holds the     *)
(* message counters last seen: lower ones mean that the driver restarted   *)
(* and lost what was queued in it.  The pending file (pending_store.py)    *)
(* holds the writes issued since, so that nobody issues them again.        *)
(*                                                                         *)
(* Each file is read and replaced under its lock, hence in one step; what  *)
(* one actor does between two of its steps the other does not see.  The    *)
(* counters are sampled first and folded into the record later, in a job   *)
(* of the executor, by the handler and by the integration's session        *)
(* monitor.  A time is the number of driver resets recorded by then:       *)
(* nothing else is ever compared with one.  (A reset is stamped when it is *)
(* folded, which is the moment of the sample or shortly after.)            *)
(***************************************************************************)
EXTENDS ParameterPolicy

CONSTANTS
  Nodes,       \* the nodes, as the adapter reads them
  Texts,       \* contents of the policy file: sequences of raw policies
  CliTexts,    \* those of them with which somebody uses zwavectl
  Factory,     \* the raw value every parameter starts with
  Reporting,   \* report_desired_configuration
  MaxCount,    \* bound: the message counter stays at its maximum
  MaxRestarts, \* bound: restarts of the driver
  MaxCli,      \* bound: runs of zwavectl
  MaxResets,   \* bound: with so many resets recorded the monitor samples no more
  Env          \* what the surroundings do in this instance

EnvKinds == {"edit", "mapping", "down", "hand", "join", "joincli", "ha", "cut", "kill",
             "fail"}

Actors == {"handler", "cli", "monitor"}

Keys == UNION {{<<n.id, v.id>> : v \in {w \in n.values : Settable(w)}} : n \in Nodes}

-----------------------------------------------------------------------------
(* The plan of a run, as a function from keys to values.                   *)

\* read_fleet: every node the driver lists, with or without a device entry.
Fleet(nodes) == {Device(n) : n \in nodes}

\* plan_and_report, for every policy file that parses and the nodes there are.
Plans ==
  {[text |-> t, nodes |-> n, plan |-> EvaluatePolicies(Fleet(n), ParsedPolicies(t))] :
     t \in {u \in Texts : ~ConfigErrors(u)}, n \in SUBSET Nodes}

PlanOf(text, nodes) == (CHOOSE p \in Plans : p.text = text /\ p.nodes = nodes).plan

RawsFor(plan, k) == {w.value : w \in {x \in plan.writes : <<x.device.node, x.id>> = k}}

Wanted(plan) ==
  [k \in {<<w.device.node, w.id>> : w \in plan.writes} |->
     CHOOSE raw \in RawsFor(plan, k) : TRUE]

\* What may stand in the driver's queue and in the pending file.
Raws   == UNION {{w.value : w \in p.plan.writes} : p \in Plans}
Wants  == UNION {[S -> Raws] : S \in SUBSET Keys}
Writes == [value : Raws, began : Nat \cup {None}, issued : Nat]
Files  == [issued : Nat, want : Wants]

ASSUME ManagerAssumption ==
  /\ \A m, n \in Nodes : m.id = n.id => m = n
  /\ CliTexts \subseteq Texts
  /\ MaxCount \in Nat \ {0} /\ MaxRestarts \in Nat /\ MaxCli \in Nat
  /\ MaxResets \in Nat
  /\ Reporting \in BOOLEAN
  /\ Env \subseteq EnvKinds
  /\ None \notin Nat /\ None \notin Writes /\ None \notin Files
-----------------------------------------------------------------------------
VARIABLES
  file,    \* contents of the policy file
  there,   \* nodes included so far
  actual,  \* per key: the value the node holds
  queue,   \* per key: the write the driver holds for the node, with a history of
           \* when it was issued last and when the reconcile began that did it
           \* (None: by somebody else, or before the file was edited); or None
  driver,  \* up; its message counter (RX and TX as one)
  session, \* zwave-js-info.json: count, reset
  pending, \* zpm_pending.json: issued, commands; or None
  clock,   \* resets recorded so far
  memory,  \* ZpmInstanceState: changed (mtime is not last_config_mtime), nodes
           \* (last_configured_nodes); edited (since a reconcile read the mtime)
  notes,   \* the notifications shown
  desired, \* what the desired-configuration notification says, or None
  run,     \* per actor: the run under way
  noticed, \* history: counters of this driver session have been recorded
  shared,  \* somebody uses zwavectl here (then nobody edits the file)
  restarts, clis, \* history: how many of each
  calm     \* from now on the surroundings leave everything alone

world == <<file, there, actual, driver, noticed, shared, restarts, clis, calm>>
shown == <<memory, notes, desired>>
vars  == <<world, queue, session, pending, clock, shown, run>>

May(kind) == kind \in Env /\ ~calm

Idle == [phase |-> "idle"]

Ids(nodes) == {n.id : n \in nodes}

\* What a node may hold: the factory value and what was ever written.
Held == Raws \cup {Factory}

\* The runs of an actor, by how far they have come.
HandlerRuns ==
  {Idle}
  \cup [phase : {"load"}, now : 0..clock, changed : BOOLEAN]
  \cup [phase : {"session"}, now : 0..clock, changed : BOOLEAN, issues : BOOLEAN,
        unused : BOOLEAN, want : Wants, seen : [Keys -> Held]]
  \cup [phase : {"fold"}, now : 0..clock, changed : BOOLEAN, issues : BOOLEAN,
        unused : BOOLEAN, want : Wants, seen : [Keys -> Held], count : 0..MaxCount,
        current : BOOLEAN]
  \cup [phase : {"decide"}, now : 0..clock, changed : BOOLEAN, issues : BOOLEAN,
        unused : BOOLEAN, want : Wants, seen : [Keys -> Held], reset : (0..clock) \cup {None}]
  \cup [phase : {"merge"}, now : 0..clock, changed : BOOLEAN, issues : BOOLEAN,
        unused : BOOLEAN, want : Wants, still : SUBSET Keys, reset : 0..clock]
  \cup [phase : {"report"}, changed : BOOLEAN, issues : BOOLEAN, unused : BOOLEAN,
        want : Wants, still : SUBSET Keys]

CliRuns ==
  {Idle}
  \cup [phase : {"fold"}, want : Wants, seen : [Keys -> Held], count : 0..MaxCount,
        current : BOOLEAN]
  \cup [phase : {"decide"}, want : Wants, seen : [Keys -> Held], now : 0..clock,
        reset : 0..clock]
  \cup [phase : {"merge"}, want : Wants, still : SUBSET Keys, now : 0..clock, reset : 0..clock]

MonitorRuns == {Idle} \cup [phase : {"fold"}, count : 0..MaxCount, current : BOOLEAN]

TypeOK ==
  /\ file \in Texts
  /\ there \subseteq Nodes
  /\ actual \in [Keys -> Held] /\ queue \in [Keys -> Writes \cup {None}]
  /\ driver \in [up : BOOLEAN, count : 0..MaxCount]
  /\ session \in [count : 0..MaxCount, reset : {clock}] /\ clock \in Nat
  /\ pending \in Files \cup {None}
  /\ pending # None => pending.issued <= clock /\ DOMAIN pending.want # {}
  /\ noticed \in BOOLEAN /\ shared \in BOOLEAN /\ calm \in BOOLEAN
  /\ restarts \in 0..MaxRestarts /\ clis \in 0..MaxCli
  /\ memory \in [changed : BOOLEAN, edited : BOOLEAN, nodes : {None} \cup SUBSET Ids(Nodes)]
  /\ notes \subseteq {"config", "internal", "unavailable", "plan_issues", "pending", "unused"}
  /\ desired \in Wants \cup {None}
  /\ DOMAIN run = Actors /\ run["handler"] \in HandlerRuns /\ run["cli"] \in CliRuns
  /\ run["monitor"] \in MonitorRuns
  /\ \A a \in Actors : run[a].phase = "merge" => run[a].still \subseteq DOMAIN run[a].want

Init ==
  /\ shared \in IF MaxCli > 0 THEN BOOLEAN ELSE {FALSE}
  /\ file \in IF shared THEN CliTexts ELSE Texts
  /\ there \in IF "join" \in Env THEN SUBSET Nodes ELSE {Nodes}
  /\ actual = [k \in Keys |-> Factory]
  /\ queue = [k \in Keys |-> None]
  /\ driver = [up |-> TRUE, count |-> 1]
  /\ session = [count |-> 1, reset |-> 0]
  /\ pending = None
  /\ clock = 0
  /\ memory = [changed |-> TRUE, edited |-> FALSE, nodes |-> None]
  /\ notes = {}
  /\ desired = None
  /\ run = [a \in Actors |-> Idle]
  /\ noticed = TRUE
  /\ restarts = 0 /\ clis = 0
  /\ calm = FALSE
-----------------------------------------------------------------------------
(* The nodes of a plan.                                                    *)

\* The node has a device entry, so that writes to it can be issued.
Known(k) == \E n \in there : n.id = k[1] /\ n.registered

NodesIn(want) == {k[1] : k \in DOMAIN want}
-----------------------------------------------------------------------------
(* The two files.                                                          *)

\* Mutant: the counters compared the other way round.
RestartedAbove(count) == count > session.count

\* The driver restarted, as far as the record can tell.
Restarted(count) == count < session.count

\* driver_session.refresh with the counters a caller read.
RefreshSession(count) ==
  /\ session' = [count |-> count,
                 reset |-> IF Restarted(count) THEN clock + 1 ELSE session.reset]
  /\ clock' = IF Restarted(count) THEN clock + 1 ELSE clock

\* An actor folds the counters it sampled a while ago: `current' says whether
\* they are still those of the driver session under way.
Fold(a) ==
  /\ run[a].phase = "fold"
  /\ RefreshSession(run[a].count)
  /\ noticed' = (noticed \/ run[a].current)

NoCommands == [k \in {} |-> None]

\* What the pending file lists, of whatever driver session.
Commands == IF pending = None THEN NoCommands ELSE pending.want

\* Mutant: what was issued in an earlier driver session still counts.
ValidSinceEver(reset) == Commands

\* pending_store.read_valid.
Valid(reset) ==
  IF pending = None \/ pending.issued < reset THEN NoCommands ELSE pending.want

\* ParamConvergence.
Converged(k, want, seen) == seen[k] = want[k]

\* select_writes: what is not there yet is pending, and issued unless it was.
StillWanted(want, seen, valid) == {k \in DOMAIN want : ~Converged(k, want, seen)}

\* Mutant: what is pending is issued again.
ToIssuePending(want, seen, valid) == {k \in DOMAIN want : ~Converged(k, want, seen)}

ToIssue(want, seen, valid) ==
  {k \in DOMAIN want : /\ ~Converged(k, want, seen)
                       /\ ~(k \in DOMAIN valid /\ valid[k] = want[k])}

\* The other keys of the file stay, those of the plan are as decided.
Merged(old, want, still) ==
  [k \in (DOMAIN old \ DOMAIN want) \cup still |-> IF k \in still THEN want[k] ELSE old[k]]

\* pending_store.merge.
MergePending(a) ==
  LET valid  == pending # None /\ pending.issued >= run[a].reset
      merged == Merged(Valid(run[a].reset), run[a].want, run[a].still)
  IN pending' = IF DOMAIN merged = {} THEN None
                ELSE [issued |-> IF valid THEN pending.issued ELSE run[a].now,
                      want   |-> merged]

\* The calls reach the driver, which forgets them when it is down.
Issue(keys, want, began) ==
  queue' = [k \in Keys |->
    IF k \notin keys \/ ~driver.up \/ ~Known(k) THEN queue[k]
    ELSE [value |-> want[k], began |-> began, issued |-> clock]]

Enter(a, phase) == run' = [run EXCEPT ![a] = phase]
-----------------------------------------------------------------------------
(* The handler's reconcile, from await to await.                           *)

\* A tick, a kick, the driver's reconnect or a person; the lock of the instance
\* is taken, `now' was when it started, and the mtime is read.
Begin ==
  /\ run["handler"] = Idle
  /\ Enter("handler", [phase |-> "load", now |-> clock, changed |-> memory.changed])
  /\ memory' = [memory EXCEPT !.edited = FALSE]
  /\ UNCHANGED <<world, queue, session, pending, clock, notes, desired>>

\* A reconcile that ends early leaves all other notifications as they are.
EndsEarly(note) ==
  /\ notes' = (notes \ {"config", "internal"}) \cup {note}
  /\ Enter("handler", Idle)
  /\ UNCHANGED <<memory, desired>>

\* The policy file, the mapping table and the fleet are read, and planned for.
Load ==
  /\ run["handler"].phase = "load"
  /\ \/ /\ ConfigErrors(file)
        /\ notes' = notes \cup {"config"}
        /\ Enter("handler", Idle)
        /\ UNCHANGED <<memory, desired>>
     \/ /\ ~ConfigErrors(file)
        /\ May("mapping")
        /\ EndsEarly("internal")
     \/ /\ ~ConfigErrors(file)
        /\ ~driver.up \/ there = {}
        /\ EndsEarly("unavailable")
     \/ /\ ~ConfigErrors(file)
        /\ driver.up /\ there # {}
        /\ LET plan == PlanOf(file, there)
               r    == run["handler"]
           IN Enter("handler",
                [phase |-> "session", now |-> r.now, changed |-> r.changed,
                 issues |-> (plan.errors # {} \/ plan.warnings # {}),
                 unused |-> (plan.unused # {}), want |-> Wanted(plan), seen |-> actual])
        /\ notes' = notes \ {"config", "internal", "unavailable"}
        /\ UNCHANGED <<memory, desired>>
  /\ UNCHANGED <<world, queue, session, pending, clock>>

\* session_monitor.async_refresh reads the counters on the event loop; without a
\* driver there is no home id, nothing is read as pending and nothing will be
\* merged.
SampleSession ==
  /\ run["handler"].phase = "session"
  /\ LET r == run["handler"]
     IN Enter("handler",
          IF driver.up
          THEN [phase |-> "fold", now |-> r.now, changed |-> r.changed, issues |-> r.issues,
                unused |-> r.unused, want |-> r.want, seen |-> r.seen,
                count |-> driver.count, current |-> TRUE]
          ELSE [phase |-> "decide", now |-> r.now, changed |-> r.changed,
                issues |-> r.issues, unused |-> r.unused, want |-> r.want,
                seen |-> r.seen, reset |-> None])
  /\ UNCHANGED <<world, queue, session, pending, clock, shown>>

\* driver_session.refresh, in the executor.
ReadSession ==
  /\ Fold("handler")
  /\ LET r == run["handler"]
     IN Enter("handler",
          [phase |-> "decide", now |-> r.now, changed |-> r.changed, issues |-> r.issues,
           unused |-> r.unused, want |-> r.want, seen |-> r.seen, reset |-> session'.reset])
  /\ UNCHANGED <<file, there, actual, driver, shared, restarts, clis, calm, queue,
                 pending, shown>>

\* All that is left of a reconcile is to report.
ToReport(r, still) ==
  [phase |-> "report", changed |-> r.changed, issues |-> r.issues, unused |-> r.unused,
   want |-> r.want, still |-> still]

\* read_valid, select_writes and _dispatch_writes: what has no device id is
\* pending, too.
Decide ==
  /\ run["handler"].phase = "decide"
  /\ LET r     == run["handler"]
         valid == IF r.reset = None THEN NoCommands ELSE Valid(r.reset)
     IN /\ Issue(ToIssue(r.want, r.seen, valid), r.want,
                IF shared \/ memory.edited THEN None ELSE r.now)
        /\ Enter("handler",
             IF r.reset = None THEN ToReport(r, StillWanted(r.want, r.seen, valid))
             ELSE [phase |-> "merge", now |-> r.now, changed |-> r.changed,
                   issues |-> r.issues, unused |-> r.unused, want |-> r.want,
                   still |-> StillWanted(r.want, r.seen, valid), reset |-> r.reset])
  /\ UNCHANGED <<world, session, pending, clock, shown>>

Merge ==
  /\ run["handler"].phase = "merge"
  /\ MergePending("handler")
  /\ Enter("handler", ToReport(run["handler"], run["handler"].still))
  /\ UNCHANGED <<world, queue, session, clock, shown>>

\* Mutant: an edit that configures the same nodes is not reported.
ToldForNodes(r) == memory.nodes = None \/ memory.nodes # NodesIn(r.want)

\* The desired configuration may differ from what was last reported.
Told(r) == memory.nodes = None \/ r.changed \/ memory.nodes # NodesIn(r.want)

\* The reports.  The pending one is published anew once per interval, and shown
\* from the first reconcile that finds something pending to the first that does
\* not; the desired one when it may have changed.
Report ==
  /\ run["handler"].phase = "report"
  /\ LET r == run["handler"]
     IN /\ notes' = (notes \ {"plan_issues", "unused", "pending"})
                    \cup (IF r.issues THEN {"plan_issues"} ELSE {})
                    \cup (IF r.unused THEN {"unused"} ELSE {})
                    \cup (IF r.still # {} THEN {"pending"} ELSE {})
        /\ desired' = IF ~Reporting THEN None ELSE IF Told(r) THEN r.want ELSE desired
        /\ memory' = [changed |-> memory.edited, edited |-> FALSE,
                      nodes   |-> IF Reporting THEN NodesIn(r.want) ELSE None]
  /\ Enter("handler", Idle)
  /\ UNCHANGED <<world, queue, session, pending, clock>>
-----------------------------------------------------------------------------
(* zwavectl param-manager apply.                                           *)

\* One dump of the driver: nodes, values and counters of the same moment.
ServerState == [nodes |-> there, seen |-> actual, count |-> driver.count]

\* Joined with Home Assistant's registries, it makes the fleet read_fleet makes.
CliFleet(state) == Fleet(state.nodes)

\* The policies, the fleet and the counters are read.
CliBegin ==
  /\ shared /\ ~calm
  /\ clis < MaxCli
  /\ run["cli"] = Idle
  /\ ~ConfigErrors(file) /\ driver.up
  /\ clis' = clis + 1
  /\ LET state == ServerState
         plan  == EvaluatePolicies(CliFleet(state), ParsedPolicies(file))
     IN Enter("cli", [phase |-> "fold", want |-> Wanted(plan), seen |-> state.seen,
                      count |-> state.count, current |-> TRUE])
  /\ UNCHANGED <<file, there, actual, driver, noticed, shared, restarts, calm, queue,
                 session, pending, clock, shown>>

\* driver_session.refresh with the counters of the dump; `now' is its now.
CliSession ==
  /\ Fold("cli")
  /\ Enter("cli", [phase |-> "decide", want |-> run["cli"].want, seen |-> run["cli"].seen,
                   now |-> clock', reset |-> session'.reset])
  /\ UNCHANGED <<file, there, actual, driver, shared, restarts, clis, calm, queue,
                 pending, shown>>

\* Call after call until one fails: that one and the rest are not issued.
CliIssue(writes, failed, want) ==
  /\ failed \subseteq writes
  /\ Issue(writes \ failed, want, None)

\* With --dry-run it ends here; with --force nothing counts as pending; a call
\* that fails ends it before the merge.
CliDecide(dry, force, failed) ==
  /\ run["cli"].phase = "decide"
  /\ LET r      == run["cli"]
         valid  == IF force THEN NoCommands ELSE Valid(r.reset)
         writes == ToIssue(r.want, r.seen, valid)
     IN /\ CliIssue(IF dry THEN {} ELSE writes, failed, r.want)
        /\ Enter("cli", IF dry \/ failed # {} THEN Idle
                        ELSE [phase |-> "merge", want |-> r.want,
                              still |-> StillWanted(r.want, r.seen, valid),
                              now |-> r.now, reset |-> r.reset])
  /\ UNCHANGED <<world, session, pending, clock, shown>>

CliMerge ==
  /\ run["cli"].phase = "merge"
  /\ MergePending("cli")
  /\ Enter("cli", Idle)
  /\ UNCHANGED <<world, queue, session, clock, shown>>

CliKilled ==
  /\ May("kill")
  /\ run["cli"] # Idle
  /\ Enter("cli", Idle)
  /\ UNCHANGED <<world, queue, session, pending, clock, shown>>
-----------------------------------------------------------------------------
(* The surroundings.                                                       *)

\* session_monitor, once at setup and every minute: it reads the counters ...
MonitorSamples ==
  /\ run["monitor"] = Idle /\ ~calm
  /\ driver.up /\ clock < MaxResets
  /\ Enter("monitor", [phase |-> "fold", count |-> driver.count, current |-> TRUE])
  /\ UNCHANGED <<world, queue, session, pending, clock, shown>>

\* ... and folds them.
Monitor ==
  /\ Fold("monitor")
  /\ Enter("monitor", Idle)
  /\ UNCHANGED <<file, there, actual, driver, shared, restarts, clis, calm, queue,
                 pending, shown>>

\* Who has sampled the counters and not folded them yet.
Sampling == {a \in Actors : run[a].phase = "fold"}

\* The counters somebody has read, as opposed to those of the driver session
\* under way: what is recorded, what somebody is about to record.
ReadBefore ==
  IF noticed THEN {}
  ELSE {session.count} \cup {run[a].count : a \in {b \in Sampling : ~run[b].current}}

\* Messages are counted.  Between a restart and the next look at the counters
\* they do not climb to what was read before it.
Traffic ==
  /\ driver.up /\ ~calm /\ driver.count < MaxCount
  /\ \A count \in ReadBefore : driver.count + 1 < count
  /\ driver' = [driver EXCEPT !.count = @ + 1]
  /\ UNCHANGED <<file, there, actual, noticed, shared, restarts, clis, calm, queue,
                 session, pending, clock, shown, run>>

\* The node takes the write: at once when awake, at its next wake-up otherwise.
Land(k) ==
  /\ driver.up
  /\ queue[k] # None
  /\ actual' = [actual EXCEPT ![k] = queue[k].value]
  /\ queue' = [queue EXCEPT ![k] = None]
  /\ UNCHANGED <<file, there, driver, noticed, shared, restarts, clis, calm, session,
                 pending, clock, shown, run>>

\* The add-on stops and what is queued in it is lost.  Some message was counted
\* and read before, so that counters starting over can be told.
DriverStops ==
  /\ May("down")
  /\ driver.up /\ restarts < MaxRestarts
  /\ noticed /\ session.count > 0
  /\ \A a \in Sampling : run[a].count > 0
  /\ driver' = [up |-> FALSE, count |-> 0]
  /\ noticed' = FALSE
  /\ queue' = [k \in Keys |-> None]
  /\ restarts' = restarts + 1
  /\ run' = [a \in Actors |-> IF a \in Sampling THEN [run[a] EXCEPT !.current = FALSE]
                             ELSE run[a]]
  /\ UNCHANGED <<file, there, actual, shared, clis, calm, session, pending, clock, shown>>

DriverStarts ==
  /\ ~driver.up
  /\ driver' = [driver EXCEPT !.up = TRUE]
  /\ UNCHANGED <<file, there, actual, noticed, shared, restarts, clis, calm, queue,
                 session, pending, clock, shown, run>>

\* The history starts anew: what is issued after an edit is another command.
Forgiven ==
  [k \in Keys |-> IF queue[k] = None THEN None ELSE [queue[k] EXCEPT !.began = None]]

Edit(text) ==
  /\ May("edit") /\ ~shared
  /\ text # file
  /\ file' = text
  /\ memory' = [memory EXCEPT !.changed = TRUE, !.edited = TRUE]
  /\ queue' = Forgiven
  /\ UNCHANGED <<there, actual, driver, noticed, shared, restarts, clis, calm, session,
                 pending, clock, notes, desired, run>>

\* A node is included; under "joincli" also while zwavectl runs.
Join(n) ==
  /\ May("join")
  /\ n \notin there
  /\ run["cli"] = Idle \/ May("joincli")
  /\ there' = there \cup {n}
  /\ UNCHANGED <<file, actual, driver, noticed, shared, restarts, clis, calm, queue,
                 session, pending, clock, shown, run>>

\* Somebody changes a parameter which the pending file does not list.
HandEdit(k) ==
  /\ May("hand")
  /\ actual[k] # Factory /\ queue[k] = None
  /\ k \notin DOMAIN Commands
  /\ \A a \in Actors : run[a].phase \in {"idle", "load", "report"}
  /\ actual' = [actual EXCEPT ![k] = Factory]
  /\ UNCHANGED <<file, there, driver, noticed, shared, restarts, clis, calm, queue,
                 session, pending, clock, shown, run>>

\* Home Assistant restarts: the instance starts anew, the files stay.  A fold is
\* waited for.  Under "cut" it restarts also between the calls of a reconcile and
\* its merge.
HaRestarts ==
  /\ May("ha")
  /\ run["handler"].phase # "fold" /\ run["monitor"] = Idle
  /\ run["handler"].phase = "merge" => May("cut")
  /\ memory' = [changed |-> TRUE, edited |-> FALSE, nodes |-> None]
  /\ notes' = {}
  /\ desired' = None
  /\ Enter("handler", Idle)
  /\ UNCHANGED <<world, queue, session, pending, clock>>

CalmDown ==
  /\ ~calm
  /\ calm' = TRUE
  /\ UNCHANGED <<file, there, actual, driver, noticed, shared, restarts, clis, queue,
                 session, pending, clock, shown, run>>

Handler == Begin \/ Load \/ SampleSession \/ ReadSession \/ Decide \/ Merge \/ Report

Cli ==
  \/ CliBegin
  \/ CliSession
  \/ \E dry, force \in BOOLEAN,
        failed \in IF May("fail") THEN SUBSET Keys ELSE {{}} : CliDecide(dry, force, failed)
  \/ CliMerge
  \/ CliKilled

World ==
  \/ MonitorSamples
  \/ Monitor
  \/ Traffic
  \/ \E k \in Keys : Land(k)
  \/ DriverStops
  \/ DriverStarts
  \/ \E text \in Texts : Edit(text)
  \/ \E n \in Nodes : Join(n)
  \/ \E k \in Keys : HandEdit(k)
  \/ HaRestarts
  \/ CalmDown

Next == Handler \/ Cli \/ World

Spec == Init /\ [][Next]_vars

\* Reconciles are scheduled and go on, nodes wake, the driver comes back.
FairSpec ==
  /\ Spec
  /\ WF_vars(Handler)
  /\ \A k \in Keys : WF_vars(Land(k))
  /\ WF_vars(DriverStarts)
-----------------------------------------------------------------------------
(* What must hold.                                                         *)

\* What the pending file holds for this driver session is true: the node has
\* the value, or the driver still holds the write, or the driver restarted and
\* nobody has looked at its counters yet; so that nothing is held back that
\* nobody will deliver, whoever wrote the file last.  (What belongs to a node
\* without a device entry is listed, and never issued.)
PendingIsQueued ==
  (pending # None /\ pending.issued >= session.reset /\ noticed) =>
    \A k \in {x \in DOMAIN pending.want : Known(x)} :
      \/ actual[k] = pending.want[k]
      \/ queue[k] # None /\ queue[k].value = pending.want[k]
      \/ \E a \in Actors : run[a].phase = "merge" /\ k \in DOMAIN run[a].want

\* The handler is about to issue a write that the driver still holds.
Repeats(k) ==
  LET r == run["handler"]
  IN /\ r.phase = "decide"
     /\ driver.up /\ Known(k)
     /\ k \in ToIssue(r.want, r.seen, IF r.reset = None THEN NoCommands ELSE Valid(r.reset))
     /\ queue[k] # None /\ queue[k].value = r.want[k]

\* `We never pile up duplicates within an epoch' (apply.py): a handler that is
\* alone and not cut off between its calls and its merge issues a write again only
\* because of a driver reset recorded after the reconcile began that issued it;
\* over stale samples, restarts of HA, failed reads, hands, and nodes that join.
RepeatsFollowReset ==
  "cut" \notin Env /\ ~shared =>
    \A k \in Keys : Repeats(k) /\ queue[k].began # None =>
      run["handler"].reset # None /\ run["handler"].reset > queue[k].began

\* `A command issued before the last driver restart was flushed, so it is
\* re-issued; one issued after is still queued and stays suppressed'
\* (docs/zwave_parameter_manager.md): what the pending file lists is issued again
\* only because of a reset recorded after it was issued.  It is not so: the
\* reconcile that finds a restart stamps what it issues with the time it began
\* (handler.py:378), before the reset, so that the next one takes it for flushed.
IssuedOnce ==
  "cut" \notin Env /\ ~shared =>
    \A k \in Keys :
      Repeats(k) /\ queue[k].began # None /\ k \in DOMAIN Commands =>
        run["handler"].reset # None /\ run["handler"].reset > queue[k].issued

Good == ~ConfigErrors(file) /\ there # {}

Target == Wanted(PlanOf(file, there))

\* Once left alone, every device gets what the policies say, whatever was lost
\* in a driver restart, issued by another process or cut off half-way before.
ParametersConverge ==
  <>[](calm /\ Good => \A k \in DOMAIN Target : actual[k] = Target[k])

\* And the reports tell it: nothing is shown as pending, and the desired
\* configuration shown is the one of the file and the nodes there are now.
ReportsSettle ==
  <>[](calm /\ Good => "pending" \notin notes /\ (Reporting => desired = Target))
==============================================================================
