------------------------------- MODULE Watchdog -------------------------------
(***************************************************************************)
(* A watchdog automation: how a scan is started (periodic timer, recovery  *)
(* kick, re-enable tracker, by hand), what it publishes (notifications,    *)
(* and Repairs issues whose fix service looks a payload up), and how the   *)
(* handler of its blueprint survives reloads, renames, removals, restarts. *)
(* The four watchdog handlers differ in the findings they compute; the     *)
(* Battery Watchdog does not await the evaluation, which leaves it fewer   *)
(* behaviours.                                                             *)
(*                                                                         *)
(* Findings are numbers, in the order of their titles and ids.  Those with *)
(* a fix service become repairs where create_repairs is on; the others are *)
(* notifications, of which prepare_notifications shows the first few.      *)
(***************************************************************************)
EXTENDS Integers, FiniteSets

CONSTANTS
  Ids,        \* entity_ids the automation may have
  Findings,   \* what may be wrong with the watched entities
  Fixable,    \* those that have a fix service
  MaxRepairs, \* max_repairs; 0: no cap
  MaxNotes,   \* max_notifications, of findings without a fix service; 0: no cap
  Env,        \* what the surroundings do in this instance
  MaxTrouble, \* bound: how often they do
  None

EnvKinds == {"toggle", "reload", "edit", "remove", "rename", "entry", "ha",
             "hand", "start", "dismiss", "fix", "crash"}

ASSUME WatchdogAssumption ==
  /\ Findings \subseteq Nat /\ IsFiniteSet(Findings) /\ Fixable \subseteq Findings
  /\ MaxRepairs \in Nat /\ MaxNotes \in Nat /\ MaxTrouble \in Nat
  /\ Env \subseteq EnvKinds
  /\ None \notin Ids /\ Ids # {}

Notes == [id : Ids, about : {"finding", "fix"}, of : Findings]
           \cup [id : Ids, about : {"cap", "cap_summary", "config", "crash"}, of : {0}]
Repairs == [id : Ids, of : Findings]

\* An instance: its timer holds the id its tick captured, repairs the payloads.
Instances == [timer : Ids \cup {None}, repairs : SUBSET Repairs]

\* A run of the automation, and the instance object its call got.
Runs == [at : {"called", "evaluating"}, id : Ids, object : Ids \cup {None},
         found : SUBSET Findings, repairs : BOOLEAN]

\* An issue, and whether its instance was dropped or renamed since.
Issues == [repair : Repairs, left : BOOLEAN]

Automations == [id : Ids, there : BOOLEAN, on : BOOLEAN]
Inputs == [good : BOOLEAN, repairs : BOOLEAN]

ASSUME NoneAssumption == None \notin Instances \cup Runs

VARIABLES
  ha,      \* HA is "starting" or "running"
  entry,   \* the config entry is set up: services and listeners exist
  auto,    \* the automation: its id, whether it exists and is on
  input,   \* its inputs: valid; create_repairs
  world,   \* the findings that hold
  insts,   \* _instances: per entity_id None or [timer, repairs]; the timer is
           \* the entity_id its tick captured, or None
  tracked, \* entity_ids the re-enable tracker listens to
  kicks,   \* tasks about to call automation.trigger
  run,     \* the run of the automation (mode: single), or None
  notes,   \* persistent notifications
  issues,  \* Repairs issues one can submit, and a history: left behind by an
           \* instance that was dropped or renamed
  dropped, \* history: a kick met a run that arms no timer any more, and was
           \* dropped; and the service was not called since
  trouble  \* how often the surroundings still interfere

published == <<notes, issues>>
vars == <<ha, entry, auto, input, world, insts, tracked, kicks, run, dropped, published, trouble>>

calm == trouble = 0

May(kind) == kind \in Env /\ ~calm

Interfere == trouble' = trouble - 1

First == CHOOSE i \in Ids : TRUE

NoInstances == [i \in Ids |-> None]

TypeOK ==
  /\ ha \in {"starting", "running"}
  /\ entry \in BOOLEAN
  /\ auto \in Automations
  /\ input \in Inputs
  /\ world \subseteq Findings
  /\ insts \in [Ids -> Instances \cup {None}]
  /\ tracked \subseteq Ids
  /\ kicks \subseteq {"recover", "enable"}
  /\ run \in Runs \cup {None}
  /\ notes \subseteq Notes
  /\ issues \subseteq Issues
  /\ dropped \in BOOLEAN
  /\ trouble \in 0..MaxTrouble

Init ==
  /\ ha = "starting"
  /\ entry = FALSE
  /\ auto \in [id : {First}, there : {TRUE}, on : BOOLEAN]
  /\ input \in [good : {TRUE}, repairs : BOOLEAN]
  /\ world \in SUBSET Findings
  /\ insts = NoInstances
  /\ tracked = {}
  /\ kicks = {}
  /\ run = None
  /\ notes = {}
  /\ issues = {}
  /\ dropped = FALSE
  /\ trouble = MaxTrouble
-----------------------------------------------------------------------------
(* Starting a scan.                                                        *)

\* automation_enabled: not explicitly off.
Enabled(i) == ~(auto.there /\ auto.id = i /\ ~auto.on)

Discovered == IF auto.there THEN {auto.id} ELSE {}

\* automation.trigger: another run, unless one is under way.
Trigger(i) ==
  run' = IF auto.there /\ auto.id = i /\ run = None
         THEN [at |-> "called", id |-> i, object |-> None, found |-> {}, repairs |-> FALSE]
         ELSE run

\* A kick by automation.trigger: with `mode: single' HA drops it while a run is
\* under way.
Kicked(i) ==
  /\ Trigger(i)
  /\ dropped' = (dropped \/ (run # None /\ (run.at = "evaluating" \/ run.id # i)))

\* make_periodic_trigger_callback.
Tick(i) ==
  /\ \E k \in Ids : insts[k] # None /\ insts[k].timer = i
  /\ insts[i] # None
  /\ Enabled(i)
  /\ run = None
  /\ Trigger(i)
  /\ UNCHANGED <<ha, entry, auto, input, world, insts, tracked, kicks, published, trouble, dropped>>

\* recover_at_startup: enabled automations only.
Recover ==
  /\ "recover" \in kicks
  /\ kicks' = kicks \ {"recover"}
  /\ IF \E i \in Discovered : Enabled(i) THEN Kicked(auto.id)
     ELSE UNCHANGED <<run, dropped>>
  /\ UNCHANGED <<ha, entry, auto, input, world, insts, tracked, published, trouble>>

\* The kick of _on_automation_state_change: no second look at the automation.
KickEnabled ==
  /\ "enable" \in kicks
  /\ kicks' = kicks \ {"enable"}
  /\ Kicked(auto.id)
  /\ UNCHANGED <<ha, entry, auto, input, world, insts, tracked, published, trouble>>
-----------------------------------------------------------------------------
(* What a scan publishes.                                                  *)

\* The first n of a set of findings; all of them for 0.
FirstOf(S, n) ==
  IF n = 0 \/ Cardinality(S) <= n THEN S
  ELSE {f \in S : Cardinality({g \in S : g < f}) < n}

Note(i, about, of) == [id |-> i, about |-> about, of |-> of]

\* prepare_notifications takes those without a fix service below its cap; those
\* with one are notifications without create_repairs.
NotesOf(i, found, repairs) ==
  {Note(i, "finding", f) :
     f \in FirstOf(found \ Fixable, MaxNotes) \cup IF repairs THEN {} ELSE found \cap Fixable}

\* The repairs process_repairs_with_sweep publishes, below the cap.
RepairsOf(i, found, repairs) ==
  IF repairs THEN {[id |-> i, of |-> f] : f \in FirstOf(found \cap Fixable, MaxRepairs)}
  ELSE {}

\* A summary each takes the place of what is above the caps.
SummaryOf(i, found, repairs) ==
  {Note(i, about, 0) : about \in
     {x \in {"cap", "cap_summary"} :
        IF x = "cap" THEN FirstOf(found \ Fixable, MaxNotes) # found \ Fixable
        ELSE repairs /\ FirstOf(found \cap Fixable, MaxRepairs) # found \cap Fixable}}

\* What is under the prefix of the other instances.
Others(i, S) == {n \in S : n.id # i}

OtherIssues(i) == {x \in issues : x.repair.id # i}

\* Mutant: a batch dismisses only what it names.
PublishWithoutSweep(r) ==
  /\ notes' = notes \cup NotesOf(r.id, r.found, r.repairs)
                   \cup SummaryOf(r.id, r.found, r.repairs)
  /\ issues' = OtherIssues(r.id)
                 \cup {[repair |-> x, left |-> r.object # r.id] :
                         x \in RepairsOf(r.id, r.found, r.repairs)}

\* process_repairs_with_sweep: both surfaces say what this scan found, and
\* nothing else under the prefix of the instance.
PublishAll(r) ==
  /\ notes' = Others(r.id, notes) \cup {n \in notes : n.about = "fix"}
                 \cup NotesOf(r.id, r.found, r.repairs)
                 \cup SummaryOf(r.id, r.found, r.repairs)
  /\ issues' = OtherIssues(r.id)
                 \cup {[repair |-> x, left |-> r.object # r.id] :
                         x \in RepairsOf(r.id, r.found, r.repairs)}

\* Mutant: the cap takes the findings in another order than the batch.
PayloadsOfLast(r) ==
  LET all   == r.found \cap Fixable
      first == FirstOf(all, MaxRepairs)
  IN {[id |-> r.id, of |-> f] : f \in IF all = first THEN all ELSE all \ first}

\* What the fix services will find: the payloads of the published repairs.
Payloads(r) == RepairsOf(r.id, r.found, r.repairs)
-----------------------------------------------------------------------------
(* A run of the automation: one call of the service.                       *)

\* Mutant: a reload does not reset the armed interval.
EnsureTimerOnce(i) ==
  IF insts[i] = None THEN [timer |-> i, repairs |-> {}] ELSE insts[i]

\* setdefault on the instances, and _ensure_timer: the tick captures the id
\* of the instance.
EnsureTimer(i) ==
  IF insts[i] = None THEN [timer |-> i, repairs |-> {}]
  ELSE IF insts[i].timer # None THEN insts[i]
  ELSE [insts[i] EXCEPT !.timer = i]

\* The service is gone: the call fails in the automation.
CallFails ==
  /\ run # None /\ run.at = "called"
  /\ ~entry
  /\ run' = None
  /\ UNCHANGED <<ha, entry, auto, input, world, insts, tracked, kicks, published, trouble, dropped>>

\* _async_argparse with errors in the inputs.
CallRejected ==
  /\ run # None /\ run.at = "called"
  /\ entry /\ ~input.good
  /\ notes' = (notes \cup {Note(run.id, "config", 0)}) \ {Note(run.id, "crash", 0)}
  /\ run' = None
  /\ UNCHANGED <<ha, entry, auto, input, world, insts, tracked, kicks, issues, trouble, dropped>>

\* _async_argparse and _async_service_layer up to the evaluation, which works
\* on what it read by then.
Call ==
  /\ run # None /\ run.at = "called"
  /\ entry /\ input.good
  /\ notes' = notes \ {Note(run.id, "config", 0)}
  /\ insts' = [insts EXCEPT ![run.id] = EnsureTimer(run.id)]
  /\ run' = [run EXCEPT !.at = "evaluating", !.object = run.id, !.found = world,
                        !.repairs = input.repairs]
  /\ dropped' = (dropped /\ run.id # auto.id)
  /\ UNCHANGED <<ha, entry, auto, input, world, tracked, kicks, issues, trouble>>

\* Mutant: the instance is looked up, or made, again after the evaluation.
PublishAnew ==
  /\ run # None /\ run.at = "evaluating"
  /\ PublishAll(run)
  /\ insts' = [insts EXCEPT ![run.id] =
                 [timer |-> IF @ = None THEN None ELSE @.timer, repairs |-> Payloads(run)]]
  /\ run' = None
  /\ UNCHANGED <<ha, entry, auto, input, world, tracked, kicks, trouble, dropped>>

\* The rest of _async_service_layer.  The payloads go to the object the run
\* got, wherever that is by now.
Publish ==
  /\ run # None /\ run.at = "evaluating"
  /\ PublishAll(run)
  /\ insts' = IF run.object = None THEN insts
              ELSE [insts EXCEPT ![run.object].repairs = Payloads(run)]
  /\ run' = None
  /\ UNCHANGED <<ha, entry, auto, input, world, tracked, kicks, trouble, dropped>>

\* _service_wrapper: an exception of the handler is shown, and raised again.
Crash ==
  /\ May("crash")
  /\ run # None /\ run.at = "evaluating"
  /\ notes' = notes \cup {Note(run.id, "crash", 0)}
  /\ run' = None
  /\ Interfere
  /\ UNCHANGED <<ha, entry, auto, input, world, insts, tracked, kicks, issues, dropped>>
-----------------------------------------------------------------------------
(* Repairs: the flow of an issue and the fix service it names.             *)

Evaluating == run # None /\ run.at = "evaluating"

\* _lookup_repair, over all instances.
Found(x) == \E k \in Ids : insts[k] # None /\ x \in insts[k].repairs

\* WatchdogFixFlow: the service returns, hence the flow ends and HA deletes the
\* issue, whether a payload was found or not.
Submit(x) ==
  /\ May("fix")
  /\ x \in issues
  /\ entry
  /\ world' = IF Found(x.repair) THEN world \ {x.repair.of} ELSE world
  /\ issues' = issues \ {x}
  /\ notes' = notes \ {Note(x.repair.id, "fix", x.repair.of)}
  /\ Interfere
  /\ UNCHANGED <<ha, entry, auto, input, insts, tracked, kicks, run, dropped>>

\* The fix service fails: register_fix_service shows it and raises, hence the
\* issue stays.
SubmitCrashes(x) ==
  /\ May("fix") /\ May("crash")
  /\ x \in issues
  /\ entry /\ Found(x.repair)
  /\ notes' = notes \cup {Note(x.repair.id, "fix", x.repair.of)}
  /\ Interfere
  /\ UNCHANGED <<ha, entry, auto, input, world, insts, tracked, kicks, run, issues, dropped>>
-----------------------------------------------------------------------------
(* The life of the config entry and of HA.                                 *)

\* register_blueprint_handler; while HA starts, its automations may not exist.
Setup ==
  /\ ~entry
  /\ entry' = TRUE
  /\ kicks' = IF ha = "running" THEN kicks \cup {"recover"} ELSE kicks
  /\ tracked' \in IF ha = "running" THEN {Discovered} ELSE {{}, Discovered}
  /\ UNCHANGED <<ha, auto, input, world, insts, run, published, trouble, dropped>>

\* _on_started_sync.
Started ==
  /\ ha = "starting"
  /\ ha' = "running"
  /\ kicks' = IF entry THEN kicks \cup {"recover"} ELSE kicks
  /\ tracked' = IF entry THEN Discovered ELSE tracked
  /\ UNCHANGED <<entry, auto, input, world, insts, run, published, trouble, dropped>>

\* The issues of the instances in S are left behind.
LeftBehind(S) ==
  {[repair |-> x.repair, left |-> x.left \/ x.repair.id \in S] : x \in issues}

\* The run under way outlives what happens to its automation, or is stopped.
MaybeCut(r) == run' \in {r, None}

\* unregister_blueprint_handler, on_teardown; HA cancels the entry's tasks.
Teardown ==
  /\ insts' = NoInstances /\ kicks' = {} /\ tracked' = {}
  /\ issues' = LeftBehind(Ids)
  /\ run' = IF run = None THEN None ELSE [run EXCEPT !.object = None]

Unload ==
  /\ May("entry")
  /\ entry
  /\ entry' = FALSE
  /\ Teardown
  /\ Interfere
  /\ UNCHANGED <<ha, auto, input, world, notes, dropped>>

\* Notifications, issues, tasks and instances are in memory only.
HaRestarts ==
  /\ May("ha")
  /\ ha' = "starting" /\ entry' = FALSE
  /\ insts' = NoInstances /\ kicks' = {} /\ tracked' = {}
  /\ run' = None /\ notes' = {} /\ issues' = {} /\ dropped' = FALSE
  /\ Interfere
  /\ UNCHANGED <<auto, input, world>>
-----------------------------------------------------------------------------
(* The life of the automation.                                             *)

\* on_reload of make_lifecycle_mutators.
Disarmed == [i \in Ids |-> IF insts[i] = None THEN None ELSE [insts[i] EXCEPT !.timer = None]]

\* _reload_listener: timers go, everything is kicked, the tracker is refreshed.
ReloadListener ==
  IF entry
  THEN /\ insts' = Disarmed
       /\ kicks' = kicks \cup {"recover"}
       /\ tracked' = {auto'.id : x \in {y \in {0} : auto'.there}}
  ELSE UNCHANGED <<insts, kicks, tracked>>

\* automation.reload, with the automation as it was: HA leaves its run alone.
Reload ==
  /\ May("reload")
  /\ MaybeCut(run)
  /\ UNCHANGED auto
  /\ ReloadListener
  /\ Interfere
  /\ UNCHANGED <<ha, entry, input, world, published, dropped>>

\* Its inputs are edited, or it is created anew: HA replaces it and reloads.
Edit ==
  /\ May("edit")
  /\ input' \in Inputs
  /\ auto' = IF auto.there THEN auto ELSE [auto EXCEPT !.there = TRUE, !.on = TRUE]
  /\ run' = None
  /\ ReloadListener
  /\ Interfere
  /\ UNCHANGED <<ha, entry, world, published, dropped>>

\* on_entity_remove: only the instance goes.
Remove ==
  /\ May("remove")
  /\ auto.there
  /\ auto' = [auto EXCEPT !.there = FALSE]
  /\ insts' = IF entry THEN [insts EXCEPT ![auto.id] = None] ELSE insts
  /\ issues' = LeftBehind({auto.id})
  /\ MaybeCut(IF run = None \/ run.object # auto.id THEN run ELSE [run EXCEPT !.object = None])
  /\ Interfere
  /\ UNCHANGED <<ha, entry, input, world, tracked, kicks, notes, dropped>>

\* on_entity_rename: the instance moves; the timer keeps the id it captured and
\* the tracker its entity_ids.  Bound: the automation is renamed once.
Rename(n) ==
  /\ May("rename")
  /\ auto.there /\ auto.id = First /\ n # First
  /\ auto' = [auto EXCEPT !.id = n]
  /\ insts' = IF entry THEN [insts EXCEPT ![auto.id] = None, ![n] = insts[auto.id]] ELSE insts
  /\ issues' = LeftBehind({auto.id})
  /\ MaybeCut(IF run = None \/ run.object # auto.id THEN run ELSE [run EXCEPT !.object = n])
  /\ Interfere
  /\ UNCHANGED <<ha, entry, input, world, tracked, kicks, notes, dropped>>

\* Turning an automation off stops its run.
TurnOff ==
  /\ May("toggle")
  /\ auto.there /\ auto.on
  /\ auto' = [auto EXCEPT !.on = FALSE]
  /\ MaybeCut(run)
  /\ Interfere
  /\ UNCHANGED <<ha, entry, input, world, insts, tracked, kicks, published, dropped>>

\* _on_automation_state_change, for the ids of the tracker's last refresh.
TurnOn ==
  /\ May("toggle")
  /\ auto.there /\ ~auto.on
  /\ auto' = [auto EXCEPT !.on = TRUE]
  /\ kicks' = IF auto.id \in tracked THEN kicks \cup {"enable"} ELSE kicks
  /\ Interfere
  /\ UNCHANGED <<ha, entry, input, world, insts, tracked, run, published, dropped>>

\* Somebody starts the automation, enabled or not.
StartByHand ==
  /\ May("start")
  /\ auto.there /\ run = None
  /\ Trigger(auto.id)
  /\ Interfere
  /\ UNCHANGED <<ha, entry, auto, input, world, insts, tracked, kicks, published, dropped>>
-----------------------------------------------------------------------------
(* Everything else.                                                        *)

\* A finding comes or goes.
Change(f) ==
  /\ May("hand")
  /\ world' = IF f \in world THEN world \ {f} ELSE world \cup {f}
  /\ Interfere
  /\ UNCHANGED <<ha, entry, auto, input, insts, tracked, kicks, run, published, dropped>>

\* Somebody dismisses a notification or ignores an issue.
Dismiss ==
  /\ May("dismiss")
  /\ \/ (\E n \in notes : notes' = notes \ {n}) /\ UNCHANGED issues
     \/ (\E x \in issues : issues' = issues \ {x}) /\ UNCHANGED notes
  /\ Interfere
  /\ UNCHANGED <<ha, entry, auto, input, world, insts, tracked, kicks, run, dropped>>

CalmDown ==
  /\ ~calm
  /\ trouble' = 0
  /\ UNCHANGED <<ha, entry, auto, input, world, insts, tracked, kicks, run, published, dropped>>

Scans == Call \/ CallRejected \/ CallFails \/ Publish

System ==
  \/ Scans
  \/ \E i \in Ids : Tick(i)
  \/ Recover \/ KickEnabled
  \/ Setup \/ Started

Surroundings ==
  \/ Crash
  \/ \E x \in issues : Submit(x) \/ SubmitCrashes(x)
  \/ Unload \/ HaRestarts
  \/ Reload \/ Edit \/ Remove \/ (\E n \in Ids : Rename(n)) \/ TurnOff \/ TurnOn
  \/ StartByHand
  \/ (\E f \in Findings : Change(f))
  \/ Dismiss
  \/ CalmDown

Next == System \/ Surroundings

\* Tasks of one event loop; timers fire; HA and the entry come up.
Fairness ==
  /\ WF_vars(Scans)
  /\ \A i \in Ids : SF_vars(Tick(i))
  /\ WF_vars(Recover) /\ WF_vars(KickEnabled)
  /\ WF_vars(Setup) /\ WF_vars(Started)

Spec == Init /\ [][Next]_vars

FairSpec == Spec /\ Fairness
-----------------------------------------------------------------------------
(* "a fixable finding is emitted on exactly one surface -- never both"     *)
(* (AUTOMATIONS.md:557): over every switch of create_repairs, whichever    *)
(* scans were cut, crashed or overtaken.                                   *)
OneSurface ==
  \A i \in Ids, f \in Findings :
    Note(i, "finding", f) \in notes => \A x \in issues : x.repair # [id |-> i, of |-> f]

(* A Submit does what it says: every issue on display has its payload,     *)
(* below the cap, across scans, crashes, renames under way and cut runs,   *)
(* unless its instance was dropped or renamed since (_lookup_repair then   *)
(* finds nothing, and the flow ends as if it had).                         *)
SubmitFixes == \A x \in issues : entry /\ ~x.left => Found(x.repair)

(* Once unregistered, nothing is left that would start a scan or hold a    *)
(* timer, whatever run was under way (unregister_blueprint_handler).       *)
UnloadedIsQuiet == ~entry => insts = NoInstances /\ kicks = {} /\ tracked = {}

\* Nothing will start a scan under the id the automation was renamed to.
Unheard ==
  LET i == auto.id IN
  IF insts[i] = None \/ insts[i].timer = None THEN i \notin tracked ELSE insts[i].timer # i

\* The timer was cancelled during a scan, or that scan belongs to a handler that was
\* unregistered; the kick that was to arm a new one came too early and was dropped.
Stranded ==
  /\ dropped
  /\ insts[auto.id] = None \/ insts[auto.id].timer = None

(* "A finding stays until it is fixed or excluded ... the next scan clears *)
(* what an exclude newly covers ... an ignored repair or dismissed         *)
(* notification comes back" (AUTOMATIONS.md:581): left alone, an enabled   *)
(* watchdog ends up showing exactly what holds, crash and configuration    *)
(* notes gone, after reloads, restarts, disabled periods, lost runs,       *)
(* crashes and submits in any order.  Two things stop it for good, until   *)
(* somebody reloads or starts it: a reload or set-up whose kick meets a    *)
(* scan under way (on_reload cancels the timer, helpers_lifecycle.py:444,  *)
(* and `mode: single' drops the kick), and a rename.                       *)
FindingsSettle ==
  <>[](calm =>
         LET i == auto.id IN
         auto.there /\ auto.on /\ input.good /\ ~Stranded /\ ~Unheard =>
           /\ {n \in notes : n.id = i /\ n.about # "fix"} =
                NotesOf(i, world, input.repairs) \cup SummaryOf(i, world, input.repairs)
           /\ {x.repair : x \in {y \in issues : y.repair.id = i}} =
                RepairsOf(i, world, input.repairs))
=============================================================================
