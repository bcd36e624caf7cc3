----------------------- MODULE TriggerEntityController -----------------------
(***************************************************************************)
(* One Trigger Entity Controller (TEC) automation instance: the decision   *)
(* tree of trigger_entity_controller/logic.py, the service layer and the   *)
(* one-shot auto-off wakeup of its handler.py, the lifecycle callbacks the *)
(* handler registers (helpers_lifecycle.py), and what surrounds them in    *)
(* Home Assistant (HA): the live entity states, the automation's queue of  *)
(* runs (mode: queued), the non-blocking turn_on/turn_off calls and time.  *)
(*                                                                         *)
(* Time is kept as time left: `timer' is auto_off_at minus now and         *)
(* `wakeup.left' is what remains of the delay given to async_call_later,   *)
(* both stopping at 0 (due).  Comparing now with auto_off_at in the code   *)
(* is comparing `timer' with 0 here, and the state space stays finite      *)
(* without a last instant, so that liveness can be checked.                *)
(***************************************************************************)
EXTENDS Naturals, Sequences

CONSTANTS
  Controlled,             \* controlled_entities
  Triggers,               \* trigger_entities
  TriggerDisabling,       \* trigger_disabling_entities
  AutoOffDisabling,       \* auto_off_disabling_entities
  TriggerPeriod,          \* trigger_period
  TriggerDisablingPeriod, \* trigger_disabling_period
  ForcesOn,               \* trigger_forces_on
  AutoOff,                \* auto_off_minutes, in ticks; 0 switches auto-off off
  Ids,                    \* entity_ids the automation can be renamed to
  Env,                    \* what the surroundings do in this instance (EnvKinds)
  MaxQueue,               \* "max:" of the blueprint (10 there)
  MaxCmds,                \* bound: with so many calls in flight, wait for them
  None                    \* Python's None

Periods == {"always", "night-time", "day-time"}

Entities == Controlled \cup Triggers \cup TriggerDisabling \cup AutoOffDisabling

\* What the surroundings may do besides sensors going on and off, time passing
\* and calls landing.  A run names the kinds it exercises.
EnvKinds == {"manual", "attribute", "unavailable", "missing", "sun", "lose",
             "overflow", "toggle", "reload", "rename", "restart"}

\* A pending async_call_later: the delay left and the entity_id it captured.
Wakeups == [left : 0..AutoOff, id : Ids]

(* What argparse enforces on a configuration: the roles do not overlap     *)
(* (the two disabling lists may), periods are known, the delay is not      *)
(* negative.                                                               *)
ASSUME ConfigAssumption ==
  /\ Controlled \cap (Triggers \cup TriggerDisabling \cup AutoOffDisabling) = {}
  /\ Triggers \cap (TriggerDisabling \cup AutoOffDisabling) = {}
  /\ "timer" \notin Entities
  /\ TriggerPeriod \in Periods
  /\ TriggerDisablingPeriod \in Periods
  /\ ForcesOn \in BOOLEAN
  /\ AutoOff \in Nat

ASSUME BoundsAssumption ==
  /\ MaxQueue \in Nat \ {0}
  /\ MaxCmds \in Nat \ {0}
  /\ Env \subseteq EnvKinds
  /\ None \notin Nat
  /\ None \notin Wakeups

VARIABLES
  st,       \* hass.states of the configured entities
  day,      \* sun.sun is above_horizon
  enabled,  \* the automation is on
  id,       \* the automation's entity_id, the key of its instance state
  tracked,  \* the entity_id the re-enable tracker listens to
  queue,    \* runs of the automation waiting, each with its trigger variables
  kicks,    \* background tasks about to call automation.trigger
  cmds,     \* per controlled entity, turn_on/turn_off calls still in flight
  timer,    \* TecInstanceState.auto_off_at, as time left, or None
  wakeup,   \* the pending async_call_later with the id its closure holds, or None
  onFor,    \* history: how long each controlled entity has been on
  clearFor  \* history: how long no trigger has been on

env    == <<st, day, onFor, clearFor>>
auto   == <<enabled, id, tracked>>
inst   == <<timer, wakeup>>
vars   == <<st, day, enabled, id, tracked, queue, kicks, cmds, timer, wakeup,
            onFor, clearFor>>

States == {"on", "off", "unavailable", "missing"}

\* The event "timer" is the sentinel entity_id of wakeups and kicks.
Events == [ent : Entities \cup {"timer"}, to : States \cup {""}]
TimerEvent == [ent |-> "timer", to |-> ""]

TypeOK ==
  /\ st \in [Entities -> States]
  /\ day \in BOOLEAN
  /\ enabled \in BOOLEAN
  /\ id \in Ids
  /\ tracked \in Ids
  /\ queue \in Seq(Events) /\ Len(queue) <= MaxQueue
  /\ kicks \subseteq {"recover", "enable"}
  /\ cmds \in [Controlled -> Seq({"on", "off"})]
  /\ timer \in (0..AutoOff) \cup {None}
  /\ wakeup \in Wakeups \cup {None}
  /\ onFor \in [Controlled -> 0..AutoOff]
  /\ clearFor \in 0..AutoOff
-----------------------------------------------------------------------------
(* Reading the live state, as _async_service_layer does before evaluating. *)

AnyOn(S) == \E e \in S : st[e] = "on"

ControlledOn == {e \in Controlled : st[e] = "on"}

TriggersOn == AnyOn(Triggers)

AutoOffDisabled == AnyOn(AutoOffDisabling)

PeriodSuppressed(period) ==
  \/ period = "night-time" /\ day
  \/ period = "day-time" /\ ~day

Suppressed ==
  \/ PeriodSuppressed(TriggerPeriod)
  \/ AnyOn(TriggerDisabling) /\ ~PeriodSuppressed(TriggerDisablingPeriod)

\* _async_argparse rejects the call while a configured entity does not exist.
ConfigOK == \A e \in Entities : st[e] # "missing"

\* determine_event_type; "none" stands for None (a run that does nothing).
EventType(ev) ==
  CASE ev.ent = "timer"               -> "TIMER"
    [] ev.ent # "timer" /\ ev.to \notin {"on", "off"} -> "none"
    [] ev.ent \in Triggers /\ ev.to = "on"    -> "TRIGGER_ON"
    [] ev.ent \in Triggers /\ ev.to = "off"   -> "TRIGGER_OFF"
    [] ev.ent \in Controlled /\ ev.to = "on"  -> "CONTROLLED_ON"
    [] ev.ent \in Controlled /\ ev.to = "off" -> "CONTROLLED_OFF"
    [] OTHER                          -> "DISABLING_CHANGED"
-----------------------------------------------------------------------------
(* Queueing a run: mode "queued" drops what arrives when the queue is full. *)
(* A run that does not exercise overflow keeps the bursts below "max:".     *)

Room(n) == "overflow" \in Env \/ Len(queue) + n <= MaxQueue

Queued(q, ev) == IF Len(q) < MaxQueue THEN Append(q, ev) ELSE q

\* An entity of both disabling lists is watched by two triggers, each firing.
Watchers(e) == IF e \in TriggerDisabling \cap AutoOffDisabling THEN 2 ELSE 1

\* A state change triggers the automation only while it is on.
Trigger(ev) ==
  /\ Room(Watchers(ev.ent))
  /\ \/ ~enabled /\ queue' = queue
     \/ enabled /\ Watchers(ev.ent) = 1 /\ queue' = Queued(queue, ev)
     \/ enabled /\ Watchers(ev.ent) = 2 /\ queue' = Queued(Queued(queue, ev), ev)

\* automation.trigger runs it whether it is on or off.
ForceTrigger ==
  /\ Room(1)
  /\ queue' = Queued(queue, TimerEvent)
-----------------------------------------------------------------------------
(* Handling the run at the head of the queue.                              *)

\* Mutant: an unchanged auto-off time is not scheduled again.
ApplyChangedTimeOnly(t) ==
  /\ timer' = t
  /\ wakeup' = IF t = timer THEN wakeup
               ELSE IF t = None THEN None ELSE [left |-> t, id |-> id]

\* Mutant: clearing the auto-off time leaves the wakeup armed.
ApplyWithoutCancel(t) ==
  /\ timer' = t
  /\ wakeup' = IF t = None THEN wakeup ELSE [left |-> t, id |-> id]

\* update of auto_off_at, with the previous wakeup cancelled in every case.
ApplyAutoOffAt(t) ==
  /\ timer' = t
  /\ wakeup' = IF t = None THEN None ELSE [left |-> t, id |-> id]

\* The Result of an evaluation applied: the call, then the auto-off time.
Apply(targets, to, t) ==
  /\ cmds' = [e \in Controlled |->
                IF e \in targets THEN Append(cmds[e], to) ELSE cmds[e]]
  /\ ApplyAutoOffAt(t)

DoNothing(t) == cmds' = cmds /\ ApplyAutoOffAt(t)

\* The service layer reached with an event of the given type.
Handling(type) ==
  /\ queue # <<>>
  /\ ConfigOK
  /\ EventType(Head(queue)) = type
  /\ queue' = Tail(queue)
  /\ UNCHANGED <<env, auto, kicks>>

\* A run that ends before the evaluation: a configuration error, or a state
\* change that is not on/off.
HandleNothing ==
  /\ queue # <<>>
  /\ ~ConfigOK \/ EventType(Head(queue)) = "none"
  /\ queue' = Tail(queue)
  /\ UNCHANGED <<env, auto, kicks, cmds, inst>>

\* Mutant: the countdown goes on when everything is on already.
TriggerOnKeepsTimer ==
  /\ Handling("TRIGGER_ON")
  /\ \/ (Suppressed \/ ControlledOn # {}) /\ DoNothing(timer)
     \/ ~Suppressed /\ ControlledOn = {} /\ Apply(Controlled, "on", None)

\* Mutant: the call is sent to the entities that are on.
TriggerOnTargetsOn ==
  /\ Handling("TRIGGER_ON")
  /\ \/ Suppressed /\ DoNothing(timer)
     \/ ~Suppressed /\ ControlledOn # {} /\ DoNothing(None)
     \/ ~Suppressed /\ ControlledOn = {} /\ Apply(ControlledOn, "on", None)

HandleTriggerOn ==
  /\ Handling("TRIGGER_ON")
  /\ \/ Suppressed /\ DoNothing(timer)
     \/ ~Suppressed /\ ControlledOn # {} /\ DoNothing(None)
     \/ ~Suppressed /\ ControlledOn = {} /\ Apply(Controlled, "on", None)

HandleTriggerOff ==
  /\ Handling("TRIGGER_OFF")
  /\ LET start == AutoOff > 0 /\ ControlledOn # {} /\ ~AutoOffDisabled
     IN  \/ TriggersOn /\ DoNothing(timer)
         \/ ~TriggersOn /\ start /\ DoNothing(AutoOff)
         \/ ~TriggersOn /\ ~start /\ DoNothing(None)

\* Mutant: a countdown that runs already is not restarted.
ControlledOnKeepsTimer ==
  /\ Handling("CONTROLLED_ON")
  /\ LET start == AutoOff > 0 /\ ~TriggersOn /\ ~AutoOffDisabled
     IN  \/ start /\ timer # None /\ DoNothing(timer)
         \/ start /\ timer = None /\ DoNothing(AutoOff)
         \/ ~start /\ DoNothing(None)

HandleControlledOn ==
  /\ Handling("CONTROLLED_ON")
  /\ LET start == AutoOff > 0 /\ ~TriggersOn /\ ~AutoOffDisabled
     IN  \/ start /\ DoNothing(AutoOff)
         \/ ~start /\ DoNothing(None)

\* Mutant: the force-on is sent to what is still on.
ControlledOffTargetsOn ==
  /\ Handling("CONTROLLED_OFF")
  /\ LET force == ForcesOn /\ TriggersOn /\ ~Suppressed
     IN  \/ force /\ Apply(ControlledOn, "on", timer)
         \/ ~force /\ ControlledOn # {} /\ DoNothing(timer)
         \/ ~force /\ ControlledOn = {} /\ DoNothing(None)

HandleControlledOff ==
  /\ Handling("CONTROLLED_OFF")
  /\ LET force == ForcesOn /\ TriggersOn /\ ~Suppressed
     IN  \/ force /\ Apply({Head(queue).ent}, "on", timer)
         \/ ~force /\ ControlledOn # {} /\ DoNothing(timer)
         \/ ~force /\ ControlledOn = {} /\ DoNothing(None)

\* A countdown may start: something is on, nothing holds it on, none is running.
CanStart ==
  /\ timer = None /\ AutoOff > 0
  /\ ControlledOn # {} /\ ~TriggersOn /\ ~AutoOffDisabled

HandleDisablingChanged ==
  /\ Handling("DISABLING_CHANGED")
  /\ \/ AutoOffDisabled /\ DoNothing(None)
     \/ ~AutoOffDisabled /\ CanStart /\ DoNothing(AutoOff)
     \/ ~AutoOffDisabled /\ ~CanStart /\ DoNothing(timer)

\* The auto-off time has come.
Expired == timer # None /\ timer = 0 /\ ~AutoOffDisabled

\* Mutant: no catch-up.
TimerWithoutCatchUp ==
  /\ Handling("TIMER")
  /\ \/ Expired /\ ControlledOn = {} /\ DoNothing(None)
     \/ Expired /\ ControlledOn # {} /\ Apply(ControlledOn, "off", None)
     \/ ~Expired /\ DoNothing(timer)

HandleTimer ==
  /\ Handling("TIMER")
  /\ \/ Expired /\ ControlledOn = {} /\ DoNothing(None)
     \/ Expired /\ ControlledOn # {} /\ Apply(ControlledOn, "off", None)
     \/ CanStart /\ DoNothing(AutoOff)
     \/ ~Expired /\ ~CanStart /\ DoNothing(timer)

Handle ==
  \/ HandleNothing
  \/ HandleTriggerOn
  \/ HandleTriggerOff
  \/ HandleControlledOn
  \/ HandleControlledOff
  \/ HandleDisablingChanged
  \/ HandleTimer
-----------------------------------------------------------------------------
(* The wakeup and the background kicks.                                    *)

\* _on_wakeup looks the instance up under the id its closure captured.
FireWakeup ==
  /\ wakeup # None
  /\ wakeup.left = 0
  /\ wakeup' = None
  /\ \/ wakeup.id = id /\ ForceTrigger
     \/ wakeup.id # id /\ queue' = queue
  /\ UNCHANGED <<env, auto, kicks, cmds, timer>>

\* The recovery kick skips a disabled automation, the re-enable kick does not ask.
Kick(k) ==
  /\ k \in kicks
  /\ kicks' = kicks \ {k}
  /\ \/ (k = "enable" \/ enabled) /\ ForceTrigger
     \/ k = "recover" /\ ~enabled /\ queue' = queue
  /\ UNCHANGED <<env, auto, cmds, inst>>
-----------------------------------------------------------------------------
(* The surroundings.                                                       *)

\* The state machine after entity e goes to state s, and the run it triggers.
SetState(e, s) ==
  /\ st' = [st EXCEPT ![e] = s]
  /\ onFor' = [c \in Controlled |-> IF c = e THEN 0 ELSE onFor[c]]
  /\ clearFor' = IF e \in Triggers /\ (st[e] = "on" \/ s = "on")
                   THEN 0 ELSE clearFor
  /\ Trigger([ent |-> e, to |-> s])

\* Bound: time and sensors wait while MaxCmds calls to an entity are in flight.
FewCmds == \A e \in Controlled : Len(cmds[e]) < MaxCmds

\* A sensor, or somebody else's hand on a controlled entity.
Change(e, s) ==
  /\ FewCmds
  /\ s # st[e]
  /\ e \in Controlled /\ {st[e], s} \subseteq {"on", "off"} => "manual" \in Env
  /\ "unavailable" \in {st[e], s} => "unavailable" \in Env
  /\ "missing" \in {st[e], s} => "missing" \in Env
  /\ SetState(e, s)
  /\ UNCHANGED <<day, auto, kicks, cmds, inst>>

\* The state triggers have no "to:", so that an attribute update triggers too.
AttributeUpdate(e) ==
  /\ "attribute" \in Env
  /\ FewCmds
  /\ st[e] \in {"on", "off"}
  /\ Trigger([ent |-> e, to |-> st[e]])
  /\ UNCHANGED <<env, auto, kicks, cmds, inst>>

SunMoves ==
  /\ "sun" \in Env
  /\ day' = ~day
  /\ UNCHANGED <<st, onFor, clearFor, auto, queue, kicks, cmds, inst>>

\* The oldest call in flight to e lands; calls skip entities not available.
Deliver(e) ==
  /\ cmds[e] # <<>>
  /\ cmds' = [cmds EXCEPT ![e] = Tail(@)]
  /\ LET to == Head(cmds[e])
         effective == st[e] \in {"on", "off"} /\ st[e] # to
     IN  \/ effective /\ SetState(e, to)
         \/ ~effective /\ UNCHANGED <<st, onFor, clearFor, queue>>
  /\ UNCHANGED <<day, auto, kicks, inst>>

\* The device rejects the call: nobody waits for it (blocking=False).
Lose(e) ==
  /\ "lose" \in Env
  /\ cmds[e] # <<>>
  /\ cmds' = [cmds EXCEPT ![e] = Tail(@)]
  /\ UNCHANGED <<env, auto, queue, kicks, inst>>

\* Mutant: the delay is not floored at 0.
LeftWithoutFloor(n) == n - 1

\* Time left, floored at 0 as the delay is, and a duration, capped at AutoOff.
Left(n) == IF n = 0 THEN 0 ELSE n - 1
Aged(n) == IF n < AutoOff THEN n + 1 ELSE n

Tick ==
  /\ FewCmds
  /\ timer' = IF timer = None THEN None ELSE Left(timer)
  /\ wakeup' = IF wakeup = None THEN None
               ELSE [left |-> Left(wakeup.left), id |-> wakeup.id]
  /\ onFor' = [e \in Controlled |-> IF st[e] = "on" THEN Aged(onFor[e]) ELSE 0]
  /\ clearFor' = IF TriggersOn THEN 0 ELSE Aged(clearFor)
  /\ UNCHANGED <<st, day, auto, queue, kicks, cmds>>
-----------------------------------------------------------------------------
(* The life of the automation and of HA.                                   *)

\* Turning an automation off stops its runs; the integration is not told.
Disable ==
  /\ "toggle" \in Env
  /\ enabled
  /\ enabled' = FALSE
  /\ queue' = <<>>
  /\ UNCHANGED <<env, id, tracked, kicks, cmds, inst>>

\* The re-enable tracker sees off -> on of the entity_ids it listens to.
Enable ==
  /\ "toggle" \in Env
  /\ ~enabled
  /\ enabled' = TRUE
  /\ kicks' = IF tracked = id THEN kicks \cup {"enable"} ELSE kicks
  /\ UNCHANGED <<env, id, tracked, queue, cmds, inst>>

\* EVENT_AUTOMATION_RELOADED: on_reload cancels the wakeup and keeps
\* auto_off_at; HA stops the runs of an automation whose YAML changed.
Reload ==
  /\ "reload" \in Env
  /\ wakeup' = None
  /\ kicks' = kicks \cup {"recover"}
  /\ tracked' = id
  /\ queue' \in {queue, <<>>}
  /\ UNCHANGED <<env, enabled, id, cmds, timer>>

\* The automation is deleted, which drops its instance, and created again: it
\* is on, and the reload that goes with it kicks.
Recreate ==
  /\ "reload" \in Env
  /\ enabled' = TRUE
  /\ timer' = None
  /\ wakeup' = None
  /\ kicks' = kicks \cup {"recover"}
  /\ tracked' = id
  /\ queue' = <<>>
  /\ UNCHANGED <<env, id, cmds>>

\* The instance moves to its new entity_id; the wakeup keeps the old one.
\* Between runs only: HA re-adds the entity, and its runs are not our concern.
Rename(i) ==
  /\ "rename" \in Env
  /\ i # id
  /\ queue = <<>> /\ kicks = {}
  /\ id' = i
  /\ UNCHANGED <<env, enabled, tracked, queue, kicks, cmds, inst>>

\* The config entry is reloaded: on_teardown, then register_blueprint_handler.
\* Runs that reach the service while it is not registered fail.
ReloadEntry ==
  /\ "restart" \in Env
  /\ timer' = None
  /\ wakeup' = None
  /\ kicks' = {"recover"}
  /\ tracked' = id
  /\ \E n \in 0..Len(queue) : queue' = SubSeq(queue, n + 1, Len(queue))
  /\ UNCHANGED <<env, enabled, id, cmds>>

\* HA restarts: nothing of the instance is persisted; entities come back in
\* any state, and the runs and calls of the old process are gone.
Restart ==
  /\ "restart" \in Env
  /\ st' \in [Entities -> {"on", "off"}]
  /\ onFor' = [e \in Controlled |-> 0]
  /\ clearFor' = 0
  /\ queue' = <<>>
  /\ cmds' = [e \in Controlled |-> <<>>]
  /\ timer' = None
  /\ wakeup' = None
  /\ kicks' = {"recover"}
  /\ tracked' = id
  /\ UNCHANGED <<day, enabled, id>>
-----------------------------------------------------------------------------
Init ==
  /\ st \in [Entities -> {"on", "off"}]
  /\ day \in (IF "sun" \in Env THEN BOOLEAN ELSE {TRUE})
  /\ enabled = TRUE
  /\ id \in Ids
  /\ tracked = id
  /\ queue = <<>>
  /\ kicks = {"recover"}
  /\ cmds = [e \in Controlled |-> <<>>]
  /\ timer = None
  /\ wakeup = None
  /\ onFor = [e \in Controlled |-> 0]
  /\ clearFor = 0

\* What the integration, HA's scheduler and the devices do by themselves.
System ==
  \/ Handle
  \/ FireWakeup
  \/ \E k \in {"recover", "enable"} : Kick(k)
  \/ \E e \in Controlled : Deliver(e)
  \/ Tick

Surroundings ==
  \/ \E e \in Entities, s \in States : Change(e, s)
  \/ \E e \in Entities : AttributeUpdate(e)
  \/ \E e \in Controlled : Lose(e)
  \/ SunMoves
  \/ Disable
  \/ Enable
  \/ Reload
  \/ Recreate
  \/ \E i \in Ids : Rename(i)
  \/ ReloadEntry
  \/ Restart

Next == System \/ Surroundings

(* Runs, wakeups, background tasks and calls are tasks of one event loop,  *)
(* which starves none of them; time passes.  In HA nothing waits for room  *)
(* in the queue, so that the bound Room, which comes and goes, must not    *)
(* hold a task back for ever: hence SF.  The surroundings owe nothing.     *)
Fairness ==
  /\ WF_vars(Handle)
  /\ SF_vars(FireWakeup)
  /\ \A k \in {"recover", "enable"} : SF_vars(Kick(k))
  /\ \A e \in Controlled : SF_vars(Deliver(e))
  /\ SF_vars(Tick)

Spec == Init /\ [][Next]_vars

FairSpec == Spec /\ Fairness
-----------------------------------------------------------------------------
(* A countdown of an enabled automation is never forgotten: a wakeup that  *)
(* will find the instance is armed, or a TIMER run is queued or about to   *)
(* be.  Over reload, disabling, restart and every order of runs; renames,  *)
(* dropped runs and missing entities are left out (they break it).         *)
NoLostWakeup ==
  timer # None /\ enabled =>
    \/ wakeup # None /\ wakeup.id = id
    \/ \E i \in DOMAIN queue : queue[i] = TimerEvent
    \/ kicks # {}

(* An armed wakeup always belongs to the running countdown: it is due      *)
(* exactly when the countdown is, so that no wakeup survives a countdown   *)
(* that was cancelled or restarted, whatever happens around the instance.  *)
WakeupOfCountdown ==
  wakeup # None => timer # None /\ wakeup.left = timer

\* A run about one of the entities of S going to state s has not been handled.
Pending(S, s) == \E i \in DOMAIN queue : queue[i].ent \in S /\ queue[i].to = s

\* An auto-off call for e is issued in this step.
TurnsOff(e) == cmds'[e] = Append(cmds[e], "off")

(* Auto-off never cuts the delay short: what it turns off has been on for  *)
(* the whole delay, unless the run that reports it going on is still       *)
(* queued.  No order of manual switching, late runs, late wakeups, calls   *)
(* still in flight or restarts lets an old countdown hit a new turn-on.    *)
NoEarlyOff ==
  [][\A e \in Controlled :
       TurnsOff(e) => onFor[e] = AutoOff \/ Pending({e}, "on")]_vars

(* "Minutes after triggers clear to turn off. Resets on new trigger.":     *)
(* auto-off comes the whole delay after the last trigger cleared, unless a *)
(* trigger has come on and its run is still queued.  For triggers that are *)
(* never suppressed.                                                       *)
NoOffWhileTriggered ==
  [][\A e \in Controlled :
       TurnsOff(e) => clearFor = AutoOff \/ Pending(Triggers, "on")]_vars

(* Once the surroundings leave the system alone, something that may be     *)
(* turned off is: no interleaving of runs strands a controlled entity on.  *)
AutoOffHappens ==
  (<>[][System]_vars) =>
    []<>(ControlledOn = {} \/ TriggersOn \/ AutoOffDisabled \/ ~enabled)

(* A trigger coming on ends with something on and not about to be turned   *)
(* off by a call in flight, unless the trigger goes or is suppressed, or   *)
(* the automation is turned off or started anew.                           *)
MotionTurnsOn ==
  Pending(Triggers, "on") ~>
    \/ \E e \in ControlledOn : \A i \in DOMAIN cmds[e] : cmds[e][i] # "off"
    \/ ~TriggersOn \/ Suppressed
    \/ ~enabled \/ kicks # {}

(* "Re-enable if turned off while trigger active": an entity turned off    *)
(* by anyone, the automation's own late call included, comes back on       *)
(* while the trigger stays and the automation is neither turned off nor    *)
(* started anew.                                                           *)
ForcedBackOn ==
  \A e \in Controlled :
    (Pending({e}, "off") /\ TriggersOn) ~>
      (st[e] = "on" \/ ~TriggersOn \/ Suppressed \/ ~enabled \/ kicks # {})
-----------------------------------------------------------------------------
(* Inductive strengthenings, for the proofs.                               *)

\* The conditions of an instance under which no run is lost.
NoRunLost == Env \cap {"overflow", "missing", "toggle", "reload"} = {}

\* Whatever is on will have been on for the whole delay when auto-off is due.
OnLongEnough ==
  timer # None =>
    \A e \in Controlled :
      st[e] = "on" => Pending({e}, "on") \/ timer + onFor[e] >= AutoOff

\* While a countdown runs no trigger is on, and none will have been for the
\* whole delay when auto-off is due.
ClearLongEnough ==
  timer # None =>
    Pending(Triggers, "on") \/ (~TriggersOn /\ timer + clearFor >= AutoOff)

\* Nothing but a rename separates the instance from its wakeup and tracker.
SameId == tracked = id /\ (wakeup # None => wakeup.id = id)

NeverSuppressed == TriggerPeriod = "always" /\ TriggerDisabling = {}
=============================================================================
