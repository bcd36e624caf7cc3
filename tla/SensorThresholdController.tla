---------------------- MODULE SensorThresholdController ----------------------
(***************************************************************************)
(* One Sensor Threshold Entity Controller (STEC) automation instance: the  *)
(* controller of sensor_threshold_entity_controller/logic.py, the service  *)
(* layer, state blob and one-minute timer of its handler.py, and the Home  *)
(* Assistant around it: the automation's queue of runs, turn_on/turn_off   *)
(* calls nobody waits for, sensors and people.                             *)
(*                                                                         *)
(* Time is kept as ages and as time left.  A sample and an override have   *)
(* an age; `timer' of the blob is auto_off_started_at plus the timeout,    *)
(* minus now, stopping at 0 (due).  A minute is Minute ticks, and the      *)
(* rounding of auto_off_started_at up to the next minute is a delay below  *)
(* one minute, of any length: the model does not keep the clock's phase.   *)
(* All sensors feed one window, which does not tell them apart: there is   *)
(* one, `reading'.                                                         *)
(***************************************************************************)
EXTENDS Naturals, Sequences, FiniteSets, FiniteSetsExt

CONSTANTS
  Controlled,        \* controlled_entities
  Values,            \* what the sensors read
  TriggerThreshold,  \* trigger_threshold
  ReleaseThreshold,  \* release_threshold
  SamplingWindow,    \* sampling_window_seconds, in ticks
  DisableWindow,     \* disable_window_seconds, in ticks; 0: no double-off
  AutoOff,           \* auto_off_minutes; 0: no auto-off
  Minute,            \* ticks of a minute
  Env,               \* what the surroundings do in this instance (EnvKinds)
  MaxQueue,          \* "max:" of the blueprint (10 there)
  MaxCmds,           \* bound: with so many calls in flight, wait for them
  MaxSamples,        \* bound: readings in a window
  None               \* Python's None

EnvKinds == {"manual", "group", "attribute", "unavailable", "unknown", "missing",
             "lose", "overflow", "toggle", "reload", "restart", "repeat"}

\* auto_off_minutes in ticks, and what rounding up to a minute may add to it.
Timeout == AutoOff * Minute
Rounding == 0..(Minute - 1)

(* What the schema enforces, and thresholds as the documentation asks.     *)
ASSUME ConfigAssumption ==
  /\ Controlled # {} /\ IsFiniteSet(Controlled)
  /\ Values \subseteq Nat
  /\ TriggerThreshold \in Nat /\ ReleaseThreshold \in Nat
  /\ SamplingWindow \in Nat /\ DisableWindow \in Nat
  /\ AutoOff \in Nat /\ Minute \in Nat \ {0}

ASSUME BoundsAssumption ==
  /\ MaxQueue \in Nat \ {0}
  /\ MaxCmds \in Nat \ {0}
  /\ MaxSamples \in Nat \ {0}
  /\ Env \subseteq EnvKinds

VARIABLES
  st,       \* hass.states of the controlled entities
  reading,  \* hass.states of the sensor: a value, or None (unknown, unavailable)
  enabled,  \* the automation is on
  queue,    \* runs of the automation waiting
  kicks,    \* background tasks about to call automation.trigger
  cmds,     \* per controlled entity, turn_on/turn_off calls still in flight
  minutely, \* the periodic timer: time left to its next tick; None: not armed
  blob,     \* the state blob in the diagnostic entity, or None
  onFor     \* history: how long each controlled entity has been on

world == <<st, reading, onFor>>
vars  == <<st, reading, enabled, queue, kicks, cmds, minutely, blob, onFor>>

States == {"on", "off", "unavailable", "missing"}

\* SENSOR events carry the new state of the sensor, SWITCH events need nothing.
SensorEvent(v) == [type |-> "SENSOR", value |-> v]
SwitchEvent == [type |-> "SWITCH", value |-> None]
TimerEvent  == [type |-> "TIMER", value |-> None]
Events == {SensorEvent(v) : v \in Values \cup {None}} \cup {SwitchEvent, TimerEvent}

\* Ages are told apart up to the first that is outside the window.
Samples == [value : Values, age : 0..(SamplingWindow + 1)]

\* State: samples (as a set: the window asks for its extremes only), baseline,
\* overrides (as the set of their ages: all that matters is whether one is
\* inside the disable window) and auto_off_started_at.
Blobs == [samples   : SUBSET Samples,
          baseline  : Values \cup {None},
          overrides : SUBSET (0..(DisableWindow + 1)),
          timer     : (0..(Timeout + Minute - 1)) \cup {None}]

ASSUME NoneAssumption == None \notin Nat /\ None \notin Blobs

TypeOK ==
  /\ st \in [Controlled -> States]
  /\ reading \in Values \cup {None}
  /\ enabled \in BOOLEAN
  /\ queue \in Seq(Events) /\ Len(queue) <= MaxQueue
  /\ kicks \subseteq {"recover", "enable"}
  /\ cmds \in [Controlled -> Seq({"on", "off"})]
  /\ minutely \in (0..Minute) \cup {None}
  /\ blob \in Blobs \cup {None}
  /\ onFor \in [Controlled -> 0..Timeout]
-----------------------------------------------------------------------------
(* Reading the live state and the blob.                                    *)

ControlledOn == {e \in Controlled : st[e] = "on"}

\* _async_argparse rejects the call while a controlled entity does not exist.
ConfigOK == \A e \in Controlled : st[e] # "missing"

FreshState == [samples |-> {}, baseline |-> None, overrides |-> {}, timer |-> None]

\* _maybe_arm_auto_off, the clock being r short of a full minute.
Armed(b, r) ==
  IF b.timer = None /\ ControlledOn # {} /\ b.baseline = None /\ AutoOff > 0
    THEN [b EXCEPT !.timer = Timeout + r] ELSE b

\* The state a run starts from: a missing blob is bootstrapped.
Loaded(r) == IF blob = None THEN Armed(FreshState, r) ELSE blob

\* A sensor manages the controlled set.
Managed == blob # None /\ blob.baseline # None
-----------------------------------------------------------------------------
(* Queueing a run: mode "queued" drops what arrives when the queue is full. *)
(* A run that does not exercise overflow keeps the bursts below "max:".     *)

Room(n) == "overflow" \in Env \/ Len(queue) + n <= MaxQueue

Queued(evs) ==
  LET all == queue \o evs
  IN  IF Len(all) <= MaxQueue THEN all ELSE SubSeq(all, 1, MaxQueue)

\* State changes trigger the automation only while it is on.
Trigger(evs) ==
  /\ Room(Len(evs))
  /\ queue' = IF enabled THEN Queued(evs) ELSE queue

\* automation.trigger runs it whether it is on or off.
ForceTrigger ==
  /\ Room(1)
  /\ queue' = Queued(<<TimerEvent>>)
-----------------------------------------------------------------------------
(* Handling the run at the head of the queue.                              *)

\* The service layer reached with an event of the given type; it arms the
\* periodic timer, first due after the jitter of the instance.
Handling(type) ==
  /\ queue # <<>>
  /\ ConfigOK
  /\ Head(queue).type = type
  /\ queue' = Tail(queue)
  /\ minutely' \in IF minutely = None THEN 0..(Minute - 1) ELSE {minutely}
  /\ UNCHANGED <<world, enabled, kicks>>

\* A run that ends in argparse.
HandleNothing ==
  /\ queue # <<>>
  /\ ~ConfigOK
  /\ queue' = Tail(queue)
  /\ UNCHANGED <<world, enabled, kicks, cmds, minutely, blob>>

\* The Result applied: the blob is saved, then the call is made.
Call(targets, to) ==
  cmds' = [e \in Controlled |->
             IF e \in targets THEN Append(cmds[e], to) ELSE cmds[e]]

Save(b) == blob' = b

SaveOnly(b) == Save(b) /\ cmds' = cmds

Rest(b) == [b EXCEPT !.baseline = None, !.overrides = {}, !.timer = None]

\* The window with reading v in it, old samples pruned.
Sampled(b, v) ==
  [b EXCEPT !.samples = {s \in @ : s.age <= SamplingWindow}
                          \cup {[value |-> v, age |-> 0]}]

Lowest(b)  == Min({s.value : s \in b.samples})
Highest(b) == Max({s.value : s \in b.samples})

Spike(b) == Highest(b) > Lowest(b) + TriggerThreshold

\* Mutant: taking over leaves the countdown of a manual turn-on running.
TakenOverKeepsTimer(b) == [b EXCEPT !.baseline = Lowest(b), !.overrides = {}]

TakenOver(b) == [b EXCEPT !.baseline = Lowest(b), !.overrides = {}, !.timer = None]

\* _check_spike
CheckSpike(b) ==
  \/ ~Spike(b) /\ SaveOnly(b)
  \/ Spike(b) /\ ControlledOn # {} /\ SaveOnly(TakenOver(b))
  \/ Spike(b) /\ ControlledOn = {} /\ Save(TakenOver(b)) /\ Call(Controlled, "on")

\* Mutant: released strictly below the release threshold.
SettledBelow(b) == Highest(b) < b.baseline + ReleaseThreshold

Settled(b) == Highest(b) <= b.baseline + ReleaseThreshold

\* _check_release: only what is on is turned off.
CheckRelease(b) ==
  \/ ~Settled(b) /\ SaveOnly(b)
  \/ Settled(b) /\ Save(Rest(b)) /\ Call(ControlledOn, "off")

HandleSensor ==
  /\ Handling("SENSOR")
  /\ LET v == Head(queue).value
     IN  \E r \in Rounding :
           \/ v = None /\ SaveOnly(Loaded(r))
           \/ /\ v # None
              /\ LET b == Sampled(Loaded(r), v)
                 IN  \/ b.baseline = None /\ CheckSpike(b)
                     \/ b.baseline # None /\ CheckRelease(b)

\* Overrides still inside the disable window, and this one.
InDisableWindow(b) == {age \in b.overrides : DisableWindow > 0 /\ age <= DisableWindow}
Overridden(b) == [b EXCEPT !.overrides = InDisableWindow(b) \cup {0}]

\* The second manual off within the window.
DoubleOff(b) == InDisableWindow(b) # {}

\* Mutant: the turn-on is sent to the entities that are on.
OverrideTargetsOn(b) ==
  \/ DoubleOff(b) /\ SaveOnly(Rest(b))
  \/ ~DoubleOff(b) /\ Save(Overridden(b)) /\ Call(ControlledOn, "on")

\* _handle_manual_override
HandleManualOverride(b) ==
  \/ DoubleOff(b) /\ SaveOnly(Rest(b))
  \/ ~DoubleOff(b) /\ Save(Overridden(b)) /\ Call(Controlled, "on")

\* Mutant: a countdown that runs already is not started over.
RestartedOnce(b, r) == Armed(b, r)

\* A turn-on that the sensor does not manage: the countdown starts over.
Restarted(b, r) == IF AutoOff > 0 THEN [b EXCEPT !.timer = Timeout + r] ELSE b

HandleSwitch ==
  /\ Handling("SWITCH")
  /\ \E r \in Rounding :
       LET b == Loaded(r)
       IN  \/ /\ ControlledOn # {} /\ b.baseline = None
              /\ SaveOnly(Restarted(b, r))
           \/ /\ ControlledOn # {} /\ b.baseline # None
              /\ SaveOnly([b EXCEPT !.timer = None])
           \/ /\ ControlledOn = {} /\ b.baseline # None
              /\ HandleManualOverride(b)
           \/ /\ ControlledOn = {} /\ b.baseline = None
              /\ SaveOnly([b EXCEPT !.timer = None])

\* The countdown of something on that no sensor manages has ended.
Expired(b) ==
  /\ b.timer # None /\ b.timer = 0
  /\ b.baseline = None
  /\ ControlledOn # {}
  /\ AutoOff > 0

\* Mutant: the countdown is not armed by a TIMER run.
TimerWithoutArming ==
  /\ Handling("TIMER")
  /\ \E r \in Rounding :
       LET b == Loaded(r)
       IN  \/ ~Expired(b) /\ SaveOnly(b)
           \/ /\ Expired(b)
              /\ Save([b EXCEPT !.timer = None])
              /\ Call(ControlledOn, "off")
 

HandleTimer ==
  /\ Handling("TIMER")
  /\ \E r \in Rounding :
       LET b == Armed(Loaded(r), r)
       IN  \/ ~Expired(b) /\ SaveOnly(b)
           \/ /\ Expired(b)
              /\ Save([b EXCEPT !.timer = None])
              /\ Call(ControlledOn, "off")
 

Handle ==
  \/ HandleNothing
  \/ HandleSensor
  \/ HandleSwitch
  \/ HandleTimer
-----------------------------------------------------------------------------
(* The periodic timer and the background kicks.                            *)

\* The tick of a disabled automation does nothing; the timer goes on.
PeriodicTick ==
  /\ minutely = 0
  /\ minutely' = Minute
  /\ \/ enabled /\ ForceTrigger
     \/ ~enabled /\ queue' = queue
  /\ UNCHANGED <<world, enabled, kicks, cmds, blob>>

\* The recovery kick skips a disabled automation, the re-enable kick does not ask.
Kick(k) ==
  /\ k \in kicks
  /\ kicks' = kicks \ {k}
  /\ \/ (k = "enable" \/ enabled) /\ ForceTrigger
     \/ k = "recover" /\ ~enabled /\ queue' = queue
  /\ UNCHANGED <<world, enabled, cmds, minutely, blob>>
-----------------------------------------------------------------------------
(* The surroundings.                                                       *)

\* The state machine after the entities of S go to state s: a run for each.
SetStates(S, s) ==
  /\ st' = [e \in Controlled |-> IF e \in S THEN s ELSE st[e]]
  /\ onFor' = [e \in Controlled |-> IF e \in S THEN 0 ELSE onFor[e]]
  /\ Trigger([i \in 1..Cardinality(S) |-> SwitchEvent])

\* Bound: time and people wait while MaxCmds calls to an entity are in flight.
FewCmds == \A e \in Controlled : Len(cmds[e]) < MaxCmds

\* Somebody switches entities, one by one or as a group.
Switch(S, s) ==
  /\ "manual" \in Env
  /\ Cardinality(S) = 1 \/ "group" \in Env
  /\ S # {}
  /\ FewCmds
  /\ s \in {"on", "off"}
  /\ \A e \in S : st[e] \in {"on", "off"} /\ st[e] # s
  /\ SetStates(S, s)
  /\ UNCHANGED <<reading, enabled, kicks, cmds, minutely, blob>>

\* An entity becomes unavailable or is removed, or comes back in some state.
Fault(e, s) ==
  /\ s # st[e]
  /\ {s, st[e]} \cap {"unavailable", "missing"} # {}
  /\ {s, st[e]} \cap {"unavailable", "missing"} \subseteq Env
  /\ FewCmds
  /\ SetStates({e}, s)
  /\ UNCHANGED <<reading, enabled, kicks, cmds, minutely, blob>>

\* The state triggers have no "to:", so that an attribute update triggers too.
AttributeUpdate ==
  /\ "attribute" \in Env
  /\ FewCmds
  /\ \E e \in Controlled : st[e] # "missing"
  /\ Trigger(<<SwitchEvent>>)
  /\ UNCHANGED <<world, enabled, kicks, cmds, minutely, blob>>

\* Bound: readings of one sampling window, handled or not.
FewReadings ==
  LET fresh == IF blob = None THEN {}
               ELSE {s \in blob.samples : s.age <= SamplingWindow}
      waiting == {i \in DOMAIN queue : queue[i].type = "SENSOR"}
  IN  Cardinality(fresh) + Cardinality(waiting) < MaxSamples

\* A sensor's state changes.
Read(v) ==
  /\ v # reading
  /\ v = None => "unknown" \in Env
  /\ FewCmds /\ FewReadings
  /\ reading' = v
  /\ Trigger(<<SensorEvent(v)>>)
  /\ UNCHANGED <<st, onFor, enabled, kicks, cmds, minutely, blob>>

\* A sensor that reports an unchanged value with a changed attribute.
Repeat ==
  /\ "repeat" \in Env
  /\ FewCmds /\ FewReadings
  /\ Trigger(<<SensorEvent(reading)>>)
  /\ UNCHANGED <<world, enabled, kicks, cmds, minutely, blob>>

\* The oldest call in flight to e lands; calls skip entities not available.
Deliver(e) ==
  /\ cmds[e] # <<>>
  /\ cmds' = [cmds EXCEPT ![e] = Tail(@)]
  /\ LET to == Head(cmds[e])
         effective == st[e] \in {"on", "off"} /\ st[e] # to
     IN  \/ effective /\ SetStates({e}, to)
         \/ ~effective /\ UNCHANGED <<st, onFor, queue>>
  /\ UNCHANGED <<reading, enabled, kicks, minutely, blob>>

\* The device rejects the call: nobody waits for it (blocking=False).
Lose(e) ==
  /\ "lose" \in Env
  /\ cmds[e] # <<>>
  /\ cmds' = [cmds EXCEPT ![e] = Tail(@)]
  /\ UNCHANGED <<world, enabled, queue, kicks, minutely, blob>>

\* Time left, down to 0, and ages, up to a bound.
Left(n) == IF n = None \/ n = 0 THEN n ELSE n - 1
Aged(n, bound) == IF n < bound THEN n + 1 ELSE n

\* The blob as it reads one tick later.
AgedBlob(b) ==
  [b EXCEPT
     !.samples = {[value |-> s.value, age |-> Aged(s.age, SamplingWindow + 1)] : s \in @},
     !.overrides = {Aged(age, DisableWindow + 1) : age \in @},
     !.timer = Left(@)]

Tick ==
  /\ FewCmds
  /\ minutely' = Left(minutely)
  /\ blob' = IF blob = None THEN None ELSE AgedBlob(blob)
  /\ onFor' = [e \in Controlled |-> IF st[e] = "on" THEN Aged(onFor[e], Timeout) ELSE 0]
  /\ UNCHANGED <<st, reading, enabled, queue, kicks, cmds>>
-----------------------------------------------------------------------------
(* The life of the automation and of HA.                                   *)

\* Turning an automation off stops its runs; the integration is not told.
Disable ==
  /\ "toggle" \in Env
  /\ enabled
  /\ enabled' = FALSE
  /\ queue' = <<>>
  /\ UNCHANGED <<world, kicks, cmds, minutely, blob>>

\* The re-enable tracker sees off -> on.
Enable ==
  /\ "toggle" \in Env
  /\ ~enabled
  /\ enabled' = TRUE
  /\ kicks' = kicks \cup {"enable"}
  /\ UNCHANGED <<world, queue, cmds, minutely, blob>>

\* EVENT_AUTOMATION_RELOADED: on_reload cancels the periodic timer; the blob
\* stays; HA stops the runs of an automation whose YAML changed.
Reload ==
  /\ "reload" \in Env
  /\ minutely' = None
  /\ kicks' = kicks \cup {"recover"}
  /\ queue' \in {queue, <<>>}
  /\ UNCHANGED <<world, enabled, cmds, blob>>

\* The automation is deleted and created again under its entity_id: the
\* instance is dropped, the diagnostic entity with the blob is not.
Recreate ==
  /\ "reload" \in Env
  /\ enabled' = TRUE
  /\ minutely' = None
  /\ kicks' = kicks \cup {"recover"}
  /\ queue' = <<>>
  /\ UNCHANGED <<world, cmds, blob>>

\* The config entry is reloaded: on_teardown, then register_blueprint_handler.
\* Runs that reach the service while it is not registered fail.
ReloadEntry ==
  /\ "reload" \in Env
  /\ minutely' = None
  /\ kicks' = {"recover"}
  /\ \E n \in 0..Len(queue) : queue' = SubSeq(queue, n + 1, Len(queue))
  /\ UNCHANGED <<world, enabled, cmds, blob>>

\* HA restarts: the diagnostic entity is not restored; entities come back in
\* any state, and the runs and calls of the old process are gone.
Restart ==
  /\ "restart" \in Env
  /\ st' \in [Controlled -> {"on", "off"}]
  /\ onFor' = [e \in Controlled |-> 0]
  /\ queue' = <<>>
  /\ cmds' = [e \in Controlled |-> <<>>]
  /\ minutely' = None
  /\ kicks' = {"recover"}
  /\ blob' = None
  /\ UNCHANGED <<reading, enabled>>
-----------------------------------------------------------------------------
Init ==
  /\ st \in [Controlled -> {"on", "off"}]
  /\ reading \in Values
  /\ enabled = TRUE
  /\ queue = <<>>
  /\ kicks = {"recover"}
  /\ cmds = [e \in Controlled |-> <<>>]
  /\ minutely = None
  /\ blob = None
  /\ onFor = [e \in Controlled |-> 0]

\* What the integration, HA's scheduler, devices and sensors that settled do by
\* themselves.
System ==
  \/ Handle
  \/ PeriodicTick
  \/ \E k \in {"recover", "enable"} : Kick(k)
  \/ \E e \in Controlled : Deliver(e)
  \/ Repeat
  \/ Tick

Surroundings ==
  \/ \E S \in SUBSET Controlled, s \in States : Switch(S, s)
  \/ \E e \in Controlled, s \in States : Fault(e, s)
  \/ AttributeUpdate
  \/ \E v \in Values \cup {None} : Read(v)
  \/ \E e \in Controlled : Lose(e)
  \/ Disable
  \/ Enable
  \/ Reload
  \/ Recreate
  \/ ReloadEntry
  \/ Restart

Next == System \/ Surroundings

(* Runs, timers, background tasks and calls are tasks of one event loop,   *)
(* which starves none of them; time passes.  The bounds (Room, FewCmds,    *)
(* FewReadings) come and go and must not hold a task back for ever: hence  *)
(* SF.  Nothing makes a sensor report again.                               *)
Fairness ==
  /\ WF_vars(Handle)
  /\ SF_vars(PeriodicTick)
  /\ \A k \in {"recover", "enable"} : SF_vars(Kick(k))
  /\ \A e \in Controlled : SF_vars(Deliver(e))
  /\ SF_vars(Tick)

Spec == Init /\ [][Next]_vars

FairSpec == Spec /\ Fairness
-----------------------------------------------------------------------------
\* A SWITCH run waits in the queue.
SwitchPending == \E i \in DOMAIN queue : queue[i] = SwitchEvent

\* A turn_off call for e is issued in this step.
TurnsOff(e) == cmds'[e] = Append(cmds[e], "off")

(* "Rounding up guarantees the actual auto-off delay is never shorter than *)
(* the configured timeout" (_round_up_to_minute): what auto-off turns off  *)
(* has been on that long, or the run that reports it going on is still     *)
(* queued.  Over entities switched at different times, takeovers by the    *)
(* sensor and restarts.                                                    *)
NoEarlyOff ==
  [][\A e \in Controlled :
       TurnsOff(e) /\ ~Managed => onFor[e] = Timeout \/ SwitchPending]_vars

(* Whatever happened before, once people, reloads and faults stop,         *)
(* something on is turned off, unless a sensor manages it: no lost call,   *)
(* dropped run or disabled period strands it.                              *)
AutoOffHappens ==
  (<>[][System]_vars) =>
    []<>(ControlledOn = {} \/ Managed \/ ~enabled \/ ~ConfigOK)

(* "If someone manually turns off the fan while humidity is still high, it *)
(* turns back on": a managed set ends up with something on and no turn_off *)
(* in flight to it, whoever turned it off and whichever call is late, or   *)
(* the sensor lets go (release, double-off).                               *)
ManagedStaysOn ==
  Managed ~>
    \/ \E e \in ControlledOn : \A i \in DOMAIN cmds[e] : cmds[e][i] # "off"
    \/ ~Managed

\* The sensor goes on reporting, be it an attribute beside the same value.
KeepsReporting == []<><<Repeat>>_vars

(* "When humidity returns to normal across all sensors, the entities turn  *)
(* OFF", also when a turn_on still in flight lands after the release: as   *)
(* long as the sensor goes on reporting.  Release is looked at by SENSOR   *)
(* runs only (logic.py:369), against a maximum that falls when the window  *)
(* has passed: after one that reports its normal value once and then falls *)
(* silent, the set stays on.                                               *)
SettledTurnsOff ==
  (<>[][System]_vars) /\ KeepsReporting =>
    []<>(ControlledOn = {} \/ reading = None \/ \E v \in Values : v < reading)

(* Who is in charge follows from the blob: with this mapping the instance  *)
(* keeps the contract, over lost calls, lost runs, reloads and restarts.   *)
(* In particular the sensor never hands over to a running countdown, no    *)
(* countdown starts short, and no call is made without somebody in charge. *)
Owner ==
  IF Managed THEN "sensor"
  ELSE IF blob # None /\ blob.timer # None THEN "person"
  ELSE "nobody"

TimeLeft == IF blob = None THEN None ELSE blob.timer

Contract == INSTANCE UnitContract WITH
  Units <- Controlled, Shortest <- Timeout, Longest <- Timeout + Minute - 1,
  owner <- Owner, left <- TimeLeft, calls <- cmds

KeepsContract == Contract!Spec
-----------------------------------------------------------------------------
(* Inductive strengthenings, for the proofs.                               *)

\* The conditions of an instance under which no run is lost.
NoRunLost == Env \cap {"overflow", "missing", "toggle", "reload"} = {}

\* No countdown runs while the sensor manages the set.
ManagedNoTimer == Managed => TimeLeft = None

\* Whatever is on will have been on for the whole delay when auto-off is due.
OnLongEnough ==
  TimeLeft # None =>
    \A e \in Controlled :
      st[e] = "on" => SwitchPending \/ TimeLeft + onFor[e] >= Timeout
=============================================================================
