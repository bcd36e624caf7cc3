------------------- MODULE SensorThresholdControllerProofs -------------------
(***************************************************************************)
(* What TLAPS proves of SensorThresholdController for every configuration, *)
(* queue bound and set of entities.                                        *)
(***************************************************************************)
EXTENDS SensorThresholdController, SequenceTheorems, FiniteSetTheorems,
        WellFoundedInduction, TLAPS

(* The length of the countdown: a number of ticks, 0 without auto-off.     *)
LEMMA TimeoutFacts ==
  /\ Timeout \in Nat
  /\ AutoOff > 0 => Timeout > 0
  /\ AutoOff = 0 => Timeout = 0
  /\ \A r \in Rounding : Timeout + r \in 0..(Timeout + Minute - 1) /\ r \in Nat
  <1>1. AutoOff \in Nat /\ Minute \in Nat \ {0}
    BY ConfigAssumption
  <1>2. Timeout \in Nat /\ (AutoOff = 0 => Timeout = 0)
    BY <1>1 DEF Timeout
  <1>3. AutoOff > 0 => Timeout > 0
    BY <1>1 DEF Timeout
  <1> QED BY <1>1, <1>2, <1>3 DEF Rounding

(* A non-empty set of readings has a lowest one.                           *)
LEMMA LowestType ==
  ASSUME NEW b \in Blobs, b.samples # {}
  PROVE  Lowest(b) \in Values
  <1> DEFINE T == {s.value : s \in b.samples}
  <1>1. T # {} /\ T \subseteq Values /\ Values \subseteq Nat
    BY ConfigAssumption DEF Blobs, Samples
  <1>2. \E x \in T : \A y \in T : ~ (<<y, x>> \in OpToRel(<, Nat))
    <2>1. T \subseteq Nat /\ T # {}
      BY <1>1
    <2> HIDE DEF T
    <2> QED BY <2>1, WFMin, NatLessThanWellFounded
  <1>3. \E x \in T : \A y \in T : x <= y
    <2>1. PICK x \in T : \A y \in T : ~ (<<y, x>> \in OpToRel(<, Nat))
      BY <1>2
    <2>2. ASSUME NEW y \in T, y < x PROVE FALSE
      BY <1>1, <2>1, <2>2 DEF OpToRel
    <2>3. x \in Nat /\ T \subseteq Nat
      BY <1>1
    <2> HIDE DEF T
    <2> QED BY <2>2, <2>3
  <1>4. Min(T) \in T
    BY <1>3 DEF Min
  <1> QED BY <1>1, <1>4 DEF Lowest

LEMMA TailElements ==
  ASSUME NEW S, NEW s \in Seq(S), s # <<>>
  PROVE  /\ Tail(s) \in Seq(S)
         /\ Len(Tail(s)) = Len(s) - 1
         /\ Head(s) \in S
         /\ \A i \in DOMAIN s : \/ s[i] = Head(s)
                                \/ \E j \in DOMAIN Tail(s) : Tail(s)[j] = s[i]
  <1>1. Tail(s) \in Seq(S) /\ Len(Tail(s)) = Len(s) - 1 /\ Head(s) \in S
    OBVIOUS
  <1>2. ASSUME NEW i \in DOMAIN s, i # 1
        PROVE  i - 1 \in DOMAIN Tail(s) /\ Tail(s)[i - 1] = s[i]
    <2>1. DOMAIN s = 1..Len(s) /\ DOMAIN Tail(s) = 1..(Len(s) - 1) /\ Len(s) \in Nat
      BY <1>1
    <2>2. \A j \in 1..(Len(s) - 1) : Tail(s)[j] = s[j + 1]
      BY HeadTailProperties
    <2> QED BY <1>2, <2>1, <2>2
  <1>3. \A i \in DOMAIN s : i = 1 => s[i] = Head(s)
    OBVIOUS
  <1> QED BY <1>1, <1>2, <1>3
-----------------------------------------------------------------------------
(* Queueing keeps what waits, in its place, and the bound.                 *)
LEMMA QueuedFacts ==
  ASSUME NEW evs \in Seq(Events), queue \in Seq(Events), Len(queue) <= MaxQueue
  PROVE  /\ Queued(evs) \in Seq(Events)
         /\ Len(Queued(evs)) <= MaxQueue
         /\ \A i \in DOMAIN queue : i \in DOMAIN Queued(evs) /\ Queued(evs)[i] = queue[i]
  <1> DEFINE all == queue \o evs
  <1>1. MaxQueue \in Nat /\ MaxQueue > 0
    BY BoundsAssumption
  <1>2. /\ all \in Seq(Events)
        /\ Len(all) = Len(queue) + Len(evs)
        /\ \A i \in 1..Len(queue) : all[i] = queue[i]
    BY ConcatProperties
  <1>3. CASE Len(all) <= MaxQueue
    BY <1>1, <1>2, <1>3 DEF Queued
  <1>4. CASE Len(all) > MaxQueue
    <2>1. /\ SubSeq(all, 1, MaxQueue) \in Seq(Events)
          /\ Len(SubSeq(all, 1, MaxQueue)) = MaxQueue
          /\ \A i \in 1..MaxQueue : SubSeq(all, 1, MaxQueue)[i] = all[i]
      BY <1>1, <1>2, <1>4
    <2>2. Queued(evs) = SubSeq(all, 1, MaxQueue)
      BY <1>1, <1>2, <1>4 DEF Queued
    <2>3. DOMAIN queue = 1..Len(queue) /\ Len(queue) \in Nat
      BY DEF Events
    <2>4. \A i \in 1..Len(queue) : i \in 1..MaxQueue
      BY <1>1, <2>3
    <2>5. DOMAIN SubSeq(all, 1, MaxQueue) = 1..MaxQueue
      BY <2>1
    <2> HIDE DEF all
    <2> QED BY <1>1, <1>2, <2>1, <2>2, <2>3, <2>4, <2>5
  <1>5. Len(all) \in Nat /\ MaxQueue \in Nat
    BY <1>1, <1>2
  <1> QED BY <1>3, <1>4, <1>5

LEMMA EventTypes ==
  /\ SwitchEvent \in Events
  /\ TimerEvent \in Events
  /\ \A v \in Values \cup {None} : SensorEvent(v) \in Events
  BY DEF Events

LEMMA TriggerType ==
  ASSUME TypeOK, NEW evs \in Seq(Events), Trigger(evs)
  PROVE  queue' \in Seq(Events) /\ Len(queue') <= MaxQueue
  BY QueuedFacts DEF TypeOK, Trigger

LEMMA ForceTriggerType ==
  ASSUME TypeOK, ForceTrigger
  PROVE  queue' \in Seq(Events) /\ Len(queue') <= MaxQueue
  <1>1. <<TimerEvent>> \in Seq(Events)
    BY EventTypes
  <1> QED BY <1>1, QueuedFacts DEF TypeOK, ForceTrigger

LEMMA TailType ==
  ASSUME TypeOK, queue # <<>>
  PROVE  Tail(queue) \in Seq(Events) /\ Len(Tail(queue)) <= MaxQueue
  <1>1. queue \in Seq(Events) /\ Len(queue) <= MaxQueue
    BY DEF TypeOK
  <1>2. Tail(queue) \in Seq(Events) /\ Len(Tail(queue)) = Len(queue) - 1
    BY <1>1, TailElements
  <1>3. Len(queue) \in Nat /\ MaxQueue \in Nat
    BY <1>1, BoundsAssumption
  <1> QED BY <1>1, <1>2, <1>3

LEMMA EmptyQueue == <<>> \in Seq(Events) /\ Len(<<>>) <= MaxQueue
  <1>1. 0 <= MaxQueue
    BY BoundsAssumption
  <1> QED BY <1>1
-----------------------------------------------------------------------------
(* The helpers on blobs keep their types.                                  *)
LEMMA FreshType == FreshState \in Blobs
  BY DEF FreshState, Blobs

LEMMA ArmedType ==
  ASSUME NEW b \in Blobs, NEW r \in Rounding
  PROVE  Armed(b, r) \in Blobs
  <1>1. Timeout + r \in 0..(Timeout + Minute - 1)
    BY TimeoutFacts
  <1> QED BY <1>1 DEF Armed, Blobs

LEMMA LoadedType ==
  ASSUME TypeOK, NEW r \in Rounding
  PROVE  Loaded(r) \in Blobs
  BY FreshType, ArmedType DEF Loaded, TypeOK

LEMMA RestType ==
  ASSUME NEW b \in Blobs
  PROVE  Rest(b) \in Blobs /\ [b EXCEPT !.timer = None] \in Blobs
  BY DEF Rest, Blobs

LEMMA RestartedType ==
  ASSUME NEW b \in Blobs, NEW r \in Rounding
  PROVE  Restarted(b, r) \in Blobs
  <1>1. Timeout + r \in 0..(Timeout + Minute - 1)
    BY TimeoutFacts
  <1> QED BY <1>1 DEF Restarted, Blobs

LEMMA OverriddenType ==
  ASSUME NEW b \in Blobs
  PROVE  Overridden(b) \in Blobs
  <1>1. InDisableWindow(b) \cup {0} \subseteq 0..(DisableWindow + 1)
    BY ConfigAssumption DEF InDisableWindow, Blobs
  <1> QED BY <1>1 DEF Overridden, Blobs

LEMMA SampledType ==
  ASSUME NEW b \in Blobs, NEW v \in Values
  PROVE  /\ Sampled(b, v) \in Blobs
         /\ Sampled(b, v).samples # {}
         /\ Sampled(b, v).baseline = b.baseline
         /\ Sampled(b, v).timer = b.timer
  <1> DEFINE kept == {s \in b.samples : s.age <= SamplingWindow}
             new == [value |-> v, age |-> 0]
  <1>1. new \in Samples
    BY ConfigAssumption DEF Samples
  <1>2. kept \cup {new} \subseteq Samples
    BY <1>1 DEF Blobs
  <1>3. Sampled(b, v) = [b EXCEPT !.samples = kept \cup {new}]
    BY DEF Sampled
  <1> HIDE DEF kept, new
  <1> QED BY <1>2, <1>3 DEF Blobs

LEMMA TakenOverType ==
  ASSUME NEW b \in Blobs, b.samples # {}
  PROVE  TakenOver(b) \in Blobs
  BY LowestType DEF TakenOver, Blobs

LEMMA AgedType ==
  ASSUME NEW b \in Blobs
  PROVE  /\ AgedBlob(b) \in Blobs
         /\ AgedBlob(b).baseline = b.baseline
         /\ AgedBlob(b).timer = Left(b.timer)
  <1> DEFINE s == {[value |-> x.value, age |-> Aged(x.age, SamplingWindow + 1)] : x \in b.samples}
             o == {Aged(age, DisableWindow + 1) : age \in b.overrides}
             t == Left(b.timer)
  <1>1. s \subseteq Samples
    BY ConfigAssumption DEF Blobs, Samples, Aged
  <1>2. o \subseteq 0..(DisableWindow + 1)
    BY ConfigAssumption DEF Blobs, Aged
  <1>3. t \in (0..(Timeout + Minute - 1)) \cup {None}
    BY ConfigAssumption, TimeoutFacts DEF Blobs, Left
  <1>4. AgedBlob(b) = [b EXCEPT !.samples = s, !.overrides = o, !.timer = t]
    BY DEF AgedBlob, Blobs
  <1> HIDE DEF s, o, t
  <1>5. AgedBlob(b) \in Blobs /\ AgedBlob(b).baseline = b.baseline /\ AgedBlob(b).timer = t
    BY <1>1, <1>2, <1>3, <1>4 DEF Blobs
  <1> QED BY <1>5 DEF t
-----------------------------------------------------------------------------
(* Types.                                                                  *)
LEMMA CallType ==
  ASSUME TypeOK, NEW S, NEW to \in {"on", "off"}, Call(S, to) \/ cmds' = cmds
  PROVE  cmds' \in [Controlled -> Seq({"on", "off"})]
  <1>1. \A e \in Controlled : Append(cmds[e], to) \in Seq({"on", "off"})
    <2> SUFFICES ASSUME NEW e \in Controlled
                 PROVE  Append(cmds[e], to) \in Seq({"on", "off"})
      OBVIOUS
    <2>1. cmds[e] \in Seq({"on", "off"})
      BY DEF TypeOK
    <2> QED BY <2>1
  <1> QED BY <1>1 DEF Call, TypeOK

LEMMA RunType ==
  ASSUME TypeOK, NEW type, Handling(type), NEW b \in Blobs, Save(b),
         NEW S, NEW to \in {"on", "off"}, Call(S, to) \/ cmds' = cmds
  PROVE  TypeOK'
  <1>1. queue' \in Seq(Events) /\ Len(queue') <= MaxQueue
    BY TailType DEF Handling
  <1>2. cmds' \in [Controlled -> Seq({"on", "off"})]
    BY CallType
  <1>3. minutely' \in (0..Minute) \cup {None}
    BY ConfigAssumption DEF Handling, TypeOK
  <1>4. blob' \in Blobs \cup {None}
    BY DEF Save, TypeOK
  <1> QED BY <1>1, <1>2, <1>3, <1>4 DEF Handling, world, TypeOK

LEMMA SensorType ==
  ASSUME TypeOK, HandleSensor
  PROVE  TypeOK'
  <1> DEFINE v == Head(queue).value
  <1>0. Handling("SENSOR") /\ v \in Values \cup {None}
    <2>1. Handling("SENSOR") /\ Head(queue) \in Events
      BY TailElements DEF HandleSensor, Handling, TypeOK
    <2> QED BY <2>1 DEF Events, SensorEvent, SwitchEvent, TimerEvent
  <1>1. ASSUME NEW r \in Rounding, v = None, SaveOnly(Loaded(r))
        PROVE  TypeOK'
    BY <1>0, <1>1, LoadedType, RunType DEF SaveOnly, TypeOK
  <1>2. ASSUME NEW r \in Rounding, v # None,
               \/ Sampled(Loaded(r), v).baseline = None /\ CheckSpike(Sampled(Loaded(r), v))
               \/ Sampled(Loaded(r), v).baseline # None /\ CheckRelease(Sampled(Loaded(r), v))
        PROVE  TypeOK'
    <2> DEFINE b == Sampled(Loaded(r), v)
    <2>1. b \in Blobs /\ b.samples # {}
      BY <1>0, <1>2, LoadedType, SampledType
    <2>2. TakenOver(b) \in Blobs /\ Rest(b) \in Blobs
      BY <2>1, TakenOverType, RestType
    <2> HIDE DEF b
    <2>3. CASE CheckSpike(b)
      BY <1>0, <1>2, <2>1, <2>2, <2>3, RunType DEF CheckSpike, SaveOnly
    <2>4. CASE CheckRelease(b)
      BY <1>0, <1>2, <2>1, <2>2, <2>4, RunType DEF CheckRelease, SaveOnly
    <2> QED BY <1>2, <2>3, <2>4 DEF b
  <1> QED BY <1>1, <1>2 DEF HandleSensor

LEMMA SwitchType ==
  ASSUME TypeOK, HandleSwitch
  PROVE  TypeOK'
  <1>0. Handling("SWITCH")
    BY DEF HandleSwitch, TypeOK
  <1> SUFFICES ASSUME NEW r \in Rounding,
                      \/ SaveOnly(Restarted(Loaded(r), r))
                      \/ SaveOnly([Loaded(r) EXCEPT !.timer = None])
                      \/ HandleManualOverride(Loaded(r))
               PROVE  TypeOK'
    BY DEF HandleSwitch
  <1> DEFINE b == Loaded(r)
  <1>1. b \in Blobs
    BY LoadedType
  <1>2. /\ Restarted(b, r) \in Blobs /\ [b EXCEPT !.timer = None] \in Blobs
        /\ Rest(b) \in Blobs /\ Overridden(b) \in Blobs
    BY <1>1, RestartedType, RestType, OverriddenType
  <1> HIDE DEF b
  <1>3. CASE SaveOnly(Restarted(b, r))
    BY <1>0, <1>2, <1>3, RunType DEF SaveOnly
  <1>4. CASE SaveOnly([b EXCEPT !.timer = None])
    BY <1>0, <1>2, <1>4, RunType DEF SaveOnly
  <1>5. CASE HandleManualOverride(b)
    BY <1>0, <1>2, <1>5, RunType DEF HandleManualOverride, SaveOnly
  <1> QED BY <1>3, <1>4, <1>5 DEF b

LEMMA TimerType ==
  ASSUME TypeOK, HandleTimer
  PROVE  TypeOK'
  <1>0. Handling("TIMER")
    BY DEF HandleTimer, TypeOK
  <1>1. PICK r \in Rounding :
           LET b == Armed(Loaded(r), r)
           IN  \/ SaveOnly(b)
               \/ Save([b EXCEPT !.timer = None]) /\ Call(ControlledOn, "off")
    BY DEF HandleTimer
  <1> DEFINE b == Armed(Loaded(r), r)
  <1>2. b \in Blobs /\ [b EXCEPT !.timer = None] \in Blobs
    BY LoadedType, ArmedType, RestType
  <1> HIDE DEF b
  <1>3. CASE SaveOnly(b)
    BY <1>0, <1>2, <1>3, RunType DEF SaveOnly
  <1>4. CASE Save([b EXCEPT !.timer = None]) /\ Call(ControlledOn, "off")
    BY <1>0, <1>2, <1>4, RunType
  <1> QED BY <1>1, <1>3, <1>4 DEF b

LEMMA SetStatesType ==
  ASSUME TypeOK, NEW S \in SUBSET Controlled, NEW s \in States, SetStates(S, s)
  PROVE  /\ st' \in [Controlled -> States]
         /\ onFor' \in [Controlled -> 0..Timeout]
         /\ queue' \in Seq(Events) /\ Len(queue') <= MaxQueue
  <1>1. Cardinality(S) \in Nat
    BY ConfigAssumption, FS_Subset, FS_CardinalityType
  <1>2. [i \in 1..Cardinality(S) |-> SwitchEvent] \in Seq(Events)
    BY <1>1, EventTypes
  <1>3. queue' \in Seq(Events) /\ Len(queue') <= MaxQueue
    BY <1>2, TriggerType DEF SetStates
  <1> QED BY <1>3, TimeoutFacts DEF SetStates, TypeOK

LEMMA TypeStep ==
  ASSUME TypeOK, [Next]_vars
  PROVE  TypeOK'
  <1>1. ASSUME HandleNothing PROVE TypeOK'
    BY <1>1, TailType DEF HandleNothing, TypeOK, world
  <1>2. ASSUME Handle PROVE TypeOK'
    BY <1>1, <1>2, SensorType, SwitchType, TimerType DEF Handle
  <1>3. ASSUME PeriodicTick PROVE TypeOK'
    <2>1. Minute \in 0..Minute
      BY ConfigAssumption
    <2> QED BY <1>3, <2>1, ForceTriggerType DEF PeriodicTick, TypeOK, world
  <1>4. ASSUME NEW k \in {"recover", "enable"}, Kick(k) PROVE TypeOK'
    BY <1>4, ForceTriggerType DEF Kick, TypeOK, world
  <1>5. ASSUME NEW S \in SUBSET Controlled, NEW s \in States, Switch(S, s) PROVE TypeOK'
    BY <1>5, SetStatesType DEF Switch, TypeOK
  <1>6. ASSUME NEW e \in Controlled, NEW s \in States, Fault(e, s) PROVE TypeOK'
    BY <1>6, SetStatesType DEF Fault, TypeOK
  <1>7. ASSUME AttributeUpdate PROVE TypeOK'
    <2>1. <<SwitchEvent>> \in Seq(Events)
      BY EventTypes
    <2> QED BY <1>7, <2>1, TriggerType DEF AttributeUpdate, TypeOK, world
  <1>8. ASSUME NEW v \in Values \cup {None}, Read(v) PROVE TypeOK'
    <2>1. <<SensorEvent(v)>> \in Seq(Events)
      BY EventTypes
    <2> QED BY <1>8, <2>1, TriggerType DEF Read, TypeOK
  <1>9. ASSUME Repeat PROVE TypeOK'
    <2>1. <<SensorEvent(reading)>> \in Seq(Events)
      BY EventTypes DEF TypeOK
    <2> QED BY <1>9, <2>1, TriggerType DEF Repeat, TypeOK, world
  <1>10. ASSUME NEW e \in Controlled, cmds[e] # <<>>,
                cmds' = [cmds EXCEPT ![e] = Tail(@)]
         PROVE  cmds' \in [Controlled -> Seq({"on", "off"})]
    BY <1>10, TailElements DEF TypeOK
  <1>11. ASSUME NEW e \in Controlled, Deliver(e) PROVE TypeOK'
    <2>1. Head(cmds[e]) \in States
      BY <1>11, TailElements DEF Deliver, TypeOK, States
    <2>2. cmds' \in [Controlled -> Seq({"on", "off"})]
      BY <1>10, <1>11 DEF Deliver
    <2> QED BY <1>11, <2>1, <2>2, SetStatesType DEF Deliver, TypeOK
  <1>12. ASSUME NEW e \in Controlled, Lose(e) PROVE TypeOK'
    BY <1>12, <1>10 DEF Lose, TypeOK, world
  <1>13. ASSUME Tick PROVE TypeOK'
    <2>1. blob' \in Blobs \cup {None}
      BY <1>13, AgedType DEF Tick, TypeOK
    <2>2. minutely' \in (0..Minute) \cup {None}
      BY <1>13, ConfigAssumption DEF Tick, TypeOK, Left
    <2>3. onFor' \in [Controlled -> 0..Timeout]
      BY <1>13, TimeoutFacts DEF Tick, TypeOK, Aged
    <2> QED BY <1>13, <2>1, <2>2, <2>3 DEF Tick, TypeOK
  <1>14. ASSUME Disable \/ Enable PROVE TypeOK'
    BY <1>14, EmptyQueue DEF Disable, Enable, TypeOK, world
  <1>15. ASSUME Reload \/ Recreate PROVE TypeOK'
    BY <1>15, EmptyQueue DEF Reload, Recreate, TypeOK, world
  <1>16. ASSUME ReloadEntry PROVE TypeOK'
    <2>1. PICK n \in 0..Len(queue) : queue' = SubSeq(queue, n + 1, Len(queue))
      BY <1>16 DEF ReloadEntry
    <2>2. queue' \in Seq(Events) /\ Len(queue') <= MaxQueue
      BY <2>1, BoundsAssumption DEF TypeOK
    <2> QED BY <1>16, <2>2 DEF ReloadEntry, TypeOK, world
  <1>17. ASSUME Restart PROVE TypeOK'
    <2>1. st' \in [Controlled -> States] /\ onFor' \in [Controlled -> 0..Timeout]
      BY <1>17, TimeoutFacts DEF Restart, States
    <2>2. cmds' \in [Controlled -> Seq({"on", "off"})]
      <3>1. <<>> \in Seq({"on", "off"})
        OBVIOUS
      <3> QED BY <3>1, <1>17 DEF Restart
    <2>3. queue' \in Seq(Events) /\ Len(queue') <= MaxQueue
      <3>1. queue' = <<>>
        BY <1>17 DEF Restart
      <3> QED BY <3>1, EmptyQueue, Zenon
    <2>4. kicks' \subseteq {"recover", "enable"}
      <3>1. {"recover"} \subseteq {"recover", "enable"}
        BY Zenon
      <3>2. kicks' = {"recover"}
        BY <1>17 DEF Restart
      <3> QED BY <3>1, <3>2
    <2>5. /\ reading' \in Values \cup {None} /\ enabled' \in BOOLEAN
          /\ minutely' \in (0..Minute) \cup {None} /\ blob' \in Blobs \cup {None}
      BY <1>17 DEF Restart, TypeOK
    <2> QED BY <2>1, <2>2, <2>3, <2>4, <2>5 DEF TypeOK
  <1>18. ASSUME UNCHANGED vars PROVE TypeOK'
    BY <1>18 DEF vars, TypeOK
  <1> QED
    BY <1>2, <1>3, <1>4, <1>5, <1>6, <1>7, <1>8, <1>9, <1>11, <1>12, <1>13, <1>14,
       <1>15, <1>16, <1>17, <1>18
    DEF Next, System, Surroundings

(* The types of the state: a bounded queue, a blob the next run can load,  *)
(* a baseline that was read, countdowns within their range.                *)
THEOREM TypeCorrect == Spec => []TypeOK
  <1>1. Init => TypeOK
    <2> SUFFICES ASSUME Init PROVE TypeOK
      OBVIOUS
    <2>1. st \in [Controlled -> States] /\ onFor \in [Controlled -> 0..Timeout]
      BY TimeoutFacts DEF Init, States
    <2>2. cmds \in [Controlled -> Seq({"on", "off"})]
      <3>1. <<>> \in Seq({"on", "off"})
        OBVIOUS
      <3> QED BY <3>1 DEF Init
    <2>3. queue \in Seq(Events) /\ Len(queue) <= MaxQueue
      <3>1. queue = <<>>
        BY DEF Init
      <3> QED BY <3>1, EmptyQueue, Zenon
    <2>4. kicks \subseteq {"recover", "enable"}
      <3>1. {"recover"} \subseteq {"recover", "enable"}
        BY Zenon
      <3>2. kicks = {"recover"}
        BY DEF Init
      <3> QED BY <3>1, <3>2
    <2>5. /\ reading \in Values \cup {None} /\ enabled \in BOOLEAN
          /\ minutely \in (0..Minute) \cup {None} /\ blob \in Blobs \cup {None}
      BY DEF Init
    <2> QED BY <2>1, <2>2, <2>3, <2>4, <2>5 DEF TypeOK
  <1> QED BY <1>1, TypeStep, PTL DEF Spec
-----------------------------------------------------------------------------
(* What a run does, seen through who is in charge.                         *)

\* The blob b that a run saves and the call it makes: it keeps everything,
\* leaves nobody in charge, starts a countdown, leaves the sensor in charge,
\* or lets go.
Keeps(b) == (b.baseline # None <=> Managed) /\ b.timer = TimeLeft /\ cmds' = cmds

Clears(b) == b.baseline = None /\ b.timer = None /\ cmds' = cmds

Starts(b) ==
  /\ ~Managed /\ b.baseline = None
  /\ b.timer \in Timeout..(Timeout + Minute - 1)
  /\ cmds' = cmds

Manages(b) ==
  /\ b.baseline # None /\ b.timer = None
  /\ cmds' = cmds \/ Call(Controlled, "on")

Releases(b) ==
  /\ Managed \/ TimeLeft = 0
  /\ b.baseline = None /\ b.timer = None
  /\ Call(ControlledOn, "off")

Outcome(b) == Keeps(b) \/ Clears(b) \/ Starts(b) \/ Manages(b) \/ Releases(b)

(* A run starts from the blob that is there, or from a countdown that      *)
(* starts now.                                                             *)
LEMMA LoadedFacts ==
  ASSUME TypeOK, NEW r \in Rounding
  PROVE  /\ Loaded(r) \in Blobs
         /\ blob # None => Loaded(r) = blob
         /\ Loaded(r).baseline # None <=> Managed
         /\ \/ Loaded(r).timer = TimeLeft
            \/ ~Managed /\ Loaded(r).timer \in Timeout..(Timeout + Minute - 1)
  <1>1. Timeout + r \in Timeout..(Timeout + Minute - 1)
    BY TimeoutFacts, ConfigAssumption DEF Rounding
  <1>2. CASE blob = None
    BY <1>1, <1>2, LoadedType DEF Loaded, Armed, FreshState, Managed, TimeLeft
  <1>3. CASE blob # None
    BY <1>3, LoadedType DEF Loaded, Managed, TimeLeft
  <1> QED BY <1>2, <1>3

(* Saving the blob loaded, or one that differs only in what the contract   *)
(* does not see, is one of the outcomes.                                   *)
LEMMA UntouchedOutcome ==
  ASSUME TypeOK, NEW r \in Rounding, NEW b \in Blobs, cmds' = cmds,
         b.baseline = Loaded(r).baseline, b.timer = Loaded(r).timer
  PROVE  Outcome(b)
  BY LoadedFacts DEF Outcome, Keeps, Starts

LEMMA SensorOutcome ==
  ASSUME TypeOK, HandleSensor
  PROVE  \E b \in Blobs : Save(b) /\ Outcome(b)
  <1> DEFINE v == Head(queue).value
  <1>0. v \in Values \cup {None}
    <2>1. Head(queue) \in Events
      BY TailElements DEF HandleSensor, Handling, TypeOK
    <2> QED BY <2>1 DEF Events, SensorEvent, SwitchEvent, TimerEvent
  <1>1. ASSUME NEW r \in Rounding, SaveOnly(Loaded(r))
        PROVE  \E b \in Blobs : Save(b) /\ Outcome(b)
    BY <1>1, LoadedFacts, UntouchedOutcome DEF SaveOnly
  <1>2. ASSUME NEW r \in Rounding, v # None,
               \/ Sampled(Loaded(r), v).baseline = None /\ CheckSpike(Sampled(Loaded(r), v))
               \/ Sampled(Loaded(r), v).baseline # None /\ CheckRelease(Sampled(Loaded(r), v))
        PROVE  \E b \in Blobs : Save(b) /\ Outcome(b)
    <2> DEFINE b == Sampled(Loaded(r), v)
    <2>1. /\ b \in Blobs /\ b.samples # {}
          /\ b.baseline = Loaded(r).baseline /\ b.timer = Loaded(r).timer
      BY <1>0, <1>2, LoadedType, SampledType
    <2>2. TakenOver(b) \in Blobs /\ Rest(b) \in Blobs
      BY <2>1, TakenOverType, RestType
    <2>3. TakenOver(b).baseline # None /\ TakenOver(b).timer = None
      <3>1. Lowest(b) \in Nat
        BY <2>1, LowestType, ConfigAssumption
      <3> HIDE DEF b
      <3> QED BY <2>1, <3>1, NoneAssumption DEF TakenOver, Blobs
    <2>4. Rest(b).baseline = None /\ Rest(b).timer = None
      <3> HIDE DEF b
      <3> QED BY <2>1 DEF Rest, Blobs
    <2>5. b.baseline # None <=> Managed
      BY <2>1, LoadedFacts
    <2>6. cmds' = cmds => Outcome(b)
      BY <2>1, UntouchedOutcome
    <2> HIDE DEF b
    <2>7. CASE SaveOnly(b)
      BY <2>1, <2>6, <2>7 DEF SaveOnly
    <2>8. CASE /\ SaveOnly(TakenOver(b)) \/ (Save(TakenOver(b)) /\ Call(Controlled, "on"))
      BY <2>2, <2>3, <2>8 DEF SaveOnly, Outcome, Manages
    <2>9. CASE b.baseline # None /\ Save(Rest(b)) /\ Call(ControlledOn, "off")
      BY <2>2, <2>4, <2>5, <2>9 DEF Outcome, Releases
    <2> QED BY <1>2, <2>7, <2>8, <2>9 DEF b, CheckSpike, CheckRelease
  <1> QED BY <1>1, <1>2 DEF HandleSensor

LEMMA SwitchOutcome ==
  ASSUME TypeOK, ManagedNoTimer, HandleSwitch
  PROVE  \E b \in Blobs :
           /\ Save(b) /\ Outcome(b)
           /\ b.timer = None \/ ControlledOn = {} \/ b.timer >= Timeout
  <1> SUFFICES ASSUME NEW r \in Rounding,
                      \/ Loaded(r).baseline = None /\ SaveOnly(Restarted(Loaded(r), r))
                      \/ SaveOnly([Loaded(r) EXCEPT !.timer = None])
                      \/ /\ ControlledOn = {} /\ Loaded(r).baseline # None
                         /\ HandleManualOverride(Loaded(r))
               PROVE  \E b \in Blobs :
                        /\ Save(b) /\ Outcome(b)
                        /\ b.timer = None \/ ControlledOn = {} \/ b.timer >= Timeout
    BY DEF HandleSwitch
  <1> DEFINE b == Loaded(r)
  <1>1. /\ b \in Blobs /\ (b.baseline # None <=> Managed)
        /\ b.baseline # None => b.timer = None
        /\ cmds' = cmds => Outcome(b)
    BY LoadedFacts, UntouchedOutcome DEF ManagedNoTimer, Managed, TimeLeft
  <1>2. /\ Restarted(b, r) \in Blobs /\ [b EXCEPT !.timer = None] \in Blobs
        /\ Rest(b) \in Blobs /\ Overridden(b) \in Blobs
    BY <1>1, RestartedType, RestType, OverriddenType
  <1>3. Timeout + r \in Timeout..(Timeout + Minute - 1) /\ Timeout \in Nat
    BY TimeoutFacts, ConfigAssumption DEF Rounding
  <1> HIDE DEF b
  <1>4. CASE b.baseline = None /\ SaveOnly(Restarted(b, r)) /\ AutoOff > 0
    <2>1. Restarted(b, r).baseline = None /\ Restarted(b, r).timer = Timeout + r
      BY <1>1, <1>4 DEF Restarted, Blobs
    <2>2. Starts(Restarted(b, r)) /\ Restarted(b, r).timer >= Timeout
      BY <1>1, <1>3, <1>4, <2>1 DEF Starts, SaveOnly
    <2> QED BY <1>2, <1>4, <2>2 DEF SaveOnly, Outcome
  <1>5. CASE SaveOnly(Restarted(b, r)) /\ ~(AutoOff > 0)
    <2>1. Restarted(b, r) = b
      BY <1>5 DEF Restarted
    <2>2. Timeout = 0
      BY <1>5, TimeoutFacts, ConfigAssumption
    <2>3. b.timer = None \/ b.timer >= Timeout
      <3>1. b.timer = None \/ b.timer \in 0..(Timeout + Minute - 1)
        BY <1>1 DEF Blobs
      <3> QED BY <2>2, <3>1
    <2> QED BY <1>1, <1>5, <2>1, <2>3 DEF SaveOnly
  <1>6. CASE SaveOnly([b EXCEPT !.timer = None])
    <2> DEFINE c == [b EXCEPT !.timer = None]
    <2>1. c.timer = None /\ c.baseline = b.baseline
      BY <1>1 DEF Blobs
    <2> HIDE DEF c
    <2>2. Outcome(c)
      BY <1>1, <1>6, <2>1 DEF Outcome, Clears, Manages, SaveOnly
    <2> QED BY <1>2, <1>6, <2>1, <2>2 DEF SaveOnly, c
  <1>7. CASE ControlledOn = {} /\ b.baseline # None /\ HandleManualOverride(b)
    <2>1. Rest(b).baseline = None /\ Rest(b).timer = None
      BY <1>1 DEF Rest, Blobs
    <2>2. Overridden(b).baseline # None /\ Overridden(b).timer = None
      BY <1>1, <1>7 DEF Overridden, Blobs
    <2>3. CASE SaveOnly(Rest(b))
      BY <1>2, <2>1, <2>3 DEF SaveOnly, Outcome, Clears
    <2>4. CASE Save(Overridden(b)) /\ Call(Controlled, "on")
      BY <1>2, <2>2, <2>4 DEF Outcome, Manages
    <2> QED BY <1>7, <2>3, <2>4 DEF HandleManualOverride
  <1> QED BY <1>3, <1>4, <1>5, <1>6, <1>7 DEF b

LEMMA TimerOutcome ==
  ASSUME TypeOK, HandleTimer
  PROVE  \E b \in Blobs : Save(b) /\ Outcome(b)
  <1>1. PICK r \in Rounding :
           LET b == Armed(Loaded(r), r)
           IN  \/ SaveOnly(b)
               \/ /\ Expired(b)
                  /\ Save([b EXCEPT !.timer = None]) /\ Call(ControlledOn, "off")
    BY DEF HandleTimer
  <1> DEFINE l == Loaded(r)
             b == Armed(l, r)
  <1>2. /\ l \in Blobs /\ (l.baseline # None <=> Managed)
        /\ l.timer = TimeLeft \/ (~Managed /\ l.timer \in Timeout..(Timeout + Minute - 1))
        /\ cmds' = cmds => Outcome(l)
    BY LoadedFacts, UntouchedOutcome
  <1>3. b \in Blobs /\ [b EXCEPT !.timer = None] \in Blobs
    BY <1>2, ArmedType, RestType
  <1>4. Timeout + r \in Timeout..(Timeout + Minute - 1) /\ Timeout \in Nat
    BY TimeoutFacts, ConfigAssumption DEF Rounding
  <1> HIDE DEF l
  <1>5. \/ b = l
        \/ b.baseline = None /\ l.baseline = None /\ b.timer = Timeout + r
    BY <1>2 DEF Armed, Blobs
  <1> HIDE DEF b
  <1>6. CASE SaveOnly(b)
    <2>1. Outcome(b)
      BY <1>2, <1>4, <1>5, <1>6 DEF SaveOnly, Outcome, Starts
    <2> QED BY <1>3, <1>6, <2>1 DEF SaveOnly
  <1>7. CASE Expired(b) /\ Save([b EXCEPT !.timer = None]) /\ Call(ControlledOn, "off")
    <2>1. b.timer = 0 /\ b.baseline = None /\ Timeout > 0
      BY <1>7, TimeoutFacts DEF Expired
    <2>2. b = l
      BY <1>4, <1>5, <2>1, TimeoutFacts DEF Rounding
    <2>3. TimeLeft = 0
      BY <1>2, <1>4, <2>1, <2>2
    <2> DEFINE c == [b EXCEPT !.timer = None]
    <2>4. c.baseline = None /\ c.timer = None
      BY <1>3, <2>1 DEF Blobs
    <2> HIDE DEF c
    <2>5. Outcome(c)
      BY <1>7, <2>3, <2>4 DEF Outcome, Releases
    <2> QED BY <1>3, <1>7, <2>5 DEF c
  <1> QED BY <1>1, <1>6, <1>7 DEF b, l
-----------------------------------------------------------------------------
(* The controller implements the contract.                                 *)

(* After a run, who is in charge can be read off the blob it saved.        *)
LEMMA SavedFacts ==
  ASSUME NEW b \in Blobs, Save(b)
  PROVE  /\ blob' = b /\ blob' # None
         /\ Managed' <=> b.baseline # None
         /\ TimeLeft' = b.timer
         /\ Owner' = IF b.baseline # None THEN "sensor"
                     ELSE IF b.timer # None THEN "person" ELSE "nobody"
  BY NoneAssumption DEF Save, Managed, TimeLeft, Owner

(* No handler changes a countdown that the sensor has stopped.             *)
LEMMA OutcomeNoTimer ==
  ASSUME ManagedNoTimer, NEW b \in Blobs, Save(b), Outcome(b)
  PROVE  ManagedNoTimer'
  BY SavedFacts
  DEF ManagedNoTimer, Outcome, Keeps, Clears, Starts, Manages, Releases

LEMMA OutcomeAllowed ==
  ASSUME TypeOK, NEW b \in Blobs, Save(b), Outcome(b)
  PROVE  [Contract!Next]_(Contract!vars)
  <1>1. /\ Managed' <=> b.baseline # None
        /\ TimeLeft' = b.timer
        /\ Owner' = IF b.baseline # None THEN "sensor"
                    ELSE IF b.timer # None THEN "person" ELSE "nobody"
    BY SavedFacts
  <1>2. /\ Managed <=> Owner = "sensor"
        /\ ~Managed /\ TimeLeft # None <=> Owner = "person"
        /\ ~Managed /\ TimeLeft = None <=> Owner = "nobody"
    BY DEF Managed, TimeLeft, Owner
  <1>3. CASE Keeps(b)
    BY <1>1, <1>2, <1>3 DEF Keeps, Contract!vars
  <1>4. CASE Clears(b)
    BY <1>1, <1>4 DEF Clears, Contract!Next, Contract!NobodyInCharge
  <1>5. CASE Starts(b)
    <2>1. b.timer # None
      BY <1>5, NoneAssumption, TimeoutFacts DEF Starts
    <2>2. Contract!PersonInCharge
      BY <1>1, <1>2, <1>5, <2>1 DEF Starts, Contract!PersonInCharge
    <2> QED BY <2>2 DEF Contract!Next
  <1>6. ASSUME Manages(b) PROVE Contract!SensorInCharge
    <2>1. cmds' = cmds => Contract!Sent({}, "on")
      BY <1>6 DEF Contract!Sent, TypeOK
    <2>2. Call(Controlled, "on") => Contract!Sent(Controlled, "on")
      BY DEF Contract!Sent, Call
    <2> QED BY <1>1, <1>6, <2>1, <2>2 DEF Manages, Contract!SensorInCharge
  <1>7. CASE Releases(b)
    <2>1. ControlledOn \in SUBSET Controlled /\ Contract!Sent(ControlledOn, "off")
      BY <1>7 DEF ControlledOn, Releases, Call, Contract!Sent
    <2>2. Owner = "sensor" \/ (Owner = "person" /\ TimeLeft = 0)
      BY <1>2, <1>7, NoneAssumption DEF Releases
    <2>3. Contract!LetGo
      BY <1>1, <1>7, <2>1, <2>2 DEF Releases, Contract!LetGo
    <2> QED BY <2>3 DEF Contract!Next
  <1> QED BY <1>3, <1>4, <1>5, <1>6, <1>7 DEF Outcome, Contract!Next

(* A run of the service layer, whichever handler it reaches.               *)
LEMMA HandlerAllowed ==
  ASSUME TypeOK, ManagedNoTimer, HandleSensor \/ HandleSwitch \/ HandleTimer
  PROVE  ManagedNoTimer' /\ [Contract!Next]_(Contract!vars)
  <1>1. PICK b \in Blobs : Save(b) /\ Outcome(b)
    BY SensorOutcome, SwitchOutcome, TimerOutcome
  <1> QED BY <1>1, OutcomeNoTimer, OutcomeAllowed

\* The steps of the rest of the system, by what they do to blob and calls.
LEMMA BlobUntouched ==
  ASSUME ManagedNoTimer, blob' = blob
  PROVE  ManagedNoTimer' /\ Owner' = Owner /\ TimeLeft' = TimeLeft
  BY DEF ManagedNoTimer, Managed, Owner, TimeLeft

LEMMA TickAllowed ==
  ASSUME TypeOK, ManagedNoTimer, Tick
  PROVE  ManagedNoTimer' /\ [Contract!Next]_(Contract!vars)
  <1>1. cmds' = cmds
    BY DEF Tick
  <1>2. CASE blob = None
    <2>1. blob' = blob
      BY <1>2 DEF Tick
    <2> QED BY <1>1, <2>1, BlobUntouched DEF Contract!vars
  <1>3. CASE blob # None
    <2>1. /\ blob' \in Blobs /\ blob' # None
          /\ blob'.baseline = blob.baseline
          /\ blob'.timer = Left(blob.timer)
      BY <1>3, AgedType, NoneAssumption DEF Tick, TypeOK
    <2>2. Managed' <=> Managed
      BY <1>3, <2>1 DEF Managed
    <2>3. TimeLeft' = Left(TimeLeft)
      BY <1>3, <2>1 DEF TimeLeft
    <2>4. TimeLeft = None \/ TimeLeft \in Nat
      BY <1>3, TimeoutFacts, ConfigAssumption DEF TimeLeft, TypeOK, Blobs
    <2>5. CASE TimeLeft = None
      <3>1. TimeLeft' = TimeLeft /\ Owner' = Owner
        BY <1>3, <2>1, <2>2, <2>3, <2>5 DEF Left, Owner, TimeLeft
      <3> QED BY <1>1, <2>2, <2>5, <3>1 DEF ManagedNoTimer, Contract!vars
    <2>6. CASE TimeLeft \in Nat
      <3>1. TimeLeft # None /\ TimeLeft' # None
        BY <2>3, <2>6, NoneAssumption DEF Left
      <3>2. ~Managed /\ ~Managed'
        BY <2>2, <3>1 DEF ManagedNoTimer
      <3>3. Owner = "person" /\ Owner' = "person"
        BY <1>3, <2>1, <3>1, <3>2 DEF Owner, TimeLeft
      <3>4. Contract!Wait
        BY <1>1, <2>3, <3>1, <3>3 DEF Contract!Wait, Left
      <3> QED BY <3>2, <3>4 DEF ManagedNoTimer, Contract!Next
    <2> QED BY <2>4, <2>5, <2>6
  <1> QED BY <1>2, <1>3

LEMMA StepAllowed ==
  ASSUME TypeOK, ManagedNoTimer, [Next]_vars
  PROVE  ManagedNoTimer' /\ [Contract!Next]_(Contract!vars)
  <1>1. ASSUME Handle PROVE ManagedNoTimer' /\ [Contract!Next]_(Contract!vars)
    <2>1. ASSUME HandleNothing PROVE ManagedNoTimer' /\ [Contract!Next]_(Contract!vars)
      BY <2>1, BlobUntouched DEF HandleNothing, Contract!vars
    <2> QED BY <1>1, <2>1, HandlerAllowed DEF Handle
  <1>2. ASSUME Tick PROVE ManagedNoTimer' /\ [Contract!Next]_(Contract!vars)
    BY <1>2, TickAllowed
  <1>3. ASSUME NEW e \in Controlled, Deliver(e) \/ Lose(e)
        PROVE  ManagedNoTimer' /\ [Contract!Next]_(Contract!vars)
    <2>1. blob' = blob /\ cmds[e] # <<>> /\ cmds' = [cmds EXCEPT ![e] = Tail(@)]
      BY <1>3 DEF Deliver, Lose
    <2>2. Contract!Land(e)
      BY <2>1, BlobUntouched DEF Contract!Land
    <2> QED BY <2>1, <2>2, BlobUntouched DEF Contract!Next
  <1>4. ASSUME Restart PROVE ManagedNoTimer' /\ [Contract!Next]_(Contract!vars)
    <2>1. blob' = None /\ cmds' = [e \in Controlled |-> <<>>]
      BY <1>4 DEF Restart
    <2>2. ~Managed' /\ TimeLeft' = None /\ Owner' = "nobody"
      BY <2>1 DEF Managed, TimeLeft, Owner
    <2> QED BY <2>1, <2>2 DEF ManagedNoTimer, Contract!Next, Contract!NobodyInCharge
  <1>5. ASSUME blob' = blob /\ cmds' = cmds
        PROVE  ManagedNoTimer' /\ [Contract!Next]_(Contract!vars)
    BY <1>5, BlobUntouched DEF Contract!vars
  <1>6. ASSUME \/ PeriodicTick \/ AttributeUpdate \/ Repeat
               \/ Disable \/ Enable \/ Reload \/ Recreate \/ ReloadEntry
        PROVE  blob' = blob /\ cmds' = cmds
    BY <1>6 DEF PeriodicTick, AttributeUpdate, Repeat, Disable, Enable, Reload,
                Recreate, ReloadEntry
  <1>7. ASSUME \/ \E k \in {"recover", "enable"} : Kick(k)
               \/ \E S \in SUBSET Controlled, s \in States : Switch(S, s)
               \/ \E e \in Controlled, s \in States : Fault(e, s)
               \/ \E v \in Values \cup {None} : Read(v)
        PROVE  blob' = blob /\ cmds' = cmds
    BY <1>7 DEF Kick, Switch, Fault, Read
  <1>8. ASSUME UNCHANGED vars PROVE blob' = blob /\ cmds' = cmds
    BY <1>8 DEF vars
  <1> QED BY <1>1, <1>2, <1>3, <1>4, <1>5, <1>6, <1>7, <1>8
          DEF Next, System, Surroundings

(* The controller keeps the contract of UnitContract: who is in charge     *)
(* changes, and calls are made, only as it allows, over lost calls and     *)
(* runs, reloads and restarts.                                             *)
THEOREM ContractTheorem == Spec => KeepsContract
  <1>1. Init => ManagedNoTimer /\ Contract!Init
    BY DEF Init, ManagedNoTimer, Managed, TimeLeft, Owner, Contract!Init
  <1>2. TypeOK /\ ManagedNoTimer /\ [Next]_vars =>
          ManagedNoTimer' /\ [Contract!Next]_(Contract!vars)
    BY StepAllowed
  <1> QED BY <1>1, <1>2, TypeCorrect, PTL DEF Spec, KeepsContract, Contract!Spec
-----------------------------------------------------------------------------
(* Auto-off is never early: no run is lost (NoRunLost), so a SWITCH run    *)
(* that waits is handled, and until then it excuses the countdown.         *)

\* With no run lost the automation is on and its configuration valid.
OnTime == enabled = TRUE /\ ConfigOK /\ OnLongEnough

\* A SWITCH run in the queue stays there when runs are queued behind it.
LEMMA PendingStays ==
  ASSUME TypeOK, NEW evs \in Seq(Events), Trigger(evs) \/ queue' = Queued(evs), SwitchPending
  PROVE  SwitchPending'
  BY QueuedFacts DEF TypeOK, Trigger, SwitchPending

LEMMA PendingForced ==
  ASSUME TypeOK, ForceTrigger, SwitchPending
  PROVE  SwitchPending'
  <1>1. <<TimerEvent>> \in Seq(Events)
    BY EventTypes
  <1> QED BY <1>1, PendingStays DEF ForceTrigger

\* Handling a run of another kind leaves it there.
LEMMA PendingHandled ==
  ASSUME TypeOK, NEW type, Handling(type), type # "SWITCH", SwitchPending
  PROVE  SwitchPending'
  <1>1. queue \in Seq(Events) /\ queue # <<>> /\ queue' = Tail(queue)
    BY DEF Handling, TypeOK
  <1>2. Head(queue) # SwitchEvent
    BY DEF Handling, SwitchEvent
  <1> QED BY <1>1, <1>2, TailElements DEF SwitchPending

\* A change of state is reported: its run is in the queue.
LEMMA Reported ==
  ASSUME NoRunLost, TypeOK, enabled = TRUE,
         NEW S \in SUBSET Controlled, NEW s \in States, S # {}, SetStates(S, s)
  PROVE  SwitchPending'
  <1> DEFINE n == Cardinality(S)
             evs == [i \in 1..n |-> SwitchEvent]
             all == queue \o evs
  <1>1. n \in Nat /\ n # 0
    BY ConfigAssumption, FS_Subset, FS_CardinalityType, FS_EmptySet
  <1> HIDE DEF n
  <1>2. evs \in Seq(Events) /\ Len(evs) = n /\ \A i \in 1..n : evs[i] = SwitchEvent
    BY <1>1, EventTypes
  <1>3. Trigger(evs)
    BY DEF SetStates, n
  <1> HIDE DEF evs
  <1>4. Len(queue) + n <= MaxQueue /\ Len(queue) \in Nat /\ queue \in Seq(Events)
    BY <1>2, <1>3 DEF Trigger, Room, NoRunLost, TypeOK
  <1>5. /\ all \in Seq(Events) /\ Len(all) = Len(queue) + n
        /\ all[Len(queue) + 1] = SwitchEvent
    <2>1. all \in Seq(Events) /\ Len(all) = Len(queue) + Len(evs)
      BY <1>2, <1>4, ConcatProperties
    <2>2. \A i \in 1..(Len(queue) + Len(evs)) :
             all[i] = IF i <= Len(queue) THEN queue[i] ELSE evs[i - Len(queue)]
      BY <1>2, <1>4, ConcatProperties
    <2>3. Len(queue) + 1 \in 1..(Len(queue) + n) /\ (Len(queue) + 1) - Len(queue) = 1
      BY <1>1, <1>4
    <2>4. evs[1] = SwitchEvent
      BY <1>1, <1>2
    <2> HIDE DEF all
    <2>5. ~(Len(queue) + 1 <= Len(queue))
      BY <1>4
    <2>6. all[Len(queue) + 1] = evs[(Len(queue) + 1) - Len(queue)]
      BY <1>2, <2>2, <2>3, <2>5
    <2> QED BY <1>2, <2>1, <2>3, <2>4, <2>6
  <1>6. queue' = all
    BY <1>3, <1>4, <1>5 DEF Trigger, Queued
  <1>7. Len(queue) + 1 \in DOMAIN all
    BY <1>1, <1>4, <1>5
  <1> QED BY <1>5, <1>6, <1>7 DEF SwitchPending

\* A change of state keeps OnTime: what was on before stays as it was, what
\* has just come on is excused.
LEMMA ChangeOnTime ==
  ASSUME NoRunLost, TypeOK, OnTime, blob' = blob, enabled' = enabled,
         NEW S \in SUBSET Controlled, NEW s \in States \ {"missing"}, S # {},
         SetStates(S, s)
  PROVE  OnTime'
  <1>1. SwitchPending'
    BY Reported DEF OnTime
  <1>2. ConfigOK'
    BY DEF OnTime, ConfigOK, SetStates
  <1>3. OnLongEnough'
    BY <1>1 DEF OnLongEnough
  <1> QED BY <1>2, <1>3 DEF OnTime

\* Steps that touch neither the entities nor the blob, and lose no run.
LEMMA StillOnTime ==
  ASSUME OnTime, blob' = blob, enabled' = enabled, st' = st, onFor' = onFor,
         SwitchPending => SwitchPending'
  PROVE  OnTime'
  BY DEF OnTime, ConfigOK, OnLongEnough, TimeLeft

\* A run that leaves the SWITCH runs in the queue.
LEMMA RunOnTime ==
  ASSUME TypeOK, OnTime, world' = world, enabled' = enabled,
         NEW b \in Blobs, Save(b), Outcome(b), SwitchPending => SwitchPending'
  PROVE  OnTime'
  <1>1. st' = st /\ onFor' = onFor /\ TimeLeft' = b.timer
    BY SavedFacts DEF world
  <1>2. \/ b.timer = TimeLeft
        \/ b.timer = None
        \/ b.timer \in Nat /\ b.timer >= Timeout
    BY TimeoutFacts, ConfigAssumption
    DEF Outcome, Keeps, Clears, Starts, Manages, Releases
  <1>3. \A e \in Controlled : onFor[e] \in Nat
    BY TimeoutFacts DEF TypeOK
  <1>4. OnLongEnough'
    <2> SUFFICES ASSUME TimeLeft' # None, NEW e \in Controlled, st[e] = "on",
                        ~SwitchPending'
                 PROVE  TimeLeft' + onFor[e] >= Timeout
      BY <1>1 DEF OnLongEnough
    <2>1. CASE b.timer = TimeLeft
      BY <1>1, <2>1 DEF OnTime, OnLongEnough
    <2>2. CASE b.timer \in Nat /\ b.timer >= Timeout
      BY <1>1, <1>3, <2>2, TimeoutFacts
    <2> QED BY <1>1, <1>2, <2>1, <2>2
  <1>5. ConfigOK'
    BY <1>1 DEF OnTime, ConfigOK
  <1> QED BY <1>4, <1>5 DEF OnTime

LEMMA HandlerOnTime ==
  ASSUME TypeOK, ManagedNoTimer, OnTime,
         HandleSensor \/ HandleSwitch \/ HandleTimer
  PROVE  OnTime'
  <1>1. CASE HandleSensor
    <2>1. PICK b \in Blobs : Save(b) /\ Outcome(b)
      BY <1>1, SensorOutcome
    <2>2. Handling("SENSOR")
      BY <1>1 DEF HandleSensor
    <2> QED BY <2>1, <2>2, PendingHandled, RunOnTime DEF Handling, world
  <1>2. CASE HandleTimer
    <2>1. PICK b \in Blobs : Save(b) /\ Outcome(b)
      BY <1>2, TimerOutcome
    <2>2. Handling("TIMER")
      BY <1>2 DEF HandleTimer
    <2> QED BY <2>1, <2>2, PendingHandled, RunOnTime DEF Handling, world
  <1>3. CASE HandleSwitch
    <2>1. PICK b \in Blobs :
             /\ Save(b) /\ Outcome(b)
             /\ b.timer = None \/ ControlledOn = {} \/ b.timer >= Timeout
      BY <1>3, SwitchOutcome
    <2>2. st' = st /\ onFor' = onFor /\ enabled' = enabled
      BY <1>3 DEF HandleSwitch, Handling, world
    <2>3. TimeLeft' = b.timer /\ (b.timer = None \/ b.timer \in Nat)
      BY <2>1, SavedFacts, TimeoutFacts, ConfigAssumption DEF Blobs
    <2>4. \A e \in Controlled : onFor[e] \in Nat
      BY TimeoutFacts DEF TypeOK
    <2>5. OnLongEnough'
      <3> SUFFICES ASSUME TimeLeft' # None, NEW e \in Controlled, st[e] = "on"
                   PROVE  TimeLeft' + onFor[e] >= Timeout
        BY <2>2 DEF OnLongEnough
      <3>1. b.timer \in Nat /\ b.timer >= Timeout
        BY <2>1, <2>3 DEF ControlledOn
      <3> QED BY <2>3, <2>4, <3>1, TimeoutFacts
    <2>6. ConfigOK'
      BY <2>2 DEF OnTime, ConfigOK
    <2> QED BY <2>2, <2>5, <2>6 DEF OnTime
  <1> QED BY <1>1, <1>2, <1>3

LEMMA TickOnTime ==
  ASSUME TypeOK, OnTime, Tick
  PROVE  OnTime'
  <1>1. st' = st /\ queue' = queue /\ enabled' = enabled
    BY DEF Tick
  <1>2. SwitchPending => SwitchPending'
    BY <1>1 DEF SwitchPending
  <1>3. TimeLeft' = Left(TimeLeft)
    <2>1. CASE blob = None
      BY <2>1 DEF Tick, TimeLeft, Left
    <2>2. CASE blob # None
      BY <2>2, AgedType, NoneAssumption DEF Tick, TimeLeft, TypeOK
    <2> QED BY <2>1, <2>2
  <1>4. TimeLeft = None \/ TimeLeft \in Nat
    BY TimeoutFacts, ConfigAssumption DEF TimeLeft, TypeOK, Blobs
  <1>5. OnLongEnough'
    <2> SUFFICES ASSUME TimeLeft' # None, NEW e \in Controlled, st[e] = "on",
                        ~SwitchPending'
                 PROVE  TimeLeft' + onFor'[e] >= Timeout
      BY <1>1 DEF OnLongEnough
    <2>1. TimeLeft # None /\ TimeLeft \in Nat
      BY <1>3, <1>4 DEF Left
    <2>2. TimeLeft + onFor[e] >= Timeout
      BY <1>1, <1>2, <2>1 DEF OnTime, OnLongEnough
    <2>3. onFor[e] \in 0..Timeout /\ Timeout \in Nat
      BY TimeoutFacts DEF TypeOK
    <2>4. onFor'[e] = IF onFor[e] < Timeout THEN onFor[e] + 1 ELSE onFor[e]
      BY DEF Tick, Aged
    <2>5. TimeLeft' = IF TimeLeft = 0 THEN 0 ELSE TimeLeft - 1
      BY <1>3, <2>1 DEF Left
    <2> QED BY <2>1, <2>2, <2>3, <2>4, <2>5
  <1>6. ConfigOK'
    BY <1>1 DEF OnTime, ConfigOK
  <1> QED BY <1>1, <1>5, <1>6 DEF OnTime

LEMMA StepOnTime ==
  ASSUME NoRunLost, TypeOK, ManagedNoTimer, OnTime, [Next]_vars
  PROVE  OnTime'
  <1>1. ASSUME Handle PROVE OnTime'
    BY <1>1, HandlerOnTime DEF Handle, HandleNothing, OnTime
  <1>2. ASSUME Tick PROVE OnTime'
    BY <1>2, TickOnTime
  <1>3. ASSUME NEW S \in SUBSET Controlled, NEW s \in States, Switch(S, s) PROVE OnTime'
    BY <1>3, ChangeOnTime DEF Switch
  <1>4. ASSUME NEW e \in Controlled, NEW s \in States, Fault(e, s) PROVE OnTime'
    <2>1. s # "missing"
      BY <1>4 DEF Fault, NoRunLost
    <2> QED BY <1>4, <2>1, ChangeOnTime DEF Fault
  <1>5. ASSUME NEW e \in Controlled, Deliver(e) PROVE OnTime'
    <2>1. Head(cmds[e]) \in States \ {"missing"}
      <3>1. Head(cmds[e]) \in {"on", "off"}
        BY <1>5, TailElements DEF Deliver, TypeOK
      <3> QED BY <3>1 DEF States
    <2>2. blob' = blob /\ enabled' = enabled
      BY <1>5 DEF Deliver
    <2>3. CASE SetStates({e}, Head(cmds[e]))
      BY <2>1, <2>2, <2>3, ChangeOnTime
    <2>4. CASE UNCHANGED <<st, onFor, queue>>
      BY <2>2, <2>4, StillOnTime DEF SwitchPending
    <2> QED BY <1>5, <2>3, <2>4 DEF Deliver
  <1>6. ASSUME PeriodicTick \/ \E k \in {"recover", "enable"} : Kick(k) PROVE OnTime'
    <2>1. ForceTrigger \/ queue' = queue
      BY <1>6 DEF PeriodicTick, Kick
    <2>2. SwitchPending => SwitchPending'
      BY <2>1, PendingForced DEF SwitchPending
    <2> QED BY <1>6, <2>2, StillOnTime DEF PeriodicTick, Kick, world
  <1>7. ASSUME NEW ev \in Events, Trigger(<<ev>>)
        PROVE  SwitchPending => SwitchPending'
    <2>1. <<ev>> \in Seq(Events)
      BY <1>7
    <2> QED BY <1>7, <2>1, PendingStays
  <1>8. ASSUME AttributeUpdate PROVE OnTime'
    BY <1>8, <1>7, EventTypes, StillOnTime DEF AttributeUpdate, world
  <1>9. ASSUME NEW v \in Values \cup {None}, Read(v) PROVE OnTime'
    BY <1>9, <1>7, EventTypes, StillOnTime DEF Read
  <1>10. ASSUME Repeat PROVE OnTime'
    BY <1>10, <1>7, EventTypes, StillOnTime DEF Repeat, world, TypeOK
  <1>11. ASSUME NEW e \in Controlled, Lose(e) PROVE OnTime'
    BY <1>11, StillOnTime DEF Lose, world, SwitchPending
  <1>12. ASSUME Disable \/ Enable \/ Reload \/ Recreate \/ ReloadEntry PROVE FALSE
    BY <1>12 DEF Disable, Enable, Reload, Recreate, ReloadEntry, NoRunLost
  <1>13. ASSUME Restart PROVE OnTime'
    BY <1>13 DEF Restart, OnTime, ConfigOK, OnLongEnough, TimeLeft
  <1>14. ASSUME UNCHANGED vars PROVE OnTime'
    BY <1>14, StillOnTime DEF vars, SwitchPending
  <1> QED
    BY <1>1, <1>2, <1>3, <1>4, <1>5, <1>6, <1>8, <1>9, <1>10, <1>11, <1>12, <1>13, <1>14
    DEF Next, System, Surroundings

\* A call to turn e off without the sensor: the countdown has ended.
LEMMA TurnsOffWhenDue ==
  ASSUME TypeOK, ManagedNoTimer, [Next]_vars,
         NEW e \in Controlled, TurnsOff(e), ~Managed
  PROVE  TimeLeft = 0 /\ st[e] = "on"
  <1>1. cmds[e] \in Seq({"on", "off"})
    BY DEF TypeOK
  <1>2. /\ Append(cmds[e], "off") # cmds[e] /\ Append(cmds[e], "off") # <<>>
        /\ Append(cmds[e], "off") # Append(cmds[e], "on")
        /\ cmds[e] # <<>> => Append(cmds[e], "off") # Tail(cmds[e])
    <2>1. Len(Append(cmds[e], "off")) = Len(cmds[e]) + 1 /\ Len(cmds[e]) \in Nat
      BY <1>1
    <2>2. cmds[e] # <<>> => Len(Tail(cmds[e])) = Len(cmds[e]) - 1
      BY <1>1
    <2>3. /\ Append(cmds[e], "off")[Len(cmds[e]) + 1] = "off"
          /\ Append(cmds[e], "on")[Len(cmds[e]) + 1] = "on"
      BY <1>1
    <2>4. Append(cmds[e], "off") # cmds[e] /\ Append(cmds[e], "off") # <<>>
      BY <2>1
    <2>5. Append(cmds[e], "off") # Append(cmds[e], "on")
      BY <2>3
    <2>6. cmds[e] # <<>> => Append(cmds[e], "off") # Tail(cmds[e])
      BY <2>1, <2>2
    <2> QED BY <2>4, <2>5, <2>6
  <1>3. cmds'[e] = Append(cmds[e], "off")
    BY DEF TurnsOff
  <1>4. cmds' # cmds
    BY <1>2, <1>3
  <1>5. CASE HandleSensor \/ HandleSwitch \/ HandleTimer
    <2>1. PICK b \in Blobs : Save(b) /\ Outcome(b)
      BY <1>5, SensorOutcome, SwitchOutcome, TimerOutcome
    <2>2. ~Call(Controlled, "on")
      BY <1>2, <1>3 DEF Call
    <2>3. Releases(b)
      BY <1>4, <2>1, <2>2 DEF Outcome, Keeps, Clears, Starts, Manages
    <2>4. TimeLeft = 0 /\ Call(ControlledOn, "off")
      BY <2>3 DEF Releases
    <2>5. e \in ControlledOn
      BY <1>2, <1>3, <2>4 DEF Call
    <2> QED BY <2>4, <2>5 DEF ControlledOn
  <1>6. CASE \E f \in Controlled : Deliver(f) \/ Lose(f)
    <2>1. PICK f \in Controlled : cmds[f] # <<>> /\ cmds' = [cmds EXCEPT ![f] = Tail(@)]
      BY <1>6 DEF Deliver, Lose
    <2>2. cmds'[e] = IF e = f THEN Tail(cmds[e]) ELSE cmds[e]
      BY <2>1 DEF TypeOK
    <2> QED BY <1>2, <1>3, <2>1, <2>2
  <1>7. CASE Restart
    BY <1>2, <1>3, <1>7 DEF Restart
  <1>8. ~ (\/ HandleNothing \/ PeriodicTick \/ AttributeUpdate \/ Repeat \/ Tick
           \/ Disable \/ Enable \/ Reload \/ Recreate \/ ReloadEntry \/ UNCHANGED vars)
    BY <1>4 DEF HandleNothing, PeriodicTick, AttributeUpdate, Repeat, Tick, Disable,
                Enable, Reload, Recreate, ReloadEntry, vars
  <1>9. ~ (\/ \E k \in {"recover", "enable"} : Kick(k)
           \/ \E S \in SUBSET Controlled, s \in States : Switch(S, s)
           \/ \E f \in Controlled, s \in States : Fault(f, s)
           \/ \E v \in Values \cup {None} : Read(v))
    BY <1>4 DEF Kick, Switch, Fault, Read
  <1> QED BY <1>5, <1>6, <1>7, <1>8, <1>9 DEF Next, System, Surroundings, Handle

(* What auto-off turns off has been on for the whole timeout, or the run   *)
(* that reports it going on is still queued: while no run is lost, for any *)
(* number of entities, any timeout and any rounding.                       *)
THEOREM NoEarlyOffTheorem == NoRunLost => (Spec => NoEarlyOff)
  <1> SUFFICES ASSUME NoRunLost PROVE Spec => NoEarlyOff
    OBVIOUS
  <1>1. Init => ManagedNoTimer /\ OnTime
    BY DEF Init, ManagedNoTimer, Managed, OnTime, ConfigOK, OnLongEnough, TimeLeft
  <1>2. TypeOK /\ ManagedNoTimer /\ OnTime /\ [Next]_vars => ManagedNoTimer' /\ OnTime'
    BY StepAllowed, StepOnTime
  <1>3. TypeOK /\ ManagedNoTimer /\ OnTime /\ [Next]_vars =>
          [\A e \in Controlled :
             TurnsOff(e) /\ ~Managed => onFor[e] = Timeout \/ SwitchPending]_vars
    <2> SUFFICES ASSUME TypeOK, ManagedNoTimer, OnTime, [Next]_vars,
                        NEW e \in Controlled, TurnsOff(e), ~Managed, ~SwitchPending
                 PROVE  onFor[e] = Timeout
      OBVIOUS
    <2>1. TimeLeft = 0 /\ st[e] = "on" /\ TimeLeft # None
      BY TurnsOffWhenDue, NoneAssumption
    <2>2. TimeLeft + onFor[e] >= Timeout
      BY <2>1 DEF OnTime, OnLongEnough
    <2>3. onFor[e] \in 0..Timeout /\ Timeout \in Nat
      BY TimeoutFacts DEF TypeOK
    <2> QED BY <2>1, <2>2, <2>3
  <1> QED BY <1>1, <1>2, <1>3, TypeCorrect, PTL DEF Spec, NoEarlyOff
=============================================================================
