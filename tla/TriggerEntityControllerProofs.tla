-------------------- MODULE TriggerEntityControllerProofs --------------------
(***************************************************************************)
(* What TLAPS proves of TriggerEntityController for every configuration,   *)
(* queue bound and set of entities.                                        *)
(***************************************************************************)
EXTENDS TriggerEntityController, SequenceTheorems, TLAPS

(* Sequences: an element appended, the rest of a non-empty sequence.       *)
LEMMA AppendElements ==
  ASSUME NEW S, NEW s \in Seq(S), NEW x \in S
  PROVE  /\ Append(s, x) \in Seq(S)
         /\ Len(Append(s, x)) = Len(s) + 1
         /\ \A i \in DOMAIN s : i \in DOMAIN Append(s, x) /\ Append(s, x)[i] = s[i]
         /\ Len(Append(s, x)) \in DOMAIN Append(s, x)
         /\ Append(s, x)[Len(Append(s, x))] = x
  OBVIOUS

LEMMA TailElements ==
  ASSUME NEW S, NEW s \in Seq(S), s # <<>>
  PROVE  /\ Tail(s) \in Seq(S)
         /\ Len(Tail(s)) = Len(s) - 1
         /\ Head(s) \in S
         /\ \A i \in DOMAIN s : \/ s[i] = Head(s)
                                \/ \E j \in DOMAIN Tail(s) : Tail(s)[j] = s[i]
  <1>1. Tail(s) \in Seq(S) /\ Len(Tail(s)) = Len(s) - 1 /\ Head(s) \in S
    OBVIOUS
  <1>2. ASSUME NEW i \in DOMAIN s, i # 1
        PROVE  i - 1 \in DOMAIN Tail(s) /\ Tail(s)[i - 1] = s[i]
    <2>1. DOMAIN s = 1..Len(s) /\ DOMAIN Tail(s) = 1..(Len(s) - 1) /\ Len(s) \in Nat
      BY <1>1
    <2>2. \A j \in 1..(Len(s) - 1) : Tail(s)[j] = s[j + 1]
      BY HeadTailProperties
    <2> QED BY <1>2, <2>1, <2>2
  <1>3. \A i \in DOMAIN s : i = 1 => s[i] = Head(s)
    OBVIOUS
  <1> QED BY <1>1, <1>2, <1>3
-----------------------------------------------------------------------------
(* Helpers of the model keep their types.                                  *)
LEMMA QueuedType ==
  ASSUME NEW q \in Seq(Events), Len(q) <= MaxQueue, NEW ev \in Events
  PROVE  Queued(q, ev) \in Seq(Events) /\ Len(Queued(q, ev)) <= MaxQueue
  BY BoundsAssumption, AppendElements DEF Queued

LEMMA EmptyQueue == <<>> \in Seq(Events) /\ Len(<<>>) <= MaxQueue
  <1>1. 0 <= MaxQueue
    BY BoundsAssumption
  <1> QED BY <1>1

LEMMA TailType ==
  ASSUME TypeOK, queue # <<>>
  PROVE  Tail(queue) \in Seq(Events) /\ Len(Tail(queue)) <= MaxQueue
  <1>1. queue \in Seq(Events) /\ Len(queue) <= MaxQueue
    BY DEF TypeOK
  <1>2. Tail(queue) \in Seq(Events) /\ Len(Tail(queue)) = Len(queue) - 1
    BY <1>1, TailElements
  <1>3. Len(queue) \in Nat /\ MaxQueue \in Nat
    BY <1>1, BoundsAssumption
  <1> QED BY <1>1, <1>2, <1>3

LEMMA TriggerType ==
  ASSUME TypeOK, NEW ev \in Events, Trigger(ev)
  PROVE  queue' \in Seq(Events) /\ Len(queue') <= MaxQueue
  <1>1. Queued(queue, ev) \in Seq(Events) /\ Len(Queued(queue, ev)) <= MaxQueue
    BY QueuedType DEF TypeOK
  <1> QED BY <1>1, QueuedType DEF TypeOK, Trigger

LEMMA ForceTriggerType ==
  ASSUME TypeOK, ForceTrigger
  PROVE  queue' \in Seq(Events) /\ Len(queue') <= MaxQueue
  <1>1. TimerEvent \in Events
    BY DEF TimerEvent, Events
  <1> QED BY <1>1, QueuedType DEF TypeOK, ForceTrigger

LEMMA ApplyType ==
  ASSUME TypeOK, NEW S, NEW to \in {"on", "off"},
         NEW t \in (0..AutoOff) \cup {None},
         Apply(S, to, t) \/ DoNothing(t)
  PROVE  /\ cmds' \in [Controlled -> Seq({"on", "off"})]
         /\ timer' \in (0..AutoOff) \cup {None}
         /\ wakeup' \in Wakeups \cup {None}
  <1>1. timer' \in (0..AutoOff) \cup {None} /\ wakeup' \in Wakeups \cup {None}
    BY DEF Apply, DoNothing, ApplyAutoOffAt, TypeOK, Wakeups
  <1>2. \A e \in Controlled : Append(cmds[e], to) \in Seq({"on", "off"})
    <2> SUFFICES ASSUME NEW e \in Controlled
                 PROVE  Append(cmds[e], to) \in Seq({"on", "off"})
      OBVIOUS
    <2>1. cmds[e] \in Seq({"on", "off"})
      BY DEF TypeOK
    <2> QED BY <2>1, AppendElements
  <1>3. cmds' \in [Controlled -> Seq({"on", "off"})]
    BY <1>2 DEF Apply, DoNothing, TypeOK
  <1> QED BY <1>1, <1>3

-----------------------------------------------------------------------------
LEMMA TypeStep ==
  ASSUME TypeOK, [Next]_vars
  PROVE  TypeOK'
  <1>1. ASSUME HandleNothing
        PROVE  TypeOK'
    BY <1>1, TailType DEF HandleNothing, TypeOK, env, auto, inst
  <1>2. ASSUME NEW S, NEW to \in {"on", "off"}, NEW t \in (0..AutoOff) \cup {None},
               NEW type, Handling(type), Apply(S, to, t) \/ DoNothing(t)
        PROVE  TypeOK'
    <2>1. queue' \in Seq(Events) /\ Len(queue') <= MaxQueue
      BY <1>2, TailType DEF Handling
    <2> QED BY <1>2, <2>1, ApplyType DEF Handling, TypeOK, env, auto
  <1>3. None \in (0..AutoOff) \cup {None} /\ timer \in (0..AutoOff) \cup {None}
    BY DEF TypeOK
  <1>4. AutoOff \in (0..AutoOff) \cup {None}
    BY ConfigAssumption
  <1>5. ASSUME HandleTriggerOn PROVE TypeOK'
    BY <1>5, <1>2, <1>3 DEF HandleTriggerOn
  <1>6. ASSUME HandleTriggerOff PROVE TypeOK'
    BY <1>6, <1>2, <1>3, <1>4 DEF HandleTriggerOff
  <1>7. ASSUME HandleControlledOn PROVE TypeOK'
    BY <1>7, <1>2, <1>3, <1>4 DEF HandleControlledOn
  <1>8. ASSUME HandleControlledOff PROVE TypeOK'
    BY <1>8, <1>2, <1>3, <1>4 DEF HandleControlledOff
  <1>9. ASSUME HandleDisablingChanged PROVE TypeOK'
    BY <1>9, <1>2, <1>3, <1>4 DEF HandleDisablingChanged
  <1>10. ASSUME HandleTimer PROVE TypeOK'
    BY <1>10, <1>2, <1>3, <1>4 DEF HandleTimer
  <1>11. ASSUME FireWakeup PROVE TypeOK'
    BY <1>11, ForceTriggerType DEF FireWakeup, TypeOK, env, auto
  <1>12. ASSUME NEW k \in {"recover", "enable"}, Kick(k) PROVE TypeOK'
    BY <1>12, ForceTriggerType DEF Kick, TypeOK, env, auto, inst
  <1>13. ASSUME NEW e \in Entities, NEW s \in States, SetState(e, s)
         PROVE  /\ st' \in [Entities -> States]
                /\ onFor' \in [Controlled -> 0..AutoOff]
                /\ clearFor' \in 0..AutoOff
                /\ queue' \in Seq(Events) /\ Len(queue') <= MaxQueue
    <2>1. [ent |-> e, to |-> s] \in Events
      BY <1>13 DEF Events
    <2>2. queue' \in Seq(Events) /\ Len(queue') <= MaxQueue
      BY <1>13, <2>1, TriggerType DEF SetState
    <2> QED BY <1>13, <2>2, ConfigAssumption DEF SetState, TypeOK
  <1>14. ASSUME NEW e \in Entities, NEW s \in States, Change(e, s) PROVE TypeOK'
    BY <1>14, <1>13 DEF Change, TypeOK, auto, inst
  <1>15. ASSUME NEW e \in Entities, AttributeUpdate(e) PROVE TypeOK'
    <2>1. [ent |-> e, to |-> st[e]] \in Events
      BY DEF TypeOK, Events
    <2> QED BY <1>15, <2>1, TriggerType DEF AttributeUpdate, TypeOK, env, auto, inst
  <1>16. ASSUME NEW e \in Controlled, cmds[e] # <<>>,
                cmds' = [cmds EXCEPT ![e] = Tail(@)]
         PROVE  cmds' \in [Controlled -> Seq({"on", "off"})]
    BY <1>16, TailElements DEF TypeOK
  <1>17. ASSUME NEW e \in Controlled, Deliver(e) PROVE TypeOK'
    <2>1. e \in Entities /\ Head(cmds[e]) \in States
      BY <1>17, TailElements DEF Deliver, TypeOK, Entities, States
    <2>2. cmds' \in [Controlled -> Seq({"on", "off"})]
      BY <1>16, <1>17 DEF Deliver
    <2> QED BY <1>17, <1>13, <2>1, <2>2 DEF Deliver, TypeOK, auto, inst
  <1>18. ASSUME NEW e \in Controlled, Lose(e) PROVE TypeOK'
    BY <1>18, <1>16 DEF Lose, TypeOK, env, auto, inst
  <1>19. ASSUME SunMoves PROVE TypeOK'
    BY <1>19 DEF SunMoves, TypeOK, auto, inst
  <1>20. ASSUME Tick PROVE TypeOK'
    <2>1. ASSUME NEW n \in 0..AutoOff
          PROVE  Left(n) \in 0..AutoOff /\ Aged(n) \in 0..AutoOff
      BY <2>1, ConfigAssumption DEF Left, Aged
    <2>2. timer' \in (0..AutoOff) \cup {None}
      BY <1>20, <2>1 DEF Tick, TypeOK
    <2>3. wakeup' \in Wakeups \cup {None}
      BY <1>20, <2>1 DEF Tick, TypeOK, Wakeups
    <2>4. onFor' \in [Controlled -> 0..AutoOff] /\ clearFor' \in 0..AutoOff
      BY <1>20, <2>1, ConfigAssumption DEF Tick, TypeOK
    <2> QED BY <1>20, <2>2, <2>3, <2>4 DEF Tick, TypeOK, auto
  <1>21. ASSUME Disable \/ Enable PROVE TypeOK'
    BY <1>21, EmptyQueue DEF Disable, Enable, TypeOK, env, inst
  <1>22. ASSUME Reload \/ Recreate PROVE TypeOK'
    BY <1>22, EmptyQueue DEF Reload, Recreate, TypeOK, env
  <1>23. ASSUME NEW i \in Ids, Rename(i) PROVE TypeOK'
    BY <1>23 DEF Rename, TypeOK, env, inst
  <1>24. ASSUME ReloadEntry PROVE TypeOK'
    <2>1. PICK n \in 0..Len(queue) : queue' = SubSeq(queue, n + 1, Len(queue))
      BY <1>24 DEF ReloadEntry
    <2>2. queue' \in Seq(Events) /\ Len(queue') <= MaxQueue
      BY <2>1, BoundsAssumption DEF TypeOK
    <2> QED BY <1>24, <2>2 DEF ReloadEntry, TypeOK, env
  <1>25. ASSUME Restart PROVE TypeOK'
    <2>1. st' \in [Entities -> States]
      BY <1>25 DEF Restart, States
    <2>2. cmds' \in [Controlled -> Seq({"on", "off"})]
      <3>1. <<>> \in Seq({"on", "off"})
        OBVIOUS
      <3> QED BY <3>1, <1>25 DEF Restart
    <2> QED BY <1>25, <2>1, <2>2, ConfigAssumption, EmptyQueue DEF Restart, TypeOK
  <1>26. ASSUME UNCHANGED vars PROVE TypeOK'
    BY <1>26 DEF vars, TypeOK
  <1>27. ASSUME Handle PROVE TypeOK'
    BY <1>27, <1>1, <1>5, <1>6, <1>7, <1>8, <1>9, <1>10 DEF Handle
  <1> QED
    BY <1>11, <1>12, <1>14, <1>15, <1>17, <1>18, <1>19, <1>20, <1>21, <1>22,
       <1>23, <1>24, <1>25, <1>26, <1>27
    DEF Next, System, Surroundings

(* The types of the state: bounded queue and countdowns, calls to known    *)
(* entities, a wakeup that never outlasts the delay it was given.          *)
THEOREM TypeCorrect == Spec => []TypeOK
  <1>1. Init => TypeOK
    <2> SUFFICES ASSUME Init PROVE TypeOK
      OBVIOUS
    <2>1. st \in [Entities -> States]
      BY DEF Init, States
    <2>2. cmds \in [Controlled -> Seq({"on", "off"})]
      <3>1. <<>> \in Seq({"on", "off"})
        OBVIOUS
      <3> QED BY <3>1 DEF Init
    <2>3. onFor \in [Controlled -> 0..AutoOff] /\ clearFor \in 0..AutoOff
      BY ConfigAssumption DEF Init
    <2>4. day \in BOOLEAN
      BY DEF Init
    <2> QED BY <2>1, <2>2, <2>3, <2>4, EmptyQueue DEF Init, TypeOK
  <1> QED BY <1>1, TypeStep, PTL DEF Spec
-----------------------------------------------------------------------------
(* How the steps treat the runs waiting.                                   *)
LEMMA QueuedKept ==
  ASSUME NEW q \in Seq(Events), NEW ev \in Events, NEW i \in DOMAIN q
  PROVE  i \in DOMAIN Queued(q, ev) /\ Queued(q, ev)[i] = q[i]
  BY AppendElements DEF Queued

LEMMA Kept ==
  ASSUME TypeOK, NEW i \in DOMAIN queue,
         \/ ForceTrigger
         \/ \E ev \in Events : Trigger(ev)
         \/ queue' = queue
  PROVE  i \in DOMAIN queue' /\ queue'[i] = queue[i]
  <1>1. TimerEvent \in Events
    BY DEF TimerEvent, Events
  <1>2. CASE ForceTrigger
    BY <1>1, <1>2, QueuedKept DEF ForceTrigger, TypeOK
  <1>3. ASSUME NEW ev \in Events, Trigger(ev)
        PROVE  i \in DOMAIN queue' /\ queue'[i] = queue[i]
    <2>1. /\ Queued(queue, ev) \in Seq(Events)
          /\ i \in DOMAIN Queued(queue, ev) /\ Queued(queue, ev)[i] = queue[i]
      BY QueuedKept, QueuedType DEF TypeOK
    <2>2. LET q == Queued(queue, ev)
          IN  i \in DOMAIN Queued(q, ev) /\ Queued(q, ev)[i] = queue[i]
      BY <2>1, QueuedKept
    <2> QED BY <1>3, <2>1, <2>2 DEF Trigger
  <1> QED BY <1>2, <1>3

LEMMA PendingKept ==
  ASSUME TypeOK, NEW S, NEW s, Pending(S, s),
         \/ ForceTrigger
         \/ \E ev \in Events : Trigger(ev)
         \/ queue' = queue
  PROVE  Pending(S, s)'
  BY Kept DEF Pending

LEMMA PendingAdded ==
  ASSUME TypeOK, NEW ev \in Events, Trigger(ev), enabled, "overflow" \notin Env,
         NEW S, ev.ent \in S
  PROVE  Pending(S, ev.to)'
  <1> DEFINE q == Queued(queue, ev)
             n == Len(queue) + 1
  <1>1. Watchers(ev.ent) \in {1, 2} /\ Len(queue) + Watchers(ev.ent) <= MaxQueue
    BY DEF Trigger, Room, Watchers
  <1>2. q = Append(queue, ev)
    BY <1>1, BoundsAssumption DEF Queued, TypeOK
  <1>3. q \in Seq(Events) /\ n \in DOMAIN q /\ q[n] = ev
    BY <1>2, AppendElements DEF TypeOK
  <1>4. n \in DOMAIN Queued(q, ev) /\ Queued(q, ev)[n] = ev
    BY <1>3, QueuedKept
  <1>5. n \in DOMAIN queue' /\ queue'[n] = ev
    BY <1>1, <1>3, <1>4 DEF Trigger
  <1> QED BY <1>5 DEF Pending

LEMMA PendingAfterTail ==
  ASSUME TypeOK, queue # <<>>, queue' = Tail(queue), NEW S, NEW s, Pending(S, s),
         ~(Head(queue).ent \in S /\ Head(queue).to = s)
  PROVE  Pending(S, s)'
  <1>1. PICK i \in DOMAIN queue : queue[i].ent \in S /\ queue[i].to = s
    BY DEF Pending
  <1>2. PICK j \in DOMAIN Tail(queue) : Tail(queue)[j] = queue[i]
    BY <1>1, TailElements DEF TypeOK
  <1> QED BY <1>1, <1>2 DEF Pending

\* Which handler a report of a controlled entity or a trigger going on gets.
LEMMA OnEvents ==
  ASSUME NEW ev \in Events, ev.to = "on"
  PROVE  /\ ev.ent \in Controlled => EventType(ev) = "CONTROLLED_ON"
         /\ ev.ent \in Triggers => EventType(ev) = "TRIGGER_ON"
  BY ConfigAssumption DEF EventType, Entities, Events

\* Only an expired countdown turns anything off.
LEMMA TurnsOffWhenDue ==
  ASSUME TypeOK, [Next]_vars, NEW e \in Controlled, TurnsOff(e)
  PROVE  st[e] = "on" /\ timer # None /\ timer = 0
  <1>1. cmds[e] \in Seq({"on", "off"})
    BY DEF TypeOK
  <1>2. /\ Append(cmds[e], "off") # cmds[e]
        /\ cmds[e] # <<>> => Append(cmds[e], "off") # Tail(cmds[e])
        /\ Append(cmds[e], "off") # <<>>
        /\ Append(cmds[e], "off") # Append(cmds[e], "on")
    BY <1>1
  <1>3. cmds' # cmds
    BY <1>2 DEF TurnsOff
  <1>4. ASSUME NEW S, NEW t, Apply(S, "on", t)
        PROVE  FALSE
    BY <1>2, <1>4 DEF Apply, TurnsOff
  <1>5. ASSUME NEW c \in Controlled, Deliver(c) \/ Lose(c)
        PROVE  FALSE
    BY <1>2, <1>5 DEF Deliver, Lose, TurnsOff, TypeOK
  <1>6. ~Restart
    BY <1>2 DEF Restart, TurnsOff
  <1>7. CASE HandleTimer
    <2>1. Expired /\ Apply(ControlledOn, "off", None)
      BY <1>3, <1>7 DEF HandleTimer, DoNothing
    <2>2. e \in ControlledOn
      BY <1>2, <2>1 DEF Apply, TurnsOff
    <2> QED BY <2>1, <2>2 DEF Expired, ControlledOn
  <1>8. CASE Handle /\ ~HandleTimer
    BY <1>3, <1>4, <1>8 DEF Handle, HandleNothing, HandleTriggerOn, HandleTriggerOff,
         HandleControlledOn, HandleControlledOff, HandleDisablingChanged, DoNothing
  <1>9. CASE ~Handle
    BY <1>3, <1>5, <1>6, <1>9
    DEF Next, System, Surroundings, FireWakeup, Kick, Tick, Change, AttributeUpdate,
        SunMoves, Disable, Enable, Reload, Recreate, Rename, ReloadEntry, vars
  <1> QED BY <1>7, <1>8, <1>9
-----------------------------------------------------------------------------
(* Entities that are never removed exist, and an automation that nobody    *)
(* turns off stays on.                                                     *)
LEMMA ConfigOKAlways == "missing" \notin Env => (Spec => []ConfigOK)
  <1> SUFFICES ASSUME "missing" \notin Env PROVE Spec => []ConfigOK
    OBVIOUS
  <1>1. Init => ConfigOK
    BY DEF Init, ConfigOK
  <1>2. ASSUME TypeOK, ConfigOK, [Next]_vars
        PROVE  ConfigOK'
    <2> USE <1>2
    <2>1. ASSUME NEW e \in Entities, NEW s \in States, SetState(e, s), s # "missing"
          PROVE  ConfigOK'
      BY <2>1 DEF SetState, ConfigOK, TypeOK
    <2>2. ASSUME NEW e \in Entities, NEW s \in States, Change(e, s)
          PROVE  ConfigOK'
      BY <2>1, <2>2 DEF Change
    <2>3. ASSUME NEW e \in Controlled, Deliver(e)
          PROVE  ConfigOK'
      <3>1. e \in Entities /\ (cmds[e] # <<>> => Head(cmds[e]) \in {"on", "off"})
        BY TailElements DEF TypeOK, Entities
      <3> QED BY <2>1, <2>3, <3>1 DEF Deliver, States, ConfigOK
    <2>4. ASSUME Restart PROVE ConfigOK'
      BY <2>4 DEF Restart, ConfigOK
    <2>5. ASSUME st' = st PROVE ConfigOK'
      BY <2>5 DEF ConfigOK
    <2> QED
      BY <2>2, <2>3, <2>4, <2>5
      DEF Next, System, Surroundings, Handle, HandleNothing, HandleTriggerOn,
          HandleTriggerOff, HandleControlledOn, HandleControlledOff,
          HandleDisablingChanged, HandleTimer, Handling, FireWakeup, Kick,
          Tick, AttributeUpdate, Lose, SunMoves, Disable, Enable, Reload, Recreate,
          Rename, ReloadEntry, env, vars
  <1> QED BY <1>1, <1>2, TypeCorrect, PTL DEF Spec

LEMMA EnabledAlways == "toggle" \notin Env => (Spec => []enabled)
  <1> SUFFICES ASSUME "toggle" \notin Env PROVE Spec => []enabled
    OBVIOUS
  <1>1. Init => enabled
    BY DEF Init
  <1>2. ASSUME enabled, [Next]_vars
        PROVE  enabled'
    <2>1. enabled' = enabled \/ enabled'
      BY <1>2 DEF Next, System, Surroundings, Handle, HandleNothing, HandleTriggerOn,
           HandleTriggerOff, HandleControlledOn, HandleControlledOff,
           HandleDisablingChanged, HandleTimer, Handling, FireWakeup, Kick, Deliver,
           Tick, Change, AttributeUpdate, Lose, SunMoves, Disable, Enable, Reload, Recreate,
           Rename, ReloadEntry, Restart, auto, vars
    <2> QED BY <1>2, <2>1
  <1> QED BY <1>1, <1>2, PTL DEF Spec
-----------------------------------------------------------------------------
(* An armed wakeup belongs to the running countdown, in every instance.    *)
THEOREM WakeupTheorem == Spec => []WakeupOfCountdown
  <1>1. Init => WakeupOfCountdown
    BY DEF Init, WakeupOfCountdown
  <1>2. ASSUME TypeOK, WakeupOfCountdown, [Next]_vars
        PROVE  WakeupOfCountdown'
    <2> USE <1>2
    <2>1. ASSUME NEW t, ApplyAutoOffAt(t)
          PROVE  WakeupOfCountdown'
      BY <2>1 DEF ApplyAutoOffAt, WakeupOfCountdown
    <2>2. CASE Handle
      BY <2>1, <2>2 DEF Handle, HandleNothing, HandleTriggerOn, HandleTriggerOff,
         HandleControlledOn, HandleControlledOff, HandleDisablingChanged,
         HandleTimer, DoNothing, Apply, inst, WakeupOfCountdown
    <2>3. CASE Tick
      <3>1. CASE wakeup = None
        BY <2>3, <3>1 DEF Tick, WakeupOfCountdown
      <3>2. CASE wakeup # None
        <4>1. wakeup' = [left |-> Left(wakeup.left), id |-> wakeup.id]
          BY <2>3, <3>2 DEF Tick
        <4>2. timer # None /\ wakeup.left = timer /\ timer' = Left(timer)
          BY <2>3, <3>2 DEF Tick, WakeupOfCountdown
        <4>3. timer' # None
          BY <4>2, ConfigAssumption, BoundsAssumption DEF Left, TypeOK
        <4> QED BY <4>1, <4>2, <4>3 DEF WakeupOfCountdown
      <3> QED BY <3>1, <3>2
    <2>4. CASE wakeup' = None
      BY <2>4 DEF WakeupOfCountdown
    <2>5. CASE UNCHANGED inst
      BY <2>5 DEF inst, WakeupOfCountdown
    <2> QED
      BY <2>2, <2>3, <2>4, <2>5
      DEF Next, System, Surroundings, FireWakeup, Kick, Deliver, Change,
          AttributeUpdate, Lose, SunMoves, Disable, Enable, Reload, Recreate,
          Rename, ReloadEntry, Restart, vars, inst
  <1> QED BY <1>1, <1>2, TypeCorrect, PTL DEF Spec
-----------------------------------------------------------------------------
(* No countdown of an enabled automation is forgotten.                     *)
LEMMA SameIdAlways == "rename" \notin Env => (Spec => []SameId)
  <1> SUFFICES ASSUME "rename" \notin Env PROVE Spec => []SameId
    OBVIOUS
  <1>1. Init => SameId
    BY DEF Init, SameId
  <1>2. ASSUME TypeOK, SameId, [Next]_vars
        PROVE  SameId'
    <2> USE <1>2
    <2>1. ASSUME NEW t, ApplyAutoOffAt(t), UNCHANGED auto PROVE SameId'
      BY <2>1 DEF ApplyAutoOffAt, SameId, auto
    <2>2. CASE Handle
      BY <2>1, <2>2 DEF Handle, HandleNothing, HandleTriggerOn, HandleTriggerOff,
         HandleControlledOn, HandleControlledOff, HandleDisablingChanged,
         HandleTimer, Handling, DoNothing, Apply, inst, auto, SameId
    <2>3. CASE Tick
      BY <2>3, BoundsAssumption DEF Tick, SameId, auto
    <2>4. CASE ~Handle /\ ~Tick
      BY <2>4
      DEF Next, System, Surroundings, FireWakeup, Kick, Deliver, Change,
          AttributeUpdate, Lose, SunMoves, Disable, Enable, Reload, Recreate,
          Rename, ReloadEntry, Restart, vars, inst, auto, SameId
    <2> QED BY <2>2, <2>3, <2>4
  <1> QED BY <1>1, <1>2, TypeCorrect, PTL DEF Spec

\* A TIMER run is waiting.
TimerQueued == \E i \in DOMAIN queue : queue[i] = TimerEvent

LEMMA TimerKept ==
  ASSUME TypeOK, TimerQueued,
         \/ ForceTrigger
         \/ \E ev \in Events : Trigger(ev)
         \/ queue' = queue
         \/ /\ queue # <<>> /\ queue' = Tail(queue)
            /\ Head(queue) # TimerEvent
  PROVE  TimerQueued'
  <1>1. PICK i \in DOMAIN queue : queue[i] = TimerEvent
    BY DEF TimerQueued
  <1>4. CASE ForceTrigger \/ (\E ev \in Events : Trigger(ev)) \/ queue' = queue
    BY <1>1, <1>4, Kept DEF TimerQueued
  <1>5. CASE queue # <<>> /\ queue' = Tail(queue) /\ Head(queue) # TimerEvent
    <2>1. PICK j \in DOMAIN Tail(queue) : Tail(queue)[j] = queue[i]
      BY <1>1, <1>5, TailElements DEF TypeOK
    <2> QED BY <1>1, <1>5, <2>1 DEF TimerQueued
  <1> QED BY <1>4, <1>5

LEMMA TimerAdded ==
  ASSUME TypeOK, ForceTrigger, "overflow" \notin Env
  PROVE  TimerQueued'
  <1>1. TimerEvent \in Events
    BY DEF TimerEvent, Events
  <1>2. queue' = Append(queue, TimerEvent)
    BY BoundsAssumption DEF ForceTrigger, Room, Queued, TypeOK
  <1>3. Len(queue') \in DOMAIN queue' /\ queue'[Len(queue')] = TimerEvent
    BY <1>1, <1>2, AppendElements DEF TypeOK
  <1> QED BY <1>3 DEF TimerQueued

(* Unless the automation is renamed, runs are dropped or an entity is      *)
(* missing: once the handler has an auto-off time, something remains that  *)
(* will look at it, for as long as the automation is on.                   *)
THEOREM LostWakeupTheorem ==
  Env \cap {"overflow", "rename", "missing"} = {} => (Spec => []NoLostWakeup)
  <1> SUFFICES ASSUME Env \cap {"overflow", "rename", "missing"} = {}
               PROVE  Spec => []NoLostWakeup
    OBVIOUS
  <1>1. "overflow" \notin Env /\ "rename" \notin Env /\ "missing" \notin Env
    OBVIOUS
  <1>2. Init => NoLostWakeup
    BY DEF Init, NoLostWakeup
  <1>3. ASSUME TypeOK, ConfigOK, SameId, NoLostWakeup, [Next]_vars
        PROVE  NoLostWakeup'
    <2> USE <1>3
    <2>1. NoLostWakeup <=> (timer # None /\ enabled =>
                              \/ wakeup # None /\ wakeup.id = id
                              \/ TimerQueued
                              \/ kicks # {})
      BY DEF NoLostWakeup, TimerQueued
    <2>2. NoLostWakeup' <=> (timer' # None /\ enabled' =>
                               \/ wakeup' # None /\ wakeup'.id = id'
                               \/ TimerQueued'
                               \/ kicks' # {})
      BY DEF NoLostWakeup, TimerQueued
    <2>3. ASSUME NEW t \in (0..AutoOff) \cup {None}, ApplyAutoOffAt(t), UNCHANGED auto
          PROVE  NoLostWakeup'
      <3>1. CASE t = None
        BY <2>3, <3>1, <2>2 DEF ApplyAutoOffAt
      <3>2. CASE t # None
        <4>1. [left |-> t, id |-> id] \in Wakeups
          BY <2>3, <3>2 DEF TypeOK, Wakeups
        <4>2. wakeup' = [left |-> t, id |-> id]
          BY <2>3, <3>2 DEF ApplyAutoOffAt
        <4>3. wakeup' # None /\ wakeup'.id = id'
          BY <2>3, <4>1, <4>2, BoundsAssumption DEF auto
        <4> QED BY <4>3, <2>2
      <3> QED BY <3>1, <3>2
    <2>4. CASE HandleNothing
      <3>1. Head(queue) # TimerEvent
        <4>1. EventType(TimerEvent) = "TIMER"
          BY DEF EventType, TimerEvent
        <4>2. EventType(Head(queue)) = "none"
          BY <2>4 DEF HandleNothing
        <4> QED BY <4>1, <4>2
      <3>2. TimerQueued => TimerQueued'
        BY <2>4, <3>1, TimerKept DEF HandleNothing
      <3> QED BY <2>4, <3>2, <2>1, <2>2 DEF HandleNothing, auto, inst
    <2>5. CASE Handle /\ ~HandleNothing
      <3>1. {timer, AutoOff, None} \subseteq (0..AutoOff) \cup {None}
        BY ConfigAssumption DEF TypeOK
      <3> QED BY <2>5, <2>3, <3>1 DEF Handle, HandleTriggerOn, HandleTriggerOff,
         HandleControlledOn, HandleControlledOff, HandleDisablingChanged,
         HandleTimer, Handling, DoNothing, Apply
    <2>6. CASE FireWakeup
      <3>1. TimerQueued'
        BY <1>1, <2>6, TimerAdded DEF FireWakeup, SameId
      <3> QED BY <3>1, <2>2
    <2>7. ASSUME NEW k \in {"recover", "enable"}, Kick(k) PROVE NoLostWakeup'
      <3>1. CASE ForceTrigger
        BY <1>1, <3>1, TimerAdded, <2>2
      <3>2. CASE ~enabled
        BY <2>7, <3>2, <2>2 DEF Kick, auto
      <3> QED BY <2>7, <3>1, <3>2 DEF Kick
    <2>8. ASSUME UNCHANGED <<auto, kicks, inst>>,
                 queue' = queue \/ \E ev \in Events : Trigger(ev)
          PROVE  NoLostWakeup'
      <3>1. TimerQueued => TimerQueued'
        BY <2>8, TimerKept
      <3> QED BY <2>8, <3>1, <2>1, <2>2 DEF auto, inst
    <2>9. ASSUME NEW e \in Entities, NEW s \in States, SetState(e, s)
          PROVE  \E ev \in Events : Trigger(ev)
      BY <2>9 DEF SetState, Events
    <2>10. ASSUME NEW e \in Entities, NEW s \in States, Change(e, s)
           PROVE  NoLostWakeup'
      BY <2>8, <2>9, <2>10 DEF Change
    <2>11. ASSUME NEW e \in Entities, AttributeUpdate(e) PROVE NoLostWakeup'
      <3>1. [ent |-> e, to |-> st[e]] \in Events
        BY DEF TypeOK, Events
      <3> QED BY <2>8, <2>11, <3>1 DEF AttributeUpdate
    <2>12. ASSUME NEW e \in Controlled, Deliver(e) PROVE NoLostWakeup'
      <3>1. e \in Entities /\ Head(cmds[e]) \in States
        BY <2>12, TailElements DEF Deliver, TypeOK, Entities, States
      <3> QED BY <2>8, <2>9, <2>12, <3>1 DEF Deliver
    <2>13. CASE Tick
      <3>1. TimerQueued => TimerQueued'
        BY <2>13, TimerKept DEF Tick
      <3>2. wakeup # None => wakeup' # None /\ wakeup'.id = wakeup.id
        BY <2>13, BoundsAssumption, ConfigAssumption DEF Tick, TypeOK, Wakeups, Left
      <3>3. timer' # None => timer # None
        BY <2>13 DEF Tick
      <3> QED BY <2>13, <3>1, <3>2, <3>3, <2>1, <2>2 DEF Tick, auto
    <2>14. CASE Disable \/ Enable
      BY <2>14, <2>2 DEF Disable, Enable, SameId
    <2>15. CASE Reload \/ Recreate \/ ReloadEntry \/ Restart
      BY <2>15, <2>2 DEF Reload, Recreate, ReloadEntry, Restart
    <2>16. CASE SunMoves \/ (\E e \in Controlled : Lose(e)) \/ UNCHANGED vars
      BY <2>16, <2>8 DEF SunMoves, Lose, vars, auto, inst
    <2> QED
      BY <1>1, <2>4, <2>5, <2>6, <2>7, <2>10, <2>11, <2>12, <2>13, <2>14, <2>15, <2>16
      DEF Next, System, Surroundings, Rename
  <1> QED BY <1>1, <1>2, <1>3, TypeCorrect, ConfigOKAlways, SameIdAlways, PTL DEF Spec
-----------------------------------------------------------------------------
(* Auto-off never cuts the delay short.                                    *)

\* Steps that take nothing from the queue and change no configured entity.
LEMMA QueueSteps ==
  ASSUME TypeOK, NEW S, NEW s, Pending(S, s),
         \/ FireWakeup
         \/ \E k \in {"recover", "enable"} : Kick(k)
         \/ \E e \in Entities : AttributeUpdate(e)
         \/ \E e \in Controlled : Lose(e)
         \/ \E i \in Ids : Rename(i)
         \/ SunMoves \/ Tick \/ UNCHANGED vars
  PROVE  Pending(S, s)'
  <1>1. ASSUME NEW e \in Entities PROVE [ent |-> e, to |-> st[e]] \in Events
    BY DEF TypeOK, Events
  <1> QED BY <1>1, PendingKept DEF FireWakeup, Kick, AttributeUpdate, Lose, Rename,
             SunMoves, Tick, vars

\* A delivery that changes a state is a SetState of that entity.
LEMMA StateSteps ==
  ASSUME TypeOK,
         \/ \E e \in Entities, s \in States : Change(e, s)
         \/ \E e \in Controlled : Deliver(e)
  PROVE  \/ \E e \in Entities, s \in States : SetState(e, s)
         \/ UNCHANGED <<st, onFor, clearFor, queue>>
  <1>1. ASSUME NEW e \in Controlled, Deliver(e)
        PROVE  e \in Entities /\ Head(cmds[e]) \in States
    BY <1>1, TailElements DEF Deliver, TypeOK, Entities, States
  <1> QED BY <1>1 DEF Change, Deliver

LEMMA AgedLeft ==
  ASSUME NEW t \in 0..AutoOff, NEW n \in 0..AutoOff, t + n >= AutoOff
  PROVE  /\ Left(t) \in 0..AutoOff
         /\ Left(t) + Aged(n) >= AutoOff
  BY ConfigAssumption DEF Left, Aged

LEMMA OnLongEnoughAlways == NoRunLost => (Spec => []OnLongEnough)
  <1> SUFFICES ASSUME NoRunLost PROVE Spec => []OnLongEnough
    OBVIOUS
  <1>1. /\ "overflow" \notin Env /\ "toggle" \notin Env
        /\ "reload" \notin Env /\ "missing" \notin Env
    BY DEF NoRunLost
  <1>2. Init => OnLongEnough
    BY DEF Init, OnLongEnough
  <1>3. ASSUME TypeOK, ConfigOK, enabled, OnLongEnough, [Next]_vars
        PROVE  OnLongEnough'
    <2> USE <1>3
    <2>1. ASSUME queue # <<>>, queue' = Tail(queue), UNCHANGED <<st, onFor, timer>>,
                 EventType(Head(queue)) # "CONTROLLED_ON"
          PROVE  OnLongEnough'
      <3> SUFFICES ASSUME timer # None, NEW e \in Controlled, st[e] = "on"
                   PROVE  Pending({e}, "on")' \/ timer + onFor[e] >= AutoOff
        BY <2>1 DEF OnLongEnough
      <3>1. Head(queue) \in Events
        BY <2>1, TailElements DEF TypeOK
      <3>2. ~(Head(queue).ent \in {e} /\ Head(queue).to = "on")
        BY <2>1, <3>1, OnEvents
      <3> QED BY <2>1, <3>2, PendingAfterTail DEF OnLongEnough
    <2>2. ASSUME timer' = None \/ timer' = AutoOff
          PROVE  OnLongEnough'
      <3>1. ASSUME NEW e \in Controlled PROVE AutoOff + onFor'[e] >= AutoOff
        <4>1. TypeOK'
          BY TypeStep
        <4> QED BY <4>1, ConfigAssumption DEF TypeOK
      <3> QED BY <2>2, <3>1 DEF OnLongEnough
    <2>3. CASE HandleNothing
      BY <2>1, <2>3 DEF HandleNothing, env, inst
    <2>4. CASE HandleTriggerOn
      BY <2>1, <2>2, <2>4 DEF HandleTriggerOn, Handling, DoNothing, Apply, ApplyAutoOffAt, env
    <2>5. CASE HandleTriggerOff
      BY <2>1, <2>2, <2>5 DEF HandleTriggerOff, Handling, DoNothing, Apply, ApplyAutoOffAt, env
    <2>6. CASE HandleControlledOn
      BY <2>2, <2>6 DEF HandleControlledOn, DoNothing, ApplyAutoOffAt
    <2>7. CASE HandleControlledOff
      BY <2>1, <2>2, <2>7 DEF HandleControlledOff, Handling, DoNothing, Apply, ApplyAutoOffAt, env
    <2>8. CASE HandleDisablingChanged
      BY <2>1, <2>2, <2>8 DEF HandleDisablingChanged, Handling, DoNothing, Apply, ApplyAutoOffAt, env
    <2>9. CASE HandleTimer
      BY <2>1, <2>2, <2>9 DEF HandleTimer, Handling, DoNothing, Apply, ApplyAutoOffAt, env
    <2>10. ASSUME NEW e \in Entities, NEW s \in States, SetState(e, s), timer' = timer
           PROVE  OnLongEnough'
      <3> SUFFICES ASSUME timer # None, NEW c \in Controlled, st'[c] = "on"
                   PROVE  Pending({c}, "on")' \/ timer + onFor'[c] >= AutoOff
        BY <2>10 DEF OnLongEnough
      <3>1. [ent |-> e, to |-> s] \in Events /\ Trigger([ent |-> e, to |-> s])
        BY <2>10 DEF Events, SetState
      <3>2. CASE c = e
        <4>1. s = "on"
          BY <2>10, <3>2 DEF SetState, TypeOK
        <4> QED BY <1>1, <3>1, <3>2, <4>1, PendingAdded
      <3>3. CASE c # e
        <4>1. st[c] = "on" /\ onFor'[c] = onFor[c]
          BY <2>10, <3>3 DEF SetState, TypeOK
        <4>2. Pending({c}, "on") => Pending({c}, "on")'
          BY <3>1, PendingKept
        <4> QED BY <4>1, <4>2 DEF OnLongEnough
      <3> QED BY <3>2, <3>3
    <2>11. ASSUME UNCHANGED <<st, onFor, queue, timer>> PROVE OnLongEnough'
      BY <2>11 DEF OnLongEnough, Pending
    <2>12. CASE Tick
      <3> SUFFICES ASSUME timer # None, NEW e \in Controlled, st[e] = "on"
                   PROVE  Pending({e}, "on")' \/ Left(timer) + onFor'[e] >= AutoOff
        BY <2>12 DEF Tick, OnLongEnough
      <3>1. Pending({e}, "on") => Pending({e}, "on")'
        BY <2>12, QueueSteps
      <3>2. timer \in 0..AutoOff /\ onFor[e] \in 0..AutoOff /\ onFor'[e] = Aged(onFor[e])
        BY <2>12 DEF Tick, TypeOK
      <3> QED BY <3>1, <3>2, AgedLeft DEF OnLongEnough
    <2>13. ASSUME \/ FireWakeup
                  \/ \E k \in {"recover", "enable"} : Kick(k)
                  \/ \E e \in Entities : AttributeUpdate(e)
                  \/ \E e \in Controlled : Lose(e)
                  \/ \E i \in Ids : Rename(i)
                  \/ SunMoves \/ UNCHANGED vars
           PROVE  OnLongEnough'
      <3>1. UNCHANGED <<st, onFor, timer>>
        BY <2>13 DEF FireWakeup, Kick, AttributeUpdate, Lose, Rename, SunMoves, vars, env, inst
      <3>2. \A e \in Controlled : Pending({e}, "on") => Pending({e}, "on")'
        BY <2>13, QueueSteps
      <3> QED BY <3>1, <3>2 DEF OnLongEnough
    <2>14. ASSUME \/ \E e \in Entities, s \in States : Change(e, s)
                  \/ \E e \in Controlled : Deliver(e)
           PROVE  OnLongEnough'
      <3>1. timer' = timer
        BY <2>14 DEF Change, Deliver, inst
      <3> QED BY <2>10, <2>11, <2>14, <3>1, StateSteps
    <2>15. CASE ReloadEntry \/ Restart
      BY <2>2, <2>15 DEF ReloadEntry, Restart
    <2> QED
      BY <1>1, <2>3, <2>4, <2>5, <2>6, <2>7, <2>8, <2>9, <2>12, <2>13, <2>14, <2>15
      DEF Next, System, Surroundings, Handle, Disable, Enable, Reload, Recreate
  <1> QED BY <1>1, <1>2, <1>3, TypeCorrect, ConfigOKAlways, EnabledAlways, PTL DEF Spec

(* Where no run is lost, whatever auto-off turns off has been on for the   *)
(* whole delay, or its turning on is still to be handled.                  *)
THEOREM NoEarlyOffTheorem == NoRunLost => (Spec => NoEarlyOff)
  <1> SUFFICES ASSUME NoRunLost PROVE Spec => NoEarlyOff
    OBVIOUS
  <1>1. ASSUME TypeOK, OnLongEnough, [Next]_vars, NEW e \in Controlled, TurnsOff(e)
        PROVE  onFor[e] = AutoOff \/ Pending({e}, "on")
    <2>1. st[e] = "on" /\ timer # None /\ timer = 0
      BY <1>1, TurnsOffWhenDue
    <2>2. onFor[e] \in 0..AutoOff
      BY <1>1 DEF TypeOK
    <2> QED BY <1>1, <2>1, <2>2, ConfigAssumption DEF OnLongEnough
  <1>2. TypeOK /\ OnLongEnough /\ [Next]_vars =>
          [\A e \in Controlled :
             TurnsOff(e) => onFor[e] = AutoOff \/ Pending({e}, "on")]_vars
    BY <1>1
  <1> QED BY <1>2, TypeCorrect, OnLongEnoughAlways, PTL DEF Spec, NoEarlyOff
-----------------------------------------------------------------------------
(* Auto-off waits for the triggers.                                        *)
LEMMA ClearLongEnoughAlways ==
  NoRunLost /\ NeverSuppressed => (Spec => []ClearLongEnough)
  <1> SUFFICES ASSUME NoRunLost, NeverSuppressed PROVE Spec => []ClearLongEnough
    OBVIOUS
  <1>1. /\ "overflow" \notin Env /\ "toggle" \notin Env
        /\ "reload" \notin Env /\ "missing" \notin Env
    BY DEF NoRunLost
  <1>2. Init => ClearLongEnough
    BY DEF Init, ClearLongEnough
  <1>3. ~Suppressed
    BY DEF NeverSuppressed, Suppressed, PeriodSuppressed, AnyOn
  <1>4. ASSUME TypeOK, ConfigOK, enabled, ClearLongEnough, [Next]_vars
        PROVE  ClearLongEnough'
    <2> USE <1>4
    <2>1. ASSUME queue # <<>>, queue' = Tail(queue), UNCHANGED <<st, clearFor, timer>>,
                 EventType(Head(queue)) # "TRIGGER_ON"
          PROVE  ClearLongEnough'
      <3>1. Head(queue) \in Events
        BY <2>1, TailElements DEF TypeOK
      <3>2. ~(Head(queue).ent \in Triggers /\ Head(queue).to = "on")
        BY <2>1, <3>1, OnEvents
      <3>3. Pending(Triggers, "on") => Pending(Triggers, "on")'
        BY <2>1, <3>2, PendingAfterTail
      <3> QED BY <2>1, <3>3 DEF ClearLongEnough, TriggersOn, AnyOn
    <2>2. ASSUME timer' = None PROVE ClearLongEnough'
      BY <2>2 DEF ClearLongEnough
    <2>3. ASSUME timer' = AutoOff, ~TriggersOn, UNCHANGED <<st, clearFor>>
          PROVE  ClearLongEnough'
      <3>1. AutoOff + clearFor >= AutoOff
        BY ConfigAssumption DEF TypeOK
      <3> QED BY <2>3, <3>1 DEF ClearLongEnough, TriggersOn, AnyOn
    <2>4. CASE HandleNothing
      BY <2>1, <2>4 DEF HandleNothing, env, inst
    <2>5. CASE HandleTriggerOn
      BY <1>3, <2>2, <2>5 DEF HandleTriggerOn, DoNothing, Apply, ApplyAutoOffAt
    <2>6. CASE HandleTriggerOff
      BY <2>1, <2>2, <2>3, <2>6 DEF HandleTriggerOff, Handling, DoNothing, ApplyAutoOffAt, env
    <2>7. CASE HandleControlledOn
      BY <2>2, <2>3, <2>7 DEF HandleControlledOn, Handling, DoNothing, ApplyAutoOffAt, env
    <2>8. CASE HandleControlledOff
      BY <2>1, <2>2, <2>8 DEF HandleControlledOff, Handling, DoNothing, Apply, ApplyAutoOffAt, env
    <2>9. CASE HandleDisablingChanged
      BY <2>1, <2>2, <2>3, <2>9
      DEF HandleDisablingChanged, Handling, CanStart, DoNothing, ApplyAutoOffAt, env
    <2>10. CASE HandleTimer
      BY <2>1, <2>2, <2>3, <2>10
      DEF HandleTimer, Handling, CanStart, DoNothing, Apply, ApplyAutoOffAt, env
    <2>11. ASSUME NEW e \in Entities, NEW s \in States, SetState(e, s), timer' = timer
           PROVE  ClearLongEnough'
      <3>1. [ent |-> e, to |-> s] \in Events /\ Trigger([ent |-> e, to |-> s])
        BY <2>11 DEF Events, SetState
      <3>2. CASE e \in Triggers /\ s = "on"
        <4>1. Pending(Triggers, "on")'
          BY <1>1, <3>1, <3>2, PendingAdded
        <4> QED BY <4>1 DEF ClearLongEnough
      <3>3. CASE Pending(Triggers, "on")
        <4>1. Pending(Triggers, "on")'
          BY <3>1, <3>3, PendingKept
        <4> QED BY <4>1 DEF ClearLongEnough
      <3>4. CASE ~(e \in Triggers /\ s = "on") /\ ~Pending(Triggers, "on")
        <4> SUFFICES ASSUME timer # None
                     PROVE  ~TriggersOn' /\ clearFor' = clearFor
          BY <2>11, <3>4 DEF ClearLongEnough
        <4>1. ~TriggersOn
          BY <3>4 DEF ClearLongEnough
        <4>2. clearFor' = clearFor
          BY <2>11, <3>4, <4>1 DEF SetState, TriggersOn, AnyOn
        <4>3. ~TriggersOn'
          BY <2>11, <3>4, <4>1 DEF SetState, TriggersOn, AnyOn, TypeOK, Entities
        <4> QED BY <4>2, <4>3
      <3> QED BY <3>2, <3>3, <3>4
    <2>12. ASSUME UNCHANGED <<st, clearFor, queue, timer>> PROVE ClearLongEnough'
      BY <2>12 DEF ClearLongEnough, Pending, TriggersOn, AnyOn
    <2>13. CASE Tick
      <3>1. CASE timer = None
        BY <2>13, <3>1, <2>2 DEF Tick
      <3>2. CASE timer # None /\ Pending(Triggers, "on")
        <4>1. Pending(Triggers, "on")'
          BY <2>13, <3>2, QueueSteps
        <4> QED BY <4>1 DEF ClearLongEnough
      <3>3. CASE timer # None /\ ~Pending(Triggers, "on")
        <4>1. ~TriggersOn /\ timer + clearFor >= AutoOff
          BY <3>3 DEF ClearLongEnough
        <4>2. timer' = Left(timer) /\ clearFor' = Aged(clearFor) /\ st' = st
          BY <2>13, <3>3, <4>1 DEF Tick
        <4>3. timer' + clearFor' >= AutoOff
          BY <3>3, <4>1, <4>2, AgedLeft DEF TypeOK
        <4>4. ~TriggersOn'
          BY <4>1, <4>2 DEF TriggersOn, AnyOn
        <4> QED BY <4>3, <4>4 DEF ClearLongEnough
      <3> QED BY <3>1, <3>2, <3>3
    <2>14. ASSUME \/ FireWakeup
                  \/ \E k \in {"recover", "enable"} : Kick(k)
                  \/ \E e \in Entities : AttributeUpdate(e)
                  \/ \E e \in Controlled : Lose(e)
                  \/ \E i \in Ids : Rename(i)
                  \/ SunMoves \/ UNCHANGED vars
           PROVE  ClearLongEnough'
      <3>1. UNCHANGED <<st, clearFor, timer>>
        BY <2>14 DEF FireWakeup, Kick, AttributeUpdate, Lose, Rename, SunMoves, vars, env, inst
      <3>2. Pending(Triggers, "on") => Pending(Triggers, "on")'
        BY <2>14, QueueSteps
      <3> QED BY <3>1, <3>2 DEF ClearLongEnough, TriggersOn, AnyOn
    <2>15. ASSUME \/ \E e \in Entities, s \in States : Change(e, s)
                  \/ \E e \in Controlled : Deliver(e)
           PROVE  ClearLongEnough'
      <3>1. timer' = timer
        BY <2>15 DEF Change, Deliver, inst
      <3> QED BY <2>11, <2>12, <2>15, <3>1, StateSteps
    <2>16. CASE ReloadEntry \/ Restart
      BY <2>2, <2>16 DEF ReloadEntry, Restart
    <2> QED
      BY <1>1, <2>4, <2>5, <2>6, <2>7, <2>8, <2>9, <2>10, <2>13, <2>14, <2>15, <2>16
      DEF Next, System, Surroundings, Handle, Disable, Enable, Reload, Recreate
  <1> QED BY <1>1, <1>2, <1>4, TypeCorrect, ConfigOKAlways, EnabledAlways, PTL DEF Spec

(* Where no run is lost and triggers are never suppressed, auto-off comes  *)
(* the whole delay after the last trigger cleared, unless a trigger has    *)
(* come on since and that is still to be handled.                          *)
THEOREM NoOffWhileTriggeredTheorem ==
  NoRunLost /\ NeverSuppressed => (Spec => NoOffWhileTriggered)
  <1> SUFFICES ASSUME NoRunLost, NeverSuppressed PROVE Spec => NoOffWhileTriggered
    OBVIOUS
  <1>1. ASSUME TypeOK, ClearLongEnough, [Next]_vars, NEW e \in Controlled, TurnsOff(e)
        PROVE  clearFor = AutoOff \/ Pending(Triggers, "on")
    <2>1. timer # None /\ timer = 0
      BY <1>1, TurnsOffWhenDue
    <2>2. clearFor \in 0..AutoOff
      BY <1>1 DEF TypeOK
    <2> QED BY <1>1, <2>1, <2>2, ConfigAssumption DEF ClearLongEnough
  <1>2. TypeOK /\ ClearLongEnough /\ [Next]_vars =>
          [\A e \in Controlled :
             TurnsOff(e) => clearFor = AutoOff \/ Pending(Triggers, "on")]_vars
    BY <1>1
  <1> QED BY <1>2, TypeCorrect, ClearLongEnoughAlways, PTL DEF Spec, NoOffWhileTriggered
=============================================================================
