---------------------------- MODULE WatchdogProofs ----------------------------
(***************************************************************************)
(* Theorems about Watchdog, for every set of entity_ids and findings,      *)
(* every cap and all surroundings: the types, that an unregistered         *)
(* blueprint is quiet, that a finding is on one surface, that a Submit     *)
(* finds what it fixes.                                                    *)
(*                                                                         *)
(* UnloadedIsQuiet and SubmitFixes are not inductive: a run writes through *)
(* the instance object it got before the evaluation.  RunOK says where     *)
(* that object is by then, IssuesOK which issues its payloads answer.      *)
(***************************************************************************)
EXTENDS Watchdog, TLAPS

\* The object of a run is an instance of the table, or has been dropped; only
\* a rename parts it from the id of the run.
RunOK ==
  run # None =>
    /\ run.object # None => entry /\ insts[run.object] # None
    /\ auto.id = First => run.id = First /\ run.object \in {None, First}

\* An issue that is not left behind has its payload, and no run that is under
\* way writes to the instance it belongs to under another name.
IssuesOK ==
  /\ \A x \in issues : ~x.left =>
       insts[x.repair.id] # None /\ x.repair \in insts[x.repair.id].repairs
  /\ auto.id = First => \A x \in issues : x.repair.id = First
  /\ run # None /\ run.object \notin {None, run.id} =>
       \A x \in issues : ~x.left => x.repair.id # run.object

WInv == TypeOK /\ UnloadedIsQuiet /\ RunOK /\ IssuesOK

\* A cap takes nothing but what there is.
LEMMA FirstOfSubset ==
  ASSUME NEW S, NEW n
  PROVE  FirstOf(S, n) \subseteq S
  BY DEF FirstOf

\* What a run publishes is about findings.
LEMMA PublishedTypes ==
  ASSUME NEW i \in Ids, NEW found \in SUBSET Findings, NEW repairs
  PROVE  /\ NotesOf(i, found, repairs) \subseteq Notes
         /\ SummaryOf(i, found, repairs) \subseteq Notes
         /\ RepairsOf(i, found, repairs) \subseteq Repairs
         /\ \A r \in RepairsOf(i, found, repairs) : r.id = i
  <1>1. /\ FirstOf(found \cap Fixable, MaxRepairs) \subseteq Findings
        /\ FirstOf(found \ Fixable, MaxNotes) \subseteq Findings
    BY FirstOfSubset
  <1>2. NotesOf(i, found, repairs) \subseteq Notes
    BY <1>1 DEF NotesOf, Note, Notes
  <1>3. SummaryOf(i, found, repairs) \subseteq Notes
    BY DEF SummaryOf, Note, Notes
  <1>4. RepairsOf(i, found, repairs) \subseteq Repairs
    BY <1>1 DEF RepairsOf, Repairs
  <1>5. \A r \in RepairsOf(i, found, repairs) : r.id = i
    BY DEF RepairsOf
  <1> QED BY <1>2, <1>3, <1>4, <1>5

\* The fields of a run.
LEMMA RunFields ==
  ASSUME TypeOK, run # None
  PROVE  run \in Runs /\ run.id \in Ids /\ run.object \in Ids \cup {None}
           /\ run.found \in SUBSET Findings /\ run.repairs \in BOOLEAN
  BY DEF TypeOK, Runs

\* Issues that are left behind stay issues.
LEMMA LeftBehindTypes ==
  ASSUME TypeOK, NEW S
  PROVE  LeftBehind(S) \subseteq Issues
  <1> SUFFICES ASSUME NEW x \in issues
               PROVE  [repair |-> x.repair, left |-> x.left \/ x.repair.id \in S]
                  \in Issues
    BY DEF LeftBehind
  <1>1. x.repair \in Repairs
    BY DEF TypeOK, Issues
  <1>2. (x.left \/ x.repair.id \in S) \in BOOLEAN
    OBVIOUS
  <1> QED BY <1>1, <1>2 DEF Issues

\* _ensure_timer makes an instance, and keeps the payloads of one there is.
LEMMA EnsureTimerTypes ==
  ASSUME TypeOK, NEW i \in Ids
  PROVE  /\ EnsureTimer(i) \in Instances
         /\ insts[i] # None => EnsureTimer(i).repairs = insts[i].repairs
  <1>1. CASE insts[i] = None
    BY <1>1 DEF EnsureTimer, Instances
  <1>2. CASE insts[i] # None
    <2>1. insts[i] \in Instances
      BY <1>2 DEF TypeOK
    <2> QED BY <1>2, <2>1 DEF EnsureTimer, Instances
  <1> QED BY <1>1, <1>2

\* The automation has an id.
LEMMA IdOfAutomation == TypeOK => auto.id \in Ids
  BY DEF TypeOK, Automations

\* What stays answered among them was so before, and is not of S.
LEMMA LeftBehindMember ==
  ASSUME NEW S, NEW x \in LeftBehind(S)
  PROVE  \E y \in issues : x.repair = y.repair /\ (~x.left => ~y.left /\
     y.repair.id \notin S)
  <1>1. PICK y \in issues : x = [repair |-> y.repair, left |-> y.left \/
     y.repair.id \in S]
    BY DEF LeftBehind
  <1>2. x.repair = y.repair
    BY <1>1
  <1>3. x.left = (y.left \/ y.repair.id \in S)
    BY <1>1
  <1>4. ~x.left => ~y.left /\ y.repair.id \notin S
    BY <1>3, Zenon
  <1> QED BY <1>2, <1>4

\* The types of the next state; Publish writes through the object of the run.
LEMMA TypeStep == WInv /\ [Next]_vars => TypeOK'
  <1> SUFFICES ASSUME WInv, [Next]_vars PROVE TypeOK'
    OBVIOUS
  <1> USE WatchdogAssumption, NoneAssumption
  <1> TypeOK
    BY DEF WInv
  <1>1. ASSUME Call PROVE TypeOK'
    <2>1. insts' \in [Ids -> Instances \cup {None}]
      <3>1. EnsureTimer(run.id) \in Instances
        BY <1>1, RunFields, EnsureTimerTypes DEF Call
      <3> QED BY <1>1, <3>1 DEF Call, TypeOK
    <2>2. run' \in Runs \cup {None}
      <3>1. run \in Runs /\ run.id \in Ids
        BY <1>1, RunFields DEF Call
      <3>2. run' = [at |-> "evaluating", id |-> run.id, object |-> run.id, found
         |-> world,
                    repairs |-> input.repairs]
        BY <1>1, <3>1 DEF Call, Runs
      <3>3. world \subseteq Findings /\ input.repairs \in BOOLEAN
        BY DEF TypeOK, Inputs
      <3> QED BY <3>1, <3>2, <3>3 DEF Runs
    <2>3. notes' \subseteq Notes
      BY <1>1 DEF Call, Note, TypeOK, Notes, Runs
    <2> QED
      BY <1>1, <2>1, <2>2, <2>3 DEF Call, TypeOK, published
  <1>2. ASSUME CallRejected PROVE TypeOK'
    <2>1. run' \in Runs \cup {None}
      BY <1>2 DEF CallRejected, TypeOK, Runs, Automations
    <2>2. notes' \subseteq Notes
      BY <1>2 DEF CallRejected, Note, TypeOK, Notes, Runs
    <2> QED
      BY <1>2, <2>1, <2>2 DEF CallRejected, TypeOK, published
  <1>3. ASSUME CallFails PROVE TypeOK'
    <2>1. run' \in Runs \cup {None}
      BY <1>3 DEF CallFails, TypeOK, Runs, Automations
    <2> QED
      BY <1>3, <2>1 DEF CallFails, TypeOK, published
  <1>4. ASSUME Publish PROVE TypeOK'
    <2>1. insts' \in [Ids -> Instances \cup {None}]
      <3>1. Payloads(run) \in SUBSET Repairs
        BY RunFields, PublishedTypes, <1>4 DEF Publish, Payloads
      <3>2. CASE run.object = None
        BY <1>4, <3>2 DEF Publish, TypeOK
      <3>3. CASE run.object # None
        <4>1. insts' = [insts EXCEPT ![run.object].repairs = Payloads(run)]
          BY <1>4, <3>3 DEF Publish
        <4>2. run.object \in Ids /\ insts[run.object] # None
          BY <1>4, <3>3, RunFields DEF Publish, WInv, RunOK
        <4>3. insts[run.object] \in Instances
          BY <4>2 DEF TypeOK
        <4> HIDE DEF Payloads
        <4> QED BY <4>1, <4>2, <4>3, <3>1 DEF TypeOK, Instances
      <3> QED BY <3>2, <3>3
    <2>2. run' \in Runs \cup {None}
      BY <1>4 DEF Publish, TypeOK, Runs, Automations
    <2>3. notes' \subseteq Notes
      <3>1. /\ NotesOf(run.id, run.found, run.repairs) \subseteq Notes
            /\ SummaryOf(run.id, run.found, run.repairs) \subseteq Notes
        BY <1>4, RunFields, PublishedTypes DEF Publish
      <3> QED BY <1>4, <3>1 DEF Publish, PublishAll, Others, TypeOK
    <2>4. issues' \subseteq Issues
      <3>1. RepairsOf(run.id, run.found, run.repairs) \subseteq Repairs
        BY <1>4, RunFields, PublishedTypes DEF Publish
      <3>2. \A x \in RepairsOf(run.id, run.found, run.repairs) :
              [repair |-> x, left |-> run.object # run.id] \in Issues
        BY <3>1 DEF Issues
      <3> QED BY <1>4, <3>2 DEF Publish, PublishAll, OtherIssues, TypeOK
    <2> QED
      BY <1>4, <2>1, <2>2, <2>3, <2>4 DEF Publish, TypeOK, published
  <1>5. ASSUME NEW i \in Ids, Tick(i) PROVE TypeOK'
    <2>1. run' \in Runs \cup {None}
      BY <1>5 DEF Tick, Trigger, TypeOK, Runs, Automations
    <2> QED
      BY <1>5, <2>1 DEF Tick, TypeOK, published
  <1>6. ASSUME Recover PROVE TypeOK'
    <2>1. kicks' \subseteq {"recover", "enable"}
      BY <1>6 DEF Recover, TypeOK
    <2>2. run' \in Runs \cup {None}
      <3>1. CASE run' = run
        BY <3>1 DEF TypeOK
      <3>2. CASE run' = [at |-> "called", id |-> auto.id, object |-> None, found
         |-> {},
                         repairs |-> FALSE]
        BY <3>2 DEF TypeOK, Runs, Automations
      <3> QED BY <1>6, <3>1, <3>2 DEF Recover, Kicked, Trigger
    <2> QED
      BY <1>6, <2>1, <2>2 DEF Recover, Kicked, TypeOK, published
  <1>7. ASSUME KickEnabled PROVE TypeOK'
    <2>1. kicks' \subseteq {"recover", "enable"}
      BY <1>7 DEF KickEnabled, TypeOK
    <2>2. run' \in Runs \cup {None}
      BY <1>7 DEF KickEnabled, Kicked, Trigger, TypeOK, Runs, Automations
    <2> QED
      BY <1>7, <2>1, <2>2 DEF KickEnabled, Kicked, TypeOK, published
  <1>8. ASSUME Setup PROVE TypeOK'
    <2>1. entry' \in BOOLEAN
      BY <1>8 DEF Setup, TypeOK
    <2>2. tracked' \subseteq Ids
      BY <1>8 DEF Setup, Discovered, TypeOK, Automations
    <2>3. kicks' \subseteq {"recover", "enable"}
      BY <1>8 DEF Setup, TypeOK
    <2> QED
      BY <1>8, <2>1, <2>2, <2>3 DEF Setup, TypeOK, published
  <1>9. ASSUME Started PROVE TypeOK'
    <2>1. ha' \in {"starting", "running"}
      BY <1>9 DEF Started, TypeOK
    <2>2. tracked' \subseteq Ids
      BY <1>9 DEF Started, Discovered, TypeOK, Automations
    <2>3. kicks' \subseteq {"recover", "enable"}
      BY <1>9 DEF Started, TypeOK
    <2> QED
      BY <1>9, <2>1, <2>2, <2>3 DEF Started, TypeOK, published
  <1>10. ASSUME Crash PROVE TypeOK'
    <2>1. run' \in Runs \cup {None}
      BY <1>10 DEF Crash, TypeOK, Runs, Automations
    <2>2. notes' \subseteq Notes
      BY <1>10 DEF Crash, Note, TypeOK, Notes, Runs
    <2>3. trouble' \in 0..MaxTrouble
      BY <1>10 DEF Crash, Interfere, May, calm, TypeOK
    <2> QED
      BY <1>10, <2>1, <2>2, <2>3 DEF Crash, TypeOK, published
  <1>11. ASSUME NEW x \in issues, Submit(x) PROVE TypeOK'
    <2>1. world' \subseteq Findings
      BY <1>11 DEF Submit, TypeOK
    <2>2. notes' \subseteq Notes
      BY <1>11 DEF Submit, TypeOK, Notes, Runs
    <2>3. issues' \subseteq Issues
      BY <1>11 DEF Submit, TypeOK, Issues
    <2>4. trouble' \in 0..MaxTrouble
      BY <1>11 DEF Submit, Interfere, May, calm, TypeOK
    <2> QED
      BY <1>11, <2>1, <2>2, <2>3, <2>4 DEF Submit, TypeOK, published
  <1>12. ASSUME NEW x \in issues, SubmitCrashes(x) PROVE TypeOK'
    <2>1. notes' \subseteq Notes
      <3>1. x.repair.id \in Ids /\ x.repair.of \in Findings
        BY DEF TypeOK, Issues, Repairs
      <3>2. Note(x.repair.id, "fix", x.repair.of) \in Notes
        BY <3>1 DEF Note, Notes
      <3> QED BY <1>12, <3>2 DEF SubmitCrashes, TypeOK
    <2>2. trouble' \in 0..MaxTrouble
      BY <1>12 DEF SubmitCrashes, Interfere, May, calm, TypeOK
    <2> QED
      BY <1>12, <2>1, <2>2 DEF SubmitCrashes, TypeOK, published
  <1>13. ASSUME Unload PROVE TypeOK'
    <2>1. entry' \in BOOLEAN
      BY <1>13 DEF Unload, TypeOK
    <2>2. insts' \in [Ids -> Instances \cup {None}]
      BY <1>13 DEF Unload, Teardown, NoInstances, TypeOK, Instances
    <2>3. tracked' \subseteq Ids
      BY <1>13 DEF Unload, Teardown, TypeOK, Automations
    <2>4. kicks' \subseteq {"recover", "enable"}
      BY <1>13 DEF Unload, Teardown, TypeOK
    <2>5. run' \in Runs \cup {None}
      BY <1>13 DEF Unload, Teardown, TypeOK, Runs, Automations
    <2>6. issues' \subseteq Issues
      BY <1>13, LeftBehindTypes DEF Unload, Teardown
    <2>7. trouble' \in 0..MaxTrouble
      BY <1>13 DEF Unload, Interfere, May, calm, TypeOK
    <2> QED
      BY <1>13, <2>1, <2>2, <2>3, <2>4, <2>5, <2>6, <2>7 DEF Unload, TypeOK,
         published
  <1>14. ASSUME HaRestarts PROVE TypeOK'
    <2>1. ha' \in {"starting", "running"}
      BY <1>14 DEF HaRestarts, TypeOK
    <2>2. entry' \in BOOLEAN
      BY <1>14 DEF HaRestarts, TypeOK
    <2>3. insts' \in [Ids -> Instances \cup {None}]
      BY <1>14 DEF HaRestarts, NoInstances, TypeOK, Instances
    <2>4. tracked' \subseteq Ids
      BY <1>14 DEF HaRestarts, TypeOK, Automations
    <2>5. kicks' \subseteq {"recover", "enable"}
      BY <1>14 DEF HaRestarts, TypeOK
    <2>6. run' \in Runs \cup {None}
      BY <1>14 DEF HaRestarts, TypeOK, Runs, Automations
    <2>7. notes' \subseteq Notes
      BY <1>14 DEF HaRestarts, TypeOK, Notes, Runs
    <2>8. issues' \subseteq Issues
      BY <1>14 DEF HaRestarts, TypeOK, Issues
    <2>9. trouble' \in 0..MaxTrouble
      BY <1>14 DEF HaRestarts, Interfere, May, calm, TypeOK
    <2> QED
      BY <1>14, <2>1, <2>2, <2>3, <2>4, <2>5, <2>6, <2>7, <2>8, <2>9 DEF
         HaRestarts, TypeOK, published
  <1>15. ASSUME Reload PROVE TypeOK'
    <2>1. insts' \in [Ids -> Instances \cup {None}]
      BY <1>15 DEF Reload, ReloadListener, Disarmed, TypeOK, Instances
    <2>2. tracked' \subseteq Ids
      BY <1>15 DEF Reload, ReloadListener, TypeOK, Automations
    <2>3. kicks' \subseteq {"recover", "enable"}
      BY <1>15 DEF Reload, ReloadListener, TypeOK
    <2>4. run' \in Runs \cup {None}
      BY <1>15 DEF Reload, MaybeCut, TypeOK, Runs, Automations
    <2>5. trouble' \in 0..MaxTrouble
      BY <1>15 DEF Reload, Interfere, May, calm, TypeOK
    <2> QED
      BY <1>15, <2>1, <2>2, <2>3, <2>4, <2>5 DEF Reload, TypeOK, published
  <1>16. ASSUME Edit PROVE TypeOK'
    <2>1. auto' \in Automations
      BY <1>16 DEF Edit, TypeOK, Automations
    <2>2. input' \in Inputs
      BY <1>16 DEF Edit, TypeOK
    <2>3. insts' \in [Ids -> Instances \cup {None}]
      BY <1>16 DEF Edit, ReloadListener, Disarmed, TypeOK, Instances
    <2>4. tracked' \subseteq Ids
      BY <1>16 DEF Edit, ReloadListener, TypeOK, Automations
    <2>5. kicks' \subseteq {"recover", "enable"}
      BY <1>16 DEF Edit, ReloadListener, TypeOK
    <2>6. run' \in Runs \cup {None}
      BY <1>16 DEF Edit, TypeOK, Runs, Automations
    <2>7. trouble' \in 0..MaxTrouble
      BY <1>16 DEF Edit, Interfere, May, calm, TypeOK
    <2> QED
      BY <1>16, <2>1, <2>2, <2>3, <2>4, <2>5, <2>6, <2>7 DEF Edit, TypeOK, published
  <1>17. ASSUME Remove PROVE TypeOK'
    <2>1. auto' \in Automations
      BY <1>17 DEF Remove, TypeOK, Automations
    <2>2. insts' \in [Ids -> Instances \cup {None}]
      BY <1>17 DEF Remove, TypeOK, Instances
    <2>3. run' \in Runs \cup {None}
      BY <1>17 DEF Remove, MaybeCut, TypeOK, Runs, Automations
    <2>4. issues' \subseteq Issues
      BY <1>17, LeftBehindTypes DEF Remove
    <2>5. trouble' \in 0..MaxTrouble
      BY <1>17 DEF Remove, Interfere, May, calm, TypeOK
    <2> QED
      BY <1>17, <2>1, <2>2, <2>3, <2>4, <2>5 DEF Remove, TypeOK, published
  <1>18. ASSUME NEW n \in Ids, Rename(n) PROVE TypeOK'
    <2>1. auto' \in Automations
      BY <1>18 DEF Rename, TypeOK, Automations
    <2>2. insts' \in [Ids -> Instances \cup {None}]
      <3>1. CASE insts' = insts
        BY <3>1 DEF TypeOK
      <3>2. CASE insts' = [insts EXCEPT ![auto.id] = None, ![n] = insts[auto.id]]
        <4>1. insts[auto.id] \in Instances \cup {None}
          BY DEF TypeOK, Automations
        <4>2. insts \in [Ids -> Instances \cup {None}]
          BY DEF TypeOK
        <4> QED BY <3>2, <4>1, <4>2
      <3> QED BY <1>18, <3>1, <3>2 DEF Rename
    <2>3. run' \in Runs \cup {None}
      <3>1. CASE run' = None \/ run' = run
        BY <3>1 DEF TypeOK
      <3>2. CASE run # None /\ run' = [run EXCEPT !.object = n]
        BY <3>2, RunFields DEF Runs
      <3> QED BY <1>18, <3>1, <3>2 DEF Rename, MaybeCut
    <2>4. issues' \subseteq Issues
      BY <1>18, LeftBehindTypes DEF Rename
    <2>5. trouble' \in 0..MaxTrouble
      BY <1>18 DEF Rename, Interfere, May, calm, TypeOK
    <2> QED
      BY <1>18, <2>1, <2>2, <2>3, <2>4, <2>5 DEF Rename, TypeOK, published
  <1>19. ASSUME TurnOff PROVE TypeOK'
    <2>1. auto' \in Automations
      BY <1>19 DEF TurnOff, TypeOK, Automations
    <2>2. run' \in Runs \cup {None}
      BY <1>19 DEF TurnOff, MaybeCut, TypeOK, Runs, Automations
    <2>3. trouble' \in 0..MaxTrouble
      BY <1>19 DEF TurnOff, Interfere, May, calm, TypeOK
    <2> QED
      BY <1>19, <2>1, <2>2, <2>3 DEF TurnOff, TypeOK, published
  <1>20. ASSUME TurnOn PROVE TypeOK'
    <2>1. auto' \in Automations
      BY <1>20 DEF TurnOn, TypeOK, Automations
    <2>2. kicks' \subseteq {"recover", "enable"}
      BY <1>20 DEF TurnOn, TypeOK
    <2>3. trouble' \in 0..MaxTrouble
      BY <1>20 DEF TurnOn, Interfere, May, calm, TypeOK
    <2> QED
      BY <1>20, <2>1, <2>2, <2>3 DEF TurnOn, TypeOK, published
  <1>21. ASSUME StartByHand PROVE TypeOK'
    <2>1. run' \in Runs \cup {None}
      BY <1>21 DEF StartByHand, Trigger, TypeOK, Runs, Automations
    <2>2. trouble' \in 0..MaxTrouble
      BY <1>21 DEF StartByHand, Interfere, May, calm, TypeOK
    <2> QED
      BY <1>21, <2>1, <2>2 DEF StartByHand, TypeOK, published
  <1>22. ASSUME NEW f \in Findings, Change(f) PROVE TypeOK'
    <2>1. world' \subseteq Findings
      BY <1>22 DEF Change, TypeOK
    <2>2. trouble' \in 0..MaxTrouble
      BY <1>22 DEF Change, Interfere, May, calm, TypeOK
    <2> QED
      BY <1>22, <2>1, <2>2 DEF Change, TypeOK, published
  <1>23. ASSUME Dismiss PROVE TypeOK'
    <2>1. notes' \subseteq Notes
      BY <1>23 DEF Dismiss, TypeOK, Notes, Runs
    <2>2. issues' \subseteq Issues
      BY <1>23 DEF Dismiss, TypeOK, Issues
    <2>3. trouble' \in 0..MaxTrouble
      BY <1>23 DEF Dismiss, Interfere, May, calm, TypeOK
    <2> QED
      BY <1>23, <2>1, <2>2, <2>3 DEF Dismiss, TypeOK, published
  <1>24. ASSUME CalmDown PROVE TypeOK'
    <2>1. trouble' \in 0..MaxTrouble
      BY <1>24 DEF CalmDown, calm, TypeOK
    <2> QED
      BY <1>24, <2>1 DEF CalmDown, TypeOK, published
  <1>25. ASSUME UNCHANGED vars PROVE TypeOK'
    BY <1>25 DEF vars, published, TypeOK
  <1> QED
    BY <1>1, <1>2, <1>3, <1>4, <1>5, <1>6, <1>7, <1>8, <1>9, <1>10, <1>11, <1>12,
       <1>13, <1>14, <1>15, <1>16, <1>17, <1>18, <1>19, <1>20, <1>21, <1>22, <1>23,
       <1>24, <1>25
    DEF Next, System, Scans, Surroundings
\* A run that is left alone, or stopped, keeps its object.
LEMMA RunKept ==
  ASSUME RunOK, run' \in {run, None}, insts' = insts, entry => entry', auto'.id =
     auto.id
  PROVE  RunOK'
  BY DEF RunOK

\* A new run has no object yet.
LEMMA RunTriggered ==
  ASSUME RunOK, NEW i \in Ids, Trigger(i), insts' = insts, entry' = entry, auto' =
     auto
  PROVE  RunOK'
  BY DEF RunOK, Trigger

\* No step parts a run from its object but a rename, or drops only one of them.
LEMMA RunStep == WInv /\ [Next]_vars => RunOK'
  <1> SUFFICES ASSUME WInv, [Next]_vars PROVE RunOK'
    OBVIOUS
  <1> TypeOK /\ RunOK
    BY DEF WInv
  <1>1. ASSUME Call PROVE RunOK'
    <2>1. run.id \in Ids /\ run' = [run EXCEPT !.at = "evaluating", !.object =
       run.id,
                                       !.found = world, !.repairs = input.repairs]
      BY <1>1, RunFields DEF Call
    <2>2. run'.object = run.id /\ run'.id = run.id
      BY <1>1, <2>1, RunFields DEF Call, Runs
    <2>3. insts'[run.id] # None
      BY <1>1, <2>1, EnsureTimerTypes, NoneAssumption DEF Call, TypeOK
    <2> QED BY <1>1, <2>2, <2>3 DEF Call, RunOK
  <1>2. ASSUME CallRejected PROVE RunOK'
    BY <1>2 DEF CallRejected, RunOK
  <1>3. ASSUME CallFails PROVE RunOK'
    BY <1>3 DEF CallFails, RunOK
  <1>4. ASSUME Publish PROVE RunOK'
    BY <1>4 DEF Publish, RunOK
  <1>5. ASSUME NEW i \in Ids, Tick(i) PROVE RunOK'
    BY <1>5, RunTriggered DEF Tick
  <1>6. ASSUME Recover PROVE RunOK'
    BY <1>6, RunTriggered, RunKept, IdOfAutomation DEF Recover, Kicked
  <1>7. ASSUME KickEnabled PROVE RunOK'
    BY <1>7, RunTriggered, IdOfAutomation DEF KickEnabled, Kicked
  <1>8. ASSUME Setup PROVE RunOK'
    BY <1>8, RunKept DEF Setup
  <1>9. ASSUME Started PROVE RunOK'
    BY <1>9, RunKept DEF Started
  <1>10. ASSUME Crash PROVE RunOK'
    BY <1>10 DEF Crash, RunOK
  <1>11. ASSUME NEW x \in issues, Submit(x) PROVE RunOK'
    BY <1>11, RunKept DEF Submit
  <1>12. ASSUME NEW x \in issues, SubmitCrashes(x) PROVE RunOK'
    BY <1>12, RunKept DEF SubmitCrashes
  <1>13. ASSUME Unload PROVE RunOK'
    <2>1. run # None => run'.object = None /\ run'.id = run.id
      BY <1>13, RunFields DEF Unload, Teardown, Runs
    <2> QED BY <1>13, <2>1 DEF Unload, Teardown, RunOK
  <1>14. ASSUME HaRestarts PROVE RunOK'
    BY <1>14 DEF HaRestarts, RunOK
  <1>15. ASSUME Reload PROVE RunOK'
    <2>1. \A i \in Ids : insts[i] # None => insts'[i] # None
      BY <1>15, NoneAssumption DEF Reload, ReloadListener, Disarmed, TypeOK,
         Instances
    <2>2. run' = run \/ run' = None
      BY <1>15 DEF Reload, MaybeCut
    <2> QED BY <1>15, <2>1, <2>2, RunFields DEF Reload, RunOK
  <1>16. ASSUME Edit PROVE RunOK'
    BY <1>16 DEF Edit, RunOK
  <1>17. ASSUME Remove PROVE RunOK'
    <2>1. CASE run' = None
      BY <2>1 DEF RunOK
    <2>2. CASE run # None /\ run.object # auto.id /\ run' = run
      BY <1>17, <2>2, RunFields DEF Remove, RunOK, TypeOK, Automations
    <2>3. CASE run # None /\ run' = [run EXCEPT !.object = None]
      <3>1. run'.object = None /\ run'.id = run.id
        BY <2>3, RunFields DEF Runs
      <3> QED BY <1>17, <2>3, <3>1 DEF Remove, RunOK, TypeOK, Automations
    <2> QED BY <1>17, <2>1, <2>2, <2>3 DEF Remove, MaybeCut
  <1>18. ASSUME NEW n \in Ids, Rename(n) PROVE RunOK'
    <2>1. CASE run' = None
      BY <2>1 DEF RunOK
    <2>2. auto'.id = n /\ n # First
      BY <1>18 DEF Rename, TypeOK, Automations
    <2>3. CASE run # None /\ run.object # auto.id /\ run' = run
      BY <1>18, <2>2, <2>3 DEF Rename, RunOK
    <2>4. CASE run # None /\ run.object = auto.id /\ run' = [run EXCEPT !.object =
       n]
      <3>1. run'.object = n
        BY <2>4, RunFields DEF Runs
      <3>2. entry /\ insts[auto.id] # None
        BY <1>18, <2>4, NoneAssumption, WatchdogAssumption DEF RunOK, TypeOK,
           Automations
      <3>3. insts'[n] = insts[auto.id]
        BY <1>18, <3>2 DEF Rename, TypeOK, Automations
      <3> QED BY <1>18, <2>2, <3>1, <3>2, <3>3 DEF Rename, RunOK
    <2> QED BY <1>18, <2>1, <2>3, <2>4 DEF Rename, MaybeCut
  <1>19. ASSUME TurnOff PROVE RunOK'
    BY <1>19, RunKept DEF TurnOff, MaybeCut, TypeOK, Automations
  <1>20. ASSUME TurnOn PROVE RunOK'
    BY <1>20, RunKept DEF TurnOn, TypeOK, Automations
  <1>21. ASSUME StartByHand PROVE RunOK'
    BY <1>21, RunTriggered, IdOfAutomation DEF StartByHand
  <1>22. ASSUME NEW f \in Findings, Change(f) PROVE RunOK'
    BY <1>22, RunKept DEF Change
  <1>23. ASSUME Dismiss PROVE RunOK'
    BY <1>23, RunKept DEF Dismiss
  <1>24. ASSUME CalmDown PROVE RunOK'
    BY <1>24, RunKept DEF CalmDown
  <1>25. ASSUME UNCHANGED vars PROVE RunOK'
    BY <1>25 DEF vars, published, RunOK
  <1> QED
    BY <1>1, <1>2, <1>3, <1>4, <1>5, <1>6, <1>7, <1>8, <1>9, <1>10, <1>11, <1>12,
       <1>13, <1>14, <1>15, <1>16, <1>17, <1>18, <1>19, <1>20, <1>21, <1>22, <1>23,
       <1>24, <1>25
    DEF Next, System, Scans, Surroundings

\* No step starts a timer, a kick or a tracker of an unregistered blueprint.
LEMMA QuietStep == WInv /\ [Next]_vars => UnloadedIsQuiet'
  <1> SUFFICES ASSUME WInv, [Next]_vars PROVE UnloadedIsQuiet'
    OBVIOUS
  <1> TypeOK /\ RunOK /\ UnloadedIsQuiet
    BY DEF WInv
  <1>1. ASSUME Call PROVE UnloadedIsQuiet'
    BY <1>1 DEF Call, UnloadedIsQuiet
  <1>2. ASSUME CallRejected PROVE UnloadedIsQuiet'
    BY <1>2 DEF CallRejected, UnloadedIsQuiet
  <1>3. ASSUME CallFails PROVE UnloadedIsQuiet'
    BY <1>3 DEF CallFails, UnloadedIsQuiet
  <1>4. ASSUME Publish PROVE UnloadedIsQuiet'
    BY <1>4 DEF Publish, RunOK, UnloadedIsQuiet
  <1>5. ASSUME NEW i \in Ids, Tick(i) PROVE UnloadedIsQuiet'
    BY <1>5 DEF Tick, UnloadedIsQuiet
  <1>6. ASSUME Recover PROVE UnloadedIsQuiet'
    BY <1>6 DEF Recover, UnloadedIsQuiet
  <1>7. ASSUME KickEnabled PROVE UnloadedIsQuiet'
    BY <1>7 DEF KickEnabled, UnloadedIsQuiet
  <1>8. ASSUME Setup PROVE UnloadedIsQuiet'
    BY <1>8 DEF Setup, UnloadedIsQuiet
  <1>9. ASSUME Started PROVE UnloadedIsQuiet'
    BY <1>9 DEF Started, UnloadedIsQuiet
  <1>10. ASSUME Crash PROVE UnloadedIsQuiet'
    BY <1>10 DEF Crash, UnloadedIsQuiet
  <1>11. ASSUME NEW x \in issues, Submit(x) PROVE UnloadedIsQuiet'
    BY <1>11 DEF Submit, UnloadedIsQuiet
  <1>12. ASSUME NEW x \in issues, SubmitCrashes(x) PROVE UnloadedIsQuiet'
    BY <1>12 DEF SubmitCrashes, UnloadedIsQuiet
  <1>13. ASSUME Unload PROVE UnloadedIsQuiet'
    BY <1>13 DEF Unload, Teardown, UnloadedIsQuiet, NoInstances
  <1>14. ASSUME HaRestarts PROVE UnloadedIsQuiet'
    BY <1>14 DEF HaRestarts, UnloadedIsQuiet, NoInstances
  <1>15. ASSUME Reload PROVE UnloadedIsQuiet'
    BY <1>15 DEF Reload, ReloadListener, UnloadedIsQuiet
  <1>16. ASSUME Edit PROVE UnloadedIsQuiet'
    BY <1>16 DEF Edit, ReloadListener, UnloadedIsQuiet
  <1>17. ASSUME Remove PROVE UnloadedIsQuiet'
    BY <1>17 DEF Remove, UnloadedIsQuiet
  <1>18. ASSUME NEW n \in Ids, Rename(n) PROVE UnloadedIsQuiet'
    BY <1>18 DEF Rename, UnloadedIsQuiet
  <1>19. ASSUME TurnOff PROVE UnloadedIsQuiet'
    BY <1>19 DEF TurnOff, UnloadedIsQuiet
  <1>20. ASSUME TurnOn PROVE UnloadedIsQuiet'
    BY <1>20 DEF TurnOn, UnloadedIsQuiet
  <1>21. ASSUME StartByHand PROVE UnloadedIsQuiet'
    BY <1>21 DEF StartByHand, UnloadedIsQuiet
  <1>22. ASSUME NEW f \in Findings, Change(f) PROVE UnloadedIsQuiet'
    BY <1>22 DEF Change, UnloadedIsQuiet
  <1>23. ASSUME Dismiss PROVE UnloadedIsQuiet'
    BY <1>23 DEF Dismiss, UnloadedIsQuiet
  <1>24. ASSUME CalmDown PROVE UnloadedIsQuiet'
    BY <1>24 DEF CalmDown, UnloadedIsQuiet
  <1>25. ASSUME UNCHANGED vars PROVE UnloadedIsQuiet'
    BY <1>25 DEF vars, published, UnloadedIsQuiet
  <1> QED
    BY <1>1, <1>2, <1>3, <1>4, <1>5, <1>6, <1>7, <1>8, <1>9, <1>10, <1>11, <1>12,
       <1>13, <1>14, <1>15, <1>16, <1>17, <1>18, <1>19, <1>20, <1>21, <1>22, <1>23,
       <1>24, <1>25
    DEF Next, System, Scans, Surroundings

\* Issues that go, and runs that start or end, disturb nothing.
LEMMA IssuesKept ==
  ASSUME IssuesOK, issues' \subseteq issues, insts' = insts, auto'.id = auto.id,
         run' \in {run, None} \/ run'.object = None
  PROVE  IssuesOK'
  BY DEF IssuesOK

\* A reload stops the timers and keeps the payloads.
LEMMA IssuesOutliveReload ==
  ASSUME TypeOK, IssuesOK, issues' = issues, insts' \in {insts, Disarmed},
         auto'.id = auto.id, run' \in {run, None}
  PROVE  IssuesOK'
  <1>1. ASSUME NEW i \in Ids, insts[i] # None
        PROVE  insts'[i] # None /\ insts'[i].repairs = insts[i].repairs
    <2>1. insts[i] \in Instances
      BY <1>1 DEF TypeOK
    <2>2. [insts[i] EXCEPT !.timer = None] \in Instances
      BY <2>1 DEF Instances
    <2>3. [insts[i] EXCEPT !.timer = None].repairs = insts[i].repairs
      BY <2>1 DEF Instances
    <2> QED BY <1>1, <2>2, <2>3, NoneAssumption DEF Disarmed
  <1>2. \A x \in issues : x.repair.id \in Ids
    BY DEF TypeOK, Issues, Repairs
  <1> QED BY <1>1, <1>2 DEF IssuesOK

\* No step takes the payload of an issue without leaving the issue behind.
LEMMA IssuesStep == WInv /\ [Next]_vars => IssuesOK'
  <1> SUFFICES ASSUME WInv, [Next]_vars PROVE IssuesOK'
    OBVIOUS
  <1> TypeOK /\ RunOK /\ IssuesOK
    BY DEF WInv
  <1>1. ASSUME Call PROVE IssuesOK'
    <2>1. run \in Runs /\ run.id \in Ids
      BY <1>1, RunFields DEF Call
    <2>2. run'.object = run.id /\ run'.id = run.id
      BY <1>1, <2>1 DEF Call, Runs
    <2>3. ASSUME NEW x \in issues, ~x.left
          PROVE  insts'[x.repair.id] # None /\ x.repair \in insts'[x.repair.id].repairs
      <3>1. insts[x.repair.id] # None /\ x.repair \in insts[x.repair.id].repairs
        BY <2>3 DEF IssuesOK
      <3>2. x.repair.id \in Ids
        BY DEF TypeOK, Issues, Repairs
      <3>3. CASE x.repair.id # run.id
        BY <1>1, <3>1, <3>2, <3>3 DEF Call, TypeOK
      <3>4. CASE x.repair.id = run.id
        <4>1. insts'[run.id] = EnsureTimer(run.id)
          BY <1>1, <2>1 DEF Call, TypeOK
        <4> QED BY <3>1, <3>4, <4>1, <2>1, EnsureTimerTypes, NoneAssumption
      <3> QED BY <3>3, <3>4
    <2> QED BY <1>1, <2>2, <2>3 DEF Call, IssuesOK
  <1>2. ASSUME CallRejected PROVE IssuesOK'
    BY <1>2, IssuesKept DEF CallRejected
  <1>3. ASSUME CallFails PROVE IssuesOK'
    BY <1>3, IssuesKept DEF CallFails, published
  <1>4. ASSUME Publish PROVE IssuesOK'
    <2>1. /\ run # None /\ run' = None /\ auto' = auto
          /\ run.id \in Ids /\ run.object \in Ids \cup {None}
      BY <1>4, RunFields DEF Publish
    <2>2. \A r \in Payloads(run) : r.id = run.id
      BY <2>1, RunFields, PublishedTypes DEF Payloads
    <2>3. ASSUME NEW x \in issues'
          PROVE  \/ x \in issues /\ x.repair.id # run.id
                 \/ x.repair \in Payloads(run) /\ x.left = (run.object # run.id)
      BY <1>4 DEF Publish, PublishAll, OtherIssues, Payloads
    <2>4. \A x \in issues' : auto.id = First => x.repair.id = First
      BY <2>1, <2>2, <2>3 DEF IssuesOK, RunOK
    <2>5. ASSUME NEW x \in issues', ~x.left
          PROVE  insts'[x.repair.id] # None /\ x.repair \in insts'[x.repair.id].repairs
      <3>1. CASE x \in issues /\ x.repair.id # run.id
        <4>1. /\ insts[x.repair.id] # None /\ x.repair \in insts[x.repair.id].repairs
              /\ run.object \notin {None, run.id} => x.repair.id # run.object
          BY <2>1, <2>5, <3>1 DEF IssuesOK
        <4>2. x.repair.id \in Ids
          BY <3>1 DEF TypeOK, Issues, Repairs
        <4>3. insts'[x.repair.id] = insts[x.repair.id]
          BY <1>4, <3>1, <4>1, <4>2 DEF Publish, TypeOK
        <4> QED BY <4>1, <4>3
      <3>2. CASE x.repair \in Payloads(run) /\ run.object = run.id
        <4>1. insts[run.id] \in Instances
          BY <2>1, <3>2, WatchdogAssumption DEF RunOK, TypeOK
        <4>2. insts' = [insts EXCEPT ![run.id].repairs = Payloads(run)]
          BY <1>4, <2>1, <3>2, WatchdogAssumption DEF Publish
        <4>3. insts'[run.id] = [insts[run.id] EXCEPT !.repairs = Payloads(run)]
          BY <2>1, <4>2 DEF TypeOK
        <4>4. insts'[run.id].repairs = Payloads(run)
          BY <4>1, <4>3 DEF Instances
        <4>5. Payloads(run) \in SUBSET Repairs
          BY <2>1, RunFields, PublishedTypes DEF Payloads
        <4>6. insts'[run.id] \in Instances
          BY <4>1, <4>3, <4>5 DEF Instances
        <4> QED BY <2>2, <3>2, <4>4, <4>6, NoneAssumption
      <3> QED BY <2>3, <2>5, <3>1, <3>2
    <2> QED BY <2>1, <2>4, <2>5 DEF IssuesOK
  <1>5. ASSUME NEW i \in Ids, Tick(i) PROVE IssuesOK'
    BY <1>5, IssuesKept DEF Tick, Trigger, published
  <1>6. ASSUME Recover PROVE IssuesOK'
    BY <1>6, IssuesKept DEF Recover, Kicked, Trigger, published
  <1>7. ASSUME KickEnabled PROVE IssuesOK'
    BY <1>7, IssuesKept DEF KickEnabled, Kicked, Trigger, published
  <1>8. ASSUME Setup PROVE IssuesOK'
    BY <1>8, IssuesKept DEF Setup, published
  <1>9. ASSUME Started PROVE IssuesOK'
    BY <1>9, IssuesKept DEF Started, published
  <1>10. ASSUME Crash PROVE IssuesOK'
    BY <1>10, IssuesKept DEF Crash
  <1>11. ASSUME NEW x \in issues, Submit(x) PROVE IssuesOK'
    BY <1>11, IssuesKept DEF Submit
  <1>12. ASSUME NEW x \in issues, SubmitCrashes(x) PROVE IssuesOK'
    BY <1>12, IssuesKept DEF SubmitCrashes
  <1>13. ASSUME Unload PROVE IssuesOK'
    <2>1. \A x \in issues' : x.left
      <3>1. \A x \in issues : x.repair.id \in Ids
        BY DEF TypeOK, Issues, Repairs
      <3> QED BY <1>13, <3>1, LeftBehindMember DEF Unload, Teardown
    <2>2. \A x \in issues' : \E y \in issues : x.repair = y.repair
      BY <1>13, LeftBehindMember DEF Unload, Teardown
    <2> QED BY <1>13, <2>1, <2>2 DEF Unload, IssuesOK
  <1>14. ASSUME HaRestarts PROVE IssuesOK'
    BY <1>14 DEF HaRestarts, IssuesOK
  <1>15. ASSUME Reload PROVE IssuesOK'
    <2>1. /\ run' \in {run, None} /\ issues' = issues /\ auto' = auto
          /\ insts' \in {insts, Disarmed}
      BY <1>15 DEF Reload, MaybeCut, ReloadListener, published
    <2> QED BY <2>1, IssuesOutliveReload
  <1>16. ASSUME Edit PROVE IssuesOK'
    <2>1. /\ run' \in {run, None} /\ issues' = issues /\ auto'.id = auto.id
          /\ insts' \in {insts, Disarmed}
      BY <1>16 DEF Edit, ReloadListener, published, TypeOK, Automations
    <2> QED BY <2>1, IssuesOutliveReload
  <1>17. ASSUME Remove PROVE IssuesOK'
    <2>1. auto'.id = auto.id
      BY <1>17 DEF Remove, TypeOK, Automations
    <2>2. \/ run' = None
          \/ run # None /\ run' = run
          \/ run # None /\ run'.object = None
      BY <1>17, RunFields DEF Remove, MaybeCut, Runs
    <2>3. ASSUME NEW x \in issues'
          PROVE  \E y \in issues :
                   x.repair = y.repair /\ (~x.left => ~y.left /\ y.repair.id #
                      auto.id)
      BY <1>17, LeftBehindMember DEF Remove
    <2>4. ASSUME NEW k \in Ids, k # auto.id PROVE insts'[k] = insts[k]
      BY <1>17, <2>4 DEF Remove, TypeOK
    <2>5. \A y \in issues : y.repair.id \in Ids
      BY DEF TypeOK, Issues, Repairs
    <2> QED BY <2>1, <2>2, <2>3, <2>4, <2>5 DEF IssuesOK
  <1>18. ASSUME NEW n \in Ids, Rename(n) PROVE IssuesOK'
    <2>1. auto'.id = n /\ n # First /\ auto.id = First
      BY <1>18 DEF Rename, TypeOK, Automations
    <2>2. \A x \in issues' : x.left
      <3>1. \A x \in issues : x.repair.id = First
        BY <2>1 DEF IssuesOK
      <3> QED BY <1>18, <2>1, <3>1, LeftBehindMember DEF Rename
    <2> QED BY <2>1, <2>2 DEF IssuesOK
  <1>19. ASSUME TurnOff PROVE IssuesOK'
    BY <1>19, IssuesKept DEF TurnOff, MaybeCut, TypeOK, Automations, published
  <1>20. ASSUME TurnOn PROVE IssuesOK'
    BY <1>20, IssuesKept DEF TurnOn, TypeOK, Automations, published
  <1>21. ASSUME StartByHand PROVE IssuesOK'
    BY <1>21, IssuesKept DEF StartByHand, Trigger, published
  <1>22. ASSUME NEW f \in Findings, Change(f) PROVE IssuesOK'
    BY <1>22, IssuesKept DEF Change, published
  <1>23. ASSUME Dismiss PROVE IssuesOK'
    BY <1>23, IssuesKept DEF Dismiss
  <1>24. ASSUME CalmDown PROVE IssuesOK'
    BY <1>24, IssuesKept DEF CalmDown, published
  <1>25. ASSUME UNCHANGED vars PROVE IssuesOK'
    BY <1>25 DEF vars, published, IssuesOK
  <1> QED
    BY <1>1, <1>2, <1>3, <1>4, <1>5, <1>6, <1>7, <1>8, <1>9, <1>10, <1>11, <1>12,
       <1>13, <1>14, <1>15, <1>16, <1>17, <1>18, <1>19, <1>20, <1>21, <1>22, <1>23,
       <1>24, <1>25
    DEF Next, System, Scans, Surroundings

\* No step shows a finding on a second surface.
LEMMA SurfaceStep == OneSurface /\ [Next]_vars => OneSurface'
  <1> SUFFICES ASSUME OneSurface, [Next]_vars PROVE OneSurface'
    OBVIOUS
  <1>1. ASSUME Call PROVE OneSurface'
    BY <1>1 DEF Call, Note, OneSurface
  <1>2. ASSUME CallRejected PROVE OneSurface'
    BY <1>2 DEF CallRejected, Note, OneSurface
  <1>3. ASSUME CallFails PROVE OneSurface'
    BY <1>3 DEF CallFails, published, OneSurface
  <1>4. ASSUME Publish PROVE OneSurface'
    <2> SUFFICES ASSUME NEW i \in Ids, NEW f \in Findings, NEW x \in issues',
                        Note(i, "finding", f) \in notes', x.repair = [id |-> i, of
                           |-> f]
                 PROVE  FALSE
      BY DEF OneSurface
    <2>1. x.repair.id = i
      OBVIOUS
    <2>2. \/ x \in issues /\ i # run.id
          \/ run.repairs /\ i = run.id /\ f \in Fixable
      <3>1. FirstOf(run.found \cap Fixable, MaxRepairs) \subseteq Fixable
        BY FirstOfSubset
      <3>2. x \in OtherIssues(run.id) \/ x.repair \in RepairsOf(run.id, run.found, run.repairs)
        BY <1>4 DEF Publish, PublishAll
      <3>3. x.repair \in RepairsOf(run.id, run.found, run.repairs) =>
              run.repairs /\ i = run.id /\ f \in Fixable
        BY <2>1, <3>1 DEF RepairsOf
      <3> QED BY <2>1, <3>2, <3>3 DEF OtherIssues
    <2>3. \/ Note(i, "finding", f) \in notes /\ i # run.id
          \/ ~(run.repairs /\ f \in Fixable) /\ i = run.id
      <3>1. f \in FirstOf(run.found \ Fixable, MaxNotes) => f \notin Fixable
        BY FirstOfSubset
      <3> QED BY <1>4, <3>1 DEF Publish, PublishAll, Others, NotesOf, SummaryOf, Note
    <2> QED BY <2>2, <2>3 DEF OneSurface
  <1>5. ASSUME NEW i \in Ids, Tick(i) PROVE OneSurface'
    BY <1>5 DEF Tick, published, OneSurface
  <1>6. ASSUME Recover PROVE OneSurface'
    BY <1>6 DEF Recover, published, OneSurface
  <1>7. ASSUME KickEnabled PROVE OneSurface'
    BY <1>7 DEF KickEnabled, published, OneSurface
  <1>8. ASSUME Setup PROVE OneSurface'
    BY <1>8 DEF Setup, published, OneSurface
  <1>9. ASSUME Started PROVE OneSurface'
    BY <1>9 DEF Started, published, OneSurface
  <1>10. ASSUME Crash PROVE OneSurface'
    BY <1>10 DEF Crash, Note, OneSurface
  <1>11. ASSUME NEW x \in issues, Submit(x) PROVE OneSurface'
    BY <1>11 DEF Submit, OneSurface
  <1>12. ASSUME NEW x \in issues, SubmitCrashes(x) PROVE OneSurface'
    BY <1>12 DEF SubmitCrashes, Note, OneSurface
  <1>13. ASSUME Unload PROVE OneSurface'
    BY <1>13 DEF Unload, Teardown, LeftBehind, OneSurface
  <1>14. ASSUME HaRestarts PROVE OneSurface'
    BY <1>14 DEF HaRestarts, OneSurface
  <1>15. ASSUME Reload PROVE OneSurface'
    BY <1>15 DEF Reload, published, OneSurface
  <1>16. ASSUME Edit PROVE OneSurface'
    BY <1>16 DEF Edit, published, OneSurface
  <1>17. ASSUME Remove PROVE OneSurface'
    BY <1>17 DEF Remove, LeftBehind, OneSurface
  <1>18. ASSUME NEW n \in Ids, Rename(n) PROVE OneSurface'
    BY <1>18 DEF Rename, LeftBehind, OneSurface
  <1>19. ASSUME TurnOff PROVE OneSurface'
    BY <1>19 DEF TurnOff, published, OneSurface
  <1>20. ASSUME TurnOn PROVE OneSurface'
    BY <1>20 DEF TurnOn, published, OneSurface
  <1>21. ASSUME StartByHand PROVE OneSurface'
    BY <1>21 DEF StartByHand, published, OneSurface
  <1>22. ASSUME NEW f \in Findings, Change(f) PROVE OneSurface'
    BY <1>22 DEF Change, published, OneSurface
  <1>23. ASSUME Dismiss PROVE OneSurface'
    BY <1>23 DEF Dismiss, OneSurface
  <1>24. ASSUME CalmDown PROVE OneSurface'
    BY <1>24 DEF CalmDown, published, OneSurface
  <1>25. ASSUME UNCHANGED vars PROVE OneSurface'
    BY <1>25 DEF vars, published, OneSurface
  <1> QED
    BY <1>1, <1>2, <1>3, <1>4, <1>5, <1>6, <1>7, <1>8, <1>9, <1>10, <1>11, <1>12,
       <1>13, <1>14, <1>15, <1>16, <1>17, <1>18, <1>19, <1>20, <1>21, <1>22, <1>23,
       <1>24, <1>25
    DEF Next, System, Scans, Surroundings

\* The inductive invariant.
LEMMA WatchdogInductive == Spec => []WInv
  <1>1. Init => WInv
    <2> SUFFICES ASSUME Init PROVE WInv
      OBVIOUS
    <2>1. TypeOK
      <3>1. auto \in Automations
        BY WatchdogAssumption DEF Init, First, Automations
      <3>2. input \in Inputs
        BY DEF Init, Inputs
      <3>3. insts \in [Ids -> Instances \cup {None}]
        BY DEF Init, NoInstances
      <3>4. trouble \in 0..MaxTrouble
        BY WatchdogAssumption DEF Init
      <3> QED BY <3>1, <3>2, <3>3, <3>4 DEF Init, TypeOK
    <2>2. UnloadedIsQuiet /\ RunOK /\ IssuesOK
      BY DEF Init, UnloadedIsQuiet, RunOK, IssuesOK
    <2> QED BY <2>1, <2>2 DEF WInv
  <1>2. WInv /\ [Next]_vars => WInv'
    BY TypeStep, QuietStep, RunStep, IssuesStep DEF WInv
  <1> QED BY <1>1, <1>2, PTL DEF Spec

(* The types of every state a watchdog reaches.                            *)
THEOREM TypeCorrect == Spec => []TypeOK
  <1>1. WInv => TypeOK
    BY DEF WInv
  <1> QED BY <1>1, WatchdogInductive, PTL

(* Nothing is left of an unregistered blueprint, whatever run outlives it  *)
(* (unregister_blueprint_handler and on_teardown).                         *)
THEOREM UnloadedStaysQuiet == Spec => []UnloadedIsQuiet
  <1>1. WInv => UnloadedIsQuiet
    BY DEF WInv
  <1> QED BY <1>1, WatchdogInductive, PTL

(* "a fixable finding is emitted on exactly one surface -- never both"     *)
(* (AUTOMATIONS.md:557; process_repairs_with_sweep).                       *)
THEOREM SurfacesApart == Spec => []OneSurface
  <1>1. Init => OneSurface
    BY DEF Init, OneSurface
  <1> QED BY <1>1, SurfaceStep, PTL DEF Spec

(* Every issue on display, its instance neither dropped nor renamed since, *)
(* has a payload _lookup_repair finds.                                     *)
THEOREM SubmitFindsPayload == Spec => []SubmitFixes
  <1>1. WInv => SubmitFixes
    <2> SUFFICES ASSUME WInv, NEW x \in issues, ~x.left PROVE Found(x.repair)
      BY DEF SubmitFixes
    <2>1. x.repair.id \in Ids
      BY DEF WInv, TypeOK, Issues, Repairs
    <2> QED BY <2>1 DEF WInv, IssuesOK, Found
  <1> QED BY <1>1, WatchdogInductive, PTL
==============================================================================
