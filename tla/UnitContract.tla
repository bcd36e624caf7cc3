----------------------------- MODULE UnitContract -----------------------------
(***************************************************************************)
(* What a controller of a set of entities promises, whatever it keeps and  *)
(* however it is told: who is in charge of the set at any time, and which  *)
(* calls that allows.  Nobody is, or the sensor is (spike to release), or  *)
(* a person is, until a countdown that always starts at its full length    *)
(* ends.                                                                   *)
(***************************************************************************)
EXTENDS Naturals, Sequences

CONSTANTS
  Units,     \* the controlled entities
  Shortest,  \* the countdown starts between these lengths
  Longest,
  None

VARIABLES
  owner,  \* who is in charge
  left,   \* of a person: the time left
  calls   \* per entity: calls in flight

vars == <<owner, left, calls>>

Owners == {"nobody", "sensor", "person"}

Init ==
  /\ owner = "nobody"
  /\ left = None
  /\ calls = [e \in Units |-> <<>>]

\* One call to each entity of S.
Sent(S, to) ==
  calls' = [e \in Units |-> IF e \in S THEN Append(calls[e], to) ELSE calls[e]]

\* A spike, or a manual off that the sensor overrides: the whole set is called.
SensorInCharge ==
  /\ owner' = "sensor"
  /\ left' = None
  /\ Sent({}, "on") \/ Sent(Units, "on")

\* Release, and the end of the countdown, may turn off; nobody is in charge.
LetGo ==
  /\ owner = "sensor" \/ (owner = "person" /\ left = 0)
  /\ owner' = "nobody"
  /\ left' = None
  /\ \E S \in SUBSET Units : Sent(S, "off")

\* A person switches the set on: not against the sensor, and for the whole time.
PersonInCharge ==
  /\ owner # "sensor"
  /\ owner' = "person"
  /\ left' \in Shortest..Longest
  /\ calls' = calls

\* The set is off, or everything is forgotten (a restart): calls may be lost.
NobodyInCharge ==
  /\ owner' = "nobody"
  /\ left' = None
  /\ calls' = calls \/ calls' = [e \in Units |-> <<>>]

Wait ==
  /\ left # None
  /\ left' = IF left = 0 THEN 0 ELSE left - 1
  /\ UNCHANGED <<owner, calls>>

Land(e) ==
  /\ calls[e] # <<>>
  /\ calls' = [calls EXCEPT ![e] = Tail(@)]
  /\ UNCHANGED <<owner, left>>

Next ==
  \/ SensorInCharge
  \/ LetGo
  \/ PersonInCharge
  \/ NobodyInCharge
  \/ Wait
  \/ \E e \in Units : Land(e)

Spec == Init /\ [][Next]_vars
=============================================================================
