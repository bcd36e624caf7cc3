---------------------- MODULE MCTriggerEntityController ----------------------
(***************************************************************************)
(* Small instances of TriggerEntityController for TLC.  A run names the    *)
(* surroundings it exercises; the sets of entities and the bounds are in   *)
(* its .cfg.                                                               *)
(***************************************************************************)
EXTENDS TriggerEntityController, TLC

\* What a run may meet on its way: hands, entities that go unavailable, calls
\* that get lost, a rename, a restart of HA.
Accidents == {"manual", "attribute", "unavailable", "lose", "rename", "restart"}

\* What auto-off must survive: dusk and dawn, the automation turned off and on,
\* reloaded, recreated; HA restarting.
Nights == {"manual", "sun", "toggle", "reload", "restart"}

\* Controlled entities and entity_ids of the automation are interchangeable: no
\* definition tells them apart.
Interchangeable == Permutations(Controlled) \cup Permutations(Ids)
=============================================================================
