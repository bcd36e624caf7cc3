---------------------------- MODULE MCEntityDefaults ----------------------------
(***************************************************************************)
(* Small instances of EntityDefaults for TLC.                              *)
(***************************************************************************)
EXTENDS EntityDefaults

CONSTANTS lamp, spot, helper, morning, evening, a, b

TwoOfADevice == <<lamp, spot>>
HelperAndScripts == <<helper, morning, evening>>
DevicesOrScripts == {{lamp, spot, helper}, {morning, evening}}

AllChecks == {"device-entity-id", "device-entity-name", "entity-id",
              "visible-aliased-entity", "script-yaml-key"}

\* What a name says makes no difference; the order of the entities does.
AnyName == Permutations({a, b})
==============================================================================
