------------------------------- MODULE Samples -------------------------------
(***************************************************************************)
(* Laws of pure functions are checked over sample inputs: every state of   *)
(* the specification is one sample, and nothing ever happens to it.        *)
(***************************************************************************)
VARIABLE sample  \* [of, input]

Next == UNCHANGED sample
==============================================================================
