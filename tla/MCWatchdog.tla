------------------------------ MODULE MCWatchdog ------------------------------
(***************************************************************************)
(* A small instance of Watchdog for TLC: two findings with a fix service,  *)
(* one more than their cap shows, and one without.                         *)
(***************************************************************************)
EXTENDS Watchdog

ThreeFindings == {1, 2, 3}
TwoFixable    == {1, 3}
Life          == EnvKinds
==============================================================================
