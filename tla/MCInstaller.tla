------------------------------ MODULE MCInstaller ------------------------------
(***************************************************************************)
(* A small instance of Installer for TLC.                                  *)
(***************************************************************************)
EXTENDS Installer

Everything == EnvKinds
==============================================================================
