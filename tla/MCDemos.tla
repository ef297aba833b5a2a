------------------------------ MODULE MCDemos ------------------------------
(***************************************************************************)
(* An instance of Demos for TLC.                                           *)
(***************************************************************************)
EXTENDS Demos
=============================================================================
