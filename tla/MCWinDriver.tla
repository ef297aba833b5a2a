---------------------------- MODULE MCWinDriver ----------------------------
(***************************************************************************)
(* An instance of WinDriver for TLC: two CPUs, a program that edits its    *)
(* own page tables and those of another.                                   *)
(***************************************************************************)
EXTENDS WinDriver, TLC

\* With and without tags; and one where other page tables cannot be written.
MCMachines ==
  [pcid : BOOLEAN, reachable : {Root}] \cup [pcid : {FALSE}, reachable : {Client}]

CpuSymmetry == Permutations(Cpu)
=============================================================================
