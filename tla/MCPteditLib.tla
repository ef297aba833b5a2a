----------------------------- MODULE MCPteditLib -----------------------------
(***************************************************************************)
(* An instance of PteditLib for TLC: two processes, on kernels that have   *)
(* everything, or lack one thing that pteditor_init looks for.             *)
(***************************************************************************)
EXTENDS PteditLib, TLC

AllSymbols == {KallsymsLookup, FlushSymbol} \cup UmemSymbols

MCKernels ==
  {AllSymbols} \cup {AllSymbols \ {s} : s \in {KallsymsLookup, FlushSymbol, "read_mem"}}

ProcSymmetry == Permutations(Proc)
=============================================================================
