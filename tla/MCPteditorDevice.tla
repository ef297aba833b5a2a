-------------------------- MODULE MCPteditorDevice --------------------------
(* An instance of PteditorDevice for TLC: two threads of one process and a  *)
(* forked child with its own mm.                                            *)
EXTENDS PteditorDevice

CONSTANTS t1, t2, t3, m1, m2

MCTask == {t1, t2, t3}

MCMm == {m1, m2}

MCactive_mm == [t \in MCTask |-> IF t = t3 THEN m2 ELSE m1]

\* GET_ROOT does what VM_RESOLVE does and reads mm_is_locked once more.
MCCommands == AllCommands \ {"VM_RESOLVE"}
=============================================================================
