--------------------------- MODULE MCMemoryTypes ----------------------------
(***************************************************************************)
(* Instances of MemoryTypes for TLC: the table of an x86 CPU after a       *)
(* reset, and the types write combining and uncachable to program.         *)
(***************************************************************************)
EXTENDS MemoryTypes, TLC

CONSTANTS t1, c1, c2

UC == {}
WC == {0}
WT == {2}
WB == {1, 2}
UCMINUS == {0, 1, 2}

ResetType(m) ==
  CASE m \ {2} = {} -> WB [] m \ {2} = {0} -> WT
    [] m \ {2} = {1} -> UCMINUS [] m \ {2} = {0, 1} -> UC

MCInitMts == [m \in Mt |-> ResetType(m)]

\* Present, with the page-frame number 2.
MCInitEntry == {0, 13}

\* Places 0 to 3, and 0 to 7.
LowPlaces == {{}, {0}, {1}, {0, 1}}
AllPlaces == Mt

MCType == {WC, UC, UCMINUS}

Symmetric == Permutations({c1, c2})
=============================================================================
