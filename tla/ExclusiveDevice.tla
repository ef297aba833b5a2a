-------------------------- MODULE ExclusiveDevice ---------------------------
(***************************************************************************)
(* What /dev/pteditor promises to its users ("Initializes (and acquires)   *)
(* PTEditor kernel module"): one open file has the device at a time, and a *)
(* new one gets it only after the release of the last.                     *)
(***************************************************************************)
CONSTANTS File,    \* identities of open file descriptions
          NoFile   \* the device is free

VARIABLE owner     \* the file that has the device

Init == owner = NoFile

Acquire(f) ==
  /\ owner = NoFile
  /\ owner' = f

Release ==
  /\ owner # NoFile
  /\ owner' = NoFile

Next == (\E f \in File : Acquire(f)) \/ Release

Spec == Init /\ [][Next]_owner
=============================================================================
