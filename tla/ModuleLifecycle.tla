--------------------------- MODULE ModuleLifecycle ---------------------------
(***************************************************************************)
(* pteditor_init and pteditor_exit of module/pteditor.c, one action per    *)
(* call that the rest of the kernel can see, beside the programs that open *)
(* the device and /proc/umem.  An open device pins the module (f_ops has   *)
(* an owner), /proc/umem does not.                                         *)
(*                                                                         *)
(* The device is open at most once (PteditorDevice, ExclusiveOpen), so     *)
(* device_busy stands for the open file as well.                           *)
(***************************************************************************)

CONSTANT Kernels   \* the sets of symbols that kernels may offer

KallsymsLookup == "kallsyms_lookup_name"

FlushSymbol == "flush_tlb_mm_range"

UmemSymbols == {"memory_lseek", "read_mem", "write_mem", "mmap_mem"}

ASSUME KernelsAssumption ==
  Kernels \subseteq SUBSET ({KallsymsLookup, FlushSymbol} \cup UmemSymbols)

VARIABLES symbols,         \* the symbols of the running kernel
          mod,             \* where pteditor_init or pteditor_exit is
          misc_dev,        \* the device is registered
          device_busy,     \* static bool device_busy
          invalidate_tlb,  \* the function pointer is set
          probe_devmem,    \* the kretprobe on devmem_is_allowed is registered
          has_umem,        \* static int has_umem
          umem             \* /proc/umem exists

moduleVars == <<symbols, mod, misc_dev, device_busy, invalidate_tlb,
                probe_devmem, has_umem, umem>>

InitSteps == {"kallsyms", "register", "lookup", "probe", "umem"}

ExitSteps == {"deregister", "unprobe", "remove"}

ModuleTypeOK ==
  /\ symbols \in Kernels
  /\ mod \in {"absent", "live"} \cup InitSteps \cup ExitSteps
  /\ <<misc_dev, device_busy, invalidate_tlb>> \in BOOLEAN \X BOOLEAN \X BOOLEAN
  /\ <<probe_devmem, has_umem, umem>> \in BOOLEAN \X BOOLEAN \X BOOLEAN

ModuleInit ==
  /\ symbols \in Kernels
  /\ mod = "absent"
  /\ misc_dev = FALSE /\ device_busy = FALSE /\ invalidate_tlb = FALSE
  /\ probe_devmem = FALSE /\ has_umem = FALSE /\ umem = FALSE

-----------------------------------------------------------------------------
(* pteditor_init                                                           *)

\* insmod: fresh statics.  After an init that left the device behind, nothing
\* that touches it is defined any more.
Insmod ==
  /\ mod = "absent"
  /\ ~misc_dev
  /\ mod' = "kallsyms"
  /\ device_busy' = FALSE /\ invalidate_tlb' = FALSE /\ has_umem' = FALSE
  /\ UNCHANGED <<symbols, misc_dev, probe_devmem, umem>>

InitKallsyms ==
  /\ mod = "kallsyms"
  /\ mod' = IF KallsymsLookup \in symbols THEN "register" ELSE "absent"
  /\ UNCHANGED <<symbols, misc_dev, device_busy, invalidate_tlb, probe_devmem,
                 has_umem, umem>>

\* misc_register, which may fail.
InitRegister(ok) ==
  /\ mod = "register"
  /\ misc_dev' = ok
  /\ mod' = IF ok THEN "lookup" ELSE "absent"
  /\ UNCHANGED <<symbols, device_busy, invalidate_tlb, probe_devmem, has_umem,
                 umem>>

\* Without flush_tlb_mm_range the function returns -ENXIO, and the device stays
\* registered.
InitLookup ==
  /\ mod = "lookup"
  /\ IF FlushSymbol \in symbols
     THEN mod' = "probe" /\ invalidate_tlb' = TRUE
     ELSE mod' = "absent" /\ UNCHANGED invalidate_tlb
  /\ UNCHANGED <<symbols, misc_dev, device_busy, probe_devmem, has_umem, umem>>

\* A failed register_kretprobe is only reported.
InitProbe(ok) ==
  /\ mod = "probe"
  /\ probe_devmem' = ok
  /\ mod' = "umem"
  /\ UNCHANGED <<symbols, misc_dev, device_busy, invalidate_tlb, has_umem, umem>>

\* Mutant of InitUmem: has_umem = 1 is missing.
InitUmemUnnoticed ==
  /\ mod = "umem"
  /\ umem' = (UmemSymbols \subseteq symbols)
  /\ mod' = "live"
  /\ UNCHANGED <<symbols, misc_dev, device_busy, invalidate_tlb, probe_devmem,
                 has_umem>>

\* Without all of the functions of /dev/mem there is no /proc/umem.
InitUmem ==
  /\ mod = "umem"
  /\ umem' = (UmemSymbols \subseteq symbols)
  /\ has_umem' = umem'
  /\ mod' = "live"
  /\ UNCHANGED <<symbols, misc_dev, device_busy, invalidate_tlb, probe_devmem>>

-----------------------------------------------------------------------------
(* pteditor_exit                                                           *)

\* Mutant of Rmmod: f_ops without an owner, the open device does not count.
RmmodUnpinned ==
  /\ mod = "live"
  /\ mod' = "deregister"
  /\ UNCHANGED <<symbols, misc_dev, device_busy, invalidate_tlb, probe_devmem,
                 has_umem, umem>>

\* rmmod is refused while the module is in use.
Rmmod ==
  /\ mod = "live"
  /\ ~device_busy
  /\ mod' = "deregister"
  /\ UNCHANGED <<symbols, misc_dev, device_busy, invalidate_tlb, probe_devmem,
                 has_umem, umem>>

ExitDeregister ==
  /\ mod = "deregister"
  /\ misc_dev' = FALSE
  /\ mod' = "unprobe"
  /\ UNCHANGED <<symbols, device_busy, invalidate_tlb, probe_devmem, has_umem,
                 umem>>

ExitProbe ==
  /\ mod = "unprobe"
  /\ probe_devmem' = FALSE
  /\ mod' = "remove"
  /\ UNCHANGED <<symbols, misc_dev, device_busy, invalidate_tlb, has_umem, umem>>

\* remove_proc_entry: whoever still has /proc/umem open has a dead file.
ExitUmem ==
  /\ mod = "remove"
  /\ umem' = (umem /\ ~has_umem)
  /\ mod' = "absent"
  /\ UNCHANGED <<symbols, misc_dev, device_busy, invalidate_tlb, probe_devmem,
                 has_umem>>

ModuleStep ==
  \/ InitKallsyms \/ InitLookup \/ InitUmem
  \/ \E ok \in BOOLEAN : InitRegister(ok) \/ InitProbe(ok)
  \/ Rmmod \/ ExitDeregister \/ ExitProbe

-----------------------------------------------------------------------------
(* The device, for those who open and close it.                            *)

\* open(2) reaches device_open while the device is registered and the module
\* has not begun to leave; it may be anywhere in pteditor_init.
CanOpen == misc_dev /\ mod \notin ExitSteps \cup {"absent"} /\ ~device_busy

DeviceOpen ==
  /\ CanOpen
  /\ device_busy' = TRUE
  /\ UNCHANGED <<symbols, mod, misc_dev, invalidate_tlb, probe_devmem, has_umem,
                 umem>>

\* Mutant of DeviceClose: every close releases the device.
DeviceCloseEach(last) ==
  /\ device_busy' = FALSE
  /\ UNCHANGED <<symbols, mod, misc_dev, invalidate_tlb, probe_devmem, has_umem,
                 umem>>

\* device_release, unless another descriptor keeps the file open.
DeviceClose(last) ==
  /\ device_busy' = (device_busy /\ ~last)
  /\ UNCHANGED <<symbols, mod, misc_dev, invalidate_tlb, probe_devmem, has_umem,
                 umem>>

-----------------------------------------------------------------------------
(* Properties.                                                             *)

\* While the device is open the code of its handlers is there, and the function
\* that VM_UPDATE and INVALIDATE_TLB call is set; except in pteditor_init
\* between misc_register and the assignment, and except on a kernel without
\* flush_tlb_mm_range, where the module goes and the device stays.
HandlersReady ==
  device_busy /\ FlushSymbol \in symbols =>
    /\ mod \in {"live"} \cup InitSteps
    /\ invalidate_tlb \/ mod = "lookup"

\* A module that is gone, or could not be loaded, has left nothing behind: no
\* device, no probe and no /proc/umem; the one exception is the device on a
\* kernel without flush_tlb_mm_range.
NothingLeftBehind ==
  mod = "absent" =>
    /\ ~probe_devmem /\ ~umem
    /\ misc_dev => FlushSymbol \notin symbols

=============================================================================
