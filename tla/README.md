# A TLA+ model of PTEditor

PTEditor lets a program read and change page-table entries: a kernel module
(`module/pteditor.c`) offers the page tables of a process through the ioctls of
a character device, a library (`ptedit.c`, `ptedit.h`) wraps them and also
brings implementations of its own that walk the tables from user space; on
Windows a driver (`driver/PTEdit/Driver.c`) takes the place of the module. This
directory models them, and the example and demos that use them, with TLA+,
checks the models with TLC on small instances and proves their invariants with
TLAPS for all instances. Paths are relative to `src/`.

## Inventory

| Part | State | Operations | What is hard | What makes it correct |
|---|---|---|---|---|
| Device file (`pteditor.c:142-158`) | `device_busy` | `device_open`, `device_release` | test and set in two steps, descriptors shared by fork | one open file at a time, free again after the last close |
| ioctl locking (`pteditor.c:434-555`) | `mm_is_locked`, the mmap lock of every mm | `VM_RESOLVE`, `VM_UPDATE`, `GET_ROOT`, `SET_ROOT`, `VM_LOCK`, `VM_UNLOCK` | `unlocked_ioctl`: threads and children are in the handlers at once; a global flag is read before and after the lock | locks balanced, updates alone on their mm, every call returns |
| `resolve_vm`, `vm_to_user`, `update_vm` (`pteditor.c:245-431`) | page tables in memory | `VM_RESOLVE`, `VM_UPDATE` | munmap frees tables, faults create them, exec replaces the mm, or a borrowed one changes, between three lookups of the pid, pointers used after the unlock | writes hit live tables, updates are applied, what is valid is there |
| TLB invalidation (`pteditor.c:160-206`, `558-605`) | `invalidate_tlb`, the TLBs | the flush of an update, `INVALIDATE_TLB`, `INVALIDATE_TLB_PID`, `SWITCH_TLB_INVALIDATION` | CPUs refill at any moment; per-architecture code | no CPU keeps a replaced mapping |
| PAT and MAIR (`pteditor.c:208-223`, `572-592`) | one register per CPU | `GET_PAT`, `SET_PAT` | read on one CPU, written on all, one after the other | all CPUs agree |
| Entry helpers (`ptedit.c:306-325`, `825-936`) | none; they edit a copy | `ptedit_pte_set_bit` and relatives, `ptedit_set_pfn`, `ptedit_apply_mt`, ... | read, modify, write across two ioctls; masks and bit fields of different widths | fields do not disturb each other; atomic for one thread |
| Memory types (`ptedit.c:687-868`) | none; they use the registers | `ptedit_set_mt`, `ptedit_find_mt`, `ptedit_find_first_mt`, `ptedit_apply_mt` | shifts of an `int`, the -1 of a failed search | the place has the type, the page names the place |
| User-space implementations (`ptedit.c:69-292`) | cached `ptedit_paging_root` | `ptedit_resolve_user*`, `ptedit_update_user*` | no lock at all, one memory access at a time, each of which may fail unnoticed; frame numbers of 28 bits | a resolve reports a mapping that existed, an update is applied and flushed |
| Init, cleanup, choice of implementation (`ptedit.c:427-549`) | descriptors, function pointers, the cached root, the mapping of physical memory | `ptedit_init`, `ptedit_cleanup`, `ptedit_use_implementation`, `ptedit_set_paging_root` | repeated and failing calls, fork, other files of the program | descriptors are the library's own, none is lost, the root is the caller's |
| Module init and exit (`pteditor.c:614-763`) | registered device, probe, `/proc/umem` | `pteditor_init`, `pteditor_exit` | failure after a part has been set up, programs that hold the files | handlers are ready while the device is open, nothing is left behind |
| Windows driver (`driver/PTEdit/Driver.c`) | device and its name; page tables, CR3, TLBs and PATs of the machine | `DriverEntry`, `Unload`, the control codes | a sequence of calls instead of one, with two lookups of the root, a scheduler between them, a flush that names no process | updates applied and flushed, everybody on their own tables |
| Example and demos (`example.c`, `demos/*.c`) | entries and frame numbers that they hold | sequences of library calls | the kernel moves pages, CPUs cache entries, parent and child race, calls fail untested | their tests succeed, edits are undone on every path |

The library calls the module through one descriptor; the module and the kernel
share the page tables and the mmap lock; the hardware reads the page tables on
its own. `PROJECT.json` lists every part with its status, and under `hazards`
what can go wrong at which line.

## Modules

| Module | Models | Extends or uses |
|---|---|---|
| `PteditorDevice` | the device file and the locks of the ioctl handlers | |
| `ExclusiveDevice` | abstract: one owner at a time | refined by `PteditorDevice` |
| `PageTables` | tables as memory, `resolve_vm`, the walk of the hardware | |
| `VmEdit` | `VM_RESOLVE`, `VM_UPDATE`, the TLB ioctls, beside kernel and CPUs | `PageTables` |
| `Walks` | what `performance.c`, `virt2phys.c` and `memmap.c` compute from page tables | `PageTables` |
| `UserEdit` | the user-space walk and update | `Walks` |
| `PteWord` | entries as 64-bit words and the functions that take them apart | |
| `EntryEdit` | the read-modify-write functions on one entry | `PteWord` |
| `AtomicEntry` | abstract: atomic edits of an entry | refined by `EntryEdit` |
| `MemoryTypes` | the registers and the memory-type functions | `PteWord` |
| `ModuleLifecycle` | `pteditor_init`, `pteditor_exit` | |
| `PteditLib` | processes that use the library, beside the module coming and going | `ModuleLifecycle` |
| `Demos` | the example and the demos that edit page tables | |
| `WinDriver` | the Windows driver under `ptedit_update` | |
| `*Proofs` | theorems about the module of that name (those about `PteWord` are in `EntryEditProofs`) | the module, `TLAPS` |
| `MC*` | the instances for TLC | the module |

Definitions whose comment says *Mutant* are wrong versions of the definition
after them, each a mistake that one could make in that code; replacing the
definition by its mutant must violate the property it is listed with in
`PROJECT.json`. A comment *external* marks what is modelled from the way the
code uses it: the mmap lock, the misc core, munmap, page faults, exec, TLBs.

### PteditorDevice

A task is in user space, in `open(2)` between the two statements of
`device_open`, or in a handler: before its lock, in the section under the lock,
before its unlock. `IoctlEnter` is the lookup of the mm and the first read of
`mm_is_locked`, `IoctlLookup` the second lookup of `VM_UPDATE` (in
`resolve_vm`, `module/pteditor.c:364` and `256`), which may find another mm or
none: `mm` is the one that is locked, `works` the one whose tables are worked
on. `IoctlWork` is the work and, in `GET_ROOT` and `SET_ROOT`, the second read of
`mm_is_locked`. `VM_LOCK` and `VM_UNLOCK` go through their three statements one by
one (`VmStep`). A handler that returns early because there is no mm changes
nothing and is therefore no step.

### PageTables and VmEdit

An entry is zero, not present, a pointer to a table or a leaf. `Slots` is the
chain `pgd_offset` ... `pte_offset_map`; `resolve_vm` is the function from the
levels that the code reports as valid to their places, `Translate` what the
hardware does with the same memory. `VmEdit` has one action per step of a
handler: lookup, lock, walk, one write (or one copy) per level in the order of
the code, the flush on each CPU, unlock. The pid is looked up three times, for the lock, the
walk and the flush, and nothing holds a reference in between. `get_mm` falls back
to `active_mm` as the code does: a process execs (`Exec`), exits and leaves its mm
behind as its `active_mm` (`Exit`), or is scheduled after another one whose mm it
borrows from then on (`Borrow`). The mm that an exec creates may be one that a
handler still points to, or believes to have locked. An mm that nobody has keeps
its tables as they are.

`exposed` is a history variable: for each CPU, the pages that became stale there
without a flush of them being on its way. There are three ways, and `TlbCoherent`
exempts nothing else: the mapping was changed by an update of another page below
the same upper-level entry (the code flushes only the page of the call); the
process that was named does not own the tables that were edited (`Flushed`),
because it lives on borrowed ones; or it left its tables, which others use on,
between the write and the flush (`LostFlushes`). A page leaves `exposed` when that CPU
drops or reloads it. On x86
`SWITCH_TLB_INVALIDATION` to the custom function is ignored, as in the code.

`mm_is_locked` does not appear: `PteditorDevice` proves that it is never set.

### UserEdit

`Deref` reads one entry, `UpdateWrite` writes one, from the PTE upwards as
`ptedit_update_user_ext` does. A read may fail, and is zero then (`ptedit.c:87`);
a write may fail, and the update goes on (`UpdateLost`, `ptedit.c:100`). The frame
of the next table is what the 28 bits of `ptedit_cast(...).pfn` keep of it: the
constant `cast` maps a frame above 1 TB to another one, where the walk goes on and
the update writes. `seen` is a history variable: all mappings that
the address had while the walk was under way; `unread`, `unwritten` and `stray`
remember a failed read, the levels whose write failed, and that an update has
written to a frame that is no table of the address. The second flush, made by the
wrappers, is part of `Return`. Nothing is unmapped during a call: the library
takes no lock, so nothing could hold then.

### PteWord, EntryEdit, MemoryTypes

A 64-bit word is the set of its bits; `|`, `& ~` and shifts are set operations,
and widths (40, 36 and 28 bits) are explicit, so nothing is lost to TLC's
integers. An edit is `Resolve` (the walk of `VM_RESOLVE` under the lock), `Copy`
(`vm_to_user`, after the unlock) and `Update` (write the edited copy back if the
update finds an entry). In between CPUs set accessed bits, and the kernel fills
the entry (`Map`), clears it and leaves its table (`Clear`), or frees the table
(`FreeTable`), whose page then holds anything (`Stray`). Neither handler asks
whether a PTE is empty, so that a late update brings a mapping back that was
unmapped. `given` is what the kernel wrote last, `mark` and `marks` say of the
entry and of the copies whether they descend from that write, from an earlier
one, or from a freed page. In `MemoryTypes` the clearing shift of
`ptedit_set_mt` is a choice between the outcomes that its undefined cases can
have. `want` and `asked` are history variables: the table and the type that the
finished calls asked for.

### ModuleLifecycle and PteditLib

`pteditor_init` is a sequence of actions, one per call that others can see,
each with its failure; the symbols that a kernel offers are part of the initial
state. An open device pins the module (`f_ops` has an owner), `/proc/umem` does
not. `PteditLib` composes this with processes: each has a table of descriptors,
filled from the lowest number as `open` does, and the statics of the library.
`ptedit_init` and `ptedit_cleanup` are two actions each, so that a process can
be killed, and the module removed, in between. Page tables are named by the
process they belong to. `ghost` remembers what excuses an exception: that
`ptedit_init` was repeated (`leaked`), that one has failed and left an old number
(`revived`), that the `ptedit_cleanup` under way has no `ptedit_init` before it
(`unpaired`: it may be called at any time), that the page tables were exchanged
(`rerooted`). `ptedit_vmem` is `NULL`, a map, or the `MAP_FAILED` that the library
keeps without a look at it.

### WinDriver

The control codes are one action each; `ptedit_update` is the sequence of
control codes that the library sends: the root (`UpdateRoot`), the walk, the root
once more (`UpdateAgain`, `ptedit.c:239`), the write, two flushes. Attaching to
another process and detaching again is one step of its handler and reloads CR3 of
that CPU (`Attach`). `WRITE_PAGE` overwrites any page that the driver can reach,
without a flush. Page tables have one level here. A CPU
has a root, a tag (a PCID, if the machine has them) and a TLB per tag; the
scheduler moves processes over the CPUs at any time. `missed` remembers which
cached pages a flush could not reach, because the CPU used another tag, and which
ones a `WRITE_PAGE` or a killed process has left; `chosen` the roots that a
process has set for itself. References on processes are not counted.

### Demos and Walks

A program is a sequence of calls, written down as in its source; the actions
give each call its meaning on entries, frames and the TLB. Jumps to the label
`error` are the labels of `find_mt`, `mmap_huge` and `resolve_or` (`FindMt`,
`GoesToLabel`). Calls that fail untested are actions of their own: `PmapFails`
(the program is killed at its next statement), `ReadPhysicalPageFails`,
`WritePhysicalPageFails`, and `NoEntry`, when `nx` asks for the entry of its child
before the child has touched the page (`ChildAccess`). A test of a program that
fails is recorded in `failed`, and a page that is given back in `zapped` with
the entry it had. Calls are atomic here, because their steps are in `VmEdit` and
`EntryEdit`. `Walks` is evaluated in every state of `UserEdit` by `WalksAgree`.

## Runs

| Run | Instance | Checks |
|---|---|---|
| `device` | 3 threads of two processes, 2 files, every kind of command (`VM_RESOLVE` takes the path of `GET_ROOT`) | `TypeOK`, `ExclusiveOpen`, `LocksBalanced`, `UpdateExclusive`, `LockedModeUnreachable`, `ImplementsExclusiveDevice`, `CallsReturn`, `DeviceFreed` |
| `vm_update` | 2 threads, 2 neighbouring pages, updates of one and of two levels, munmap, faults | `TypeOK`, `TlbCoherent`, `WritesHitTables`, `UpdateApplied` |
| `vm_processes` | x86, a thread and another process that shares its mm at first, execs, exits and borrows; 3 mms; all ioctls of `VmEdit` | `TlbCoherent`, `ValidIsNonzero` |
| `user_edit` | one editing and one resolving thread, 2 pages, one of whose page tables may lie above 1 TB, faults, failing reads and writes | `TypeOK`, `ResolveIsMapping`, `UserTlbCoherent`, `UserUpdateApplied`, `WalksAgree` |
| `entry_edit` | 2 threads, five calls at the ends of every field, 2 mappings, a kernel that maps, clears and frees | `TypeOK`, `FieldsWhole`, `ForeignBitsKept` |
| `memory_types` | 1 thread, 2 CPUs, places 0 to 3, 3 types | `TypeOK`, `MtsProgrammed`, `PageHasType` |
| `library` | 2 processes, 3 descriptors each, 9 calls, kernels that have all symbols or lack one | `TypeOK`, `HandlersReady`, `NothingLeftBehind`, `OwnDescriptors`, `ClosesOwnFiles`, `NoDescriptorLeak`, `BusyMeansOpen`, `ResolvesOwnTables` |
| `demos` | all six programs, 4 frames, one interference of the kernel | `SelfChecksPass`, `EditsUndone` |
| `windows` | 2 CPUs, a client and another process, 4 calls, with and without tags, and a machine where only the client's tables can be written | `TypeOK`, `WinTlbCoherent`, `WinUpdateApplied`, `RunsOnOwnTables` |

What the less obvious ones show:

* `LockedModeUnreachable`, `CallsReturn`: `VM_LOCK` takes the mmap lock for
  writing and then waits for it for reading (`module/pteditor.c:462-463`). It
  never returns, `mm_is_locked` is never set, and whoever then needs the lock of
  the same mm waits too (`Hung`); everything else returns.
* `HandlersReady`, `NothingLeftBehind`: a device that is open has its code, and
  a module that is gone has left nothing; with two exceptions that the
  properties name. Between `misc_register` and the assignment of
  `invalidate_tlb` the device can be opened; and on a kernel without
  `flush_tlb_mm_range` the device stays registered after the failure
  (`module/pteditor.c:699-703`).
* `UpdateExclusive`: a `VM_UPDATE` works alone on the mm that it has locked,
  unless another `VM_UPDATE` strays into it: its second lookup has found this mm
  instead of the one it has locked, which an exec or a borrowed mm makes
  possible.
* `FieldsWhole`, `ForeignBitsKept`: a late update writes what the page was before
  it was unmapped or remapped, but one such word as a whole, never parts of two.
  Only a copy taken from a freed table is arbitrary.
* `ResolveIsMapping`, `UserUpdateApplied`, `WalksAgree`: right in spite of every
  interleaving; wrong, as they say, after a failed read or write, of which the
  caller learns nothing, and through tables above 1 TB.
* `ClosesOwnFiles`: `ptedit_cleanup` closes only files of the library, with two
  exceptions: after init, cleanup and an init that fails (`ptedit.c:430`), when
  `ptedit_umem` still has its old number; and without an init before it, a
  second time (the old numbers again) or as the first call (descriptor 0).
* `WinTlbCoherent`: the flush names no process. Without tags that is enough,
  because switching a process in empties the TLB; with tags the pages in
  `missed` stay.
* `WinUpdateApplied`: the root is asked for twice. Only the entry of the PGD is
  written under the second one, which is another when the caller names itself by
  its pid, runs on a root of its choice and is rescheduled in between.
* `RunsOnOwnTables`: a process runs on its own tables, or on a root that it has
  set for itself, and that only until CR3 is next written. `SET_CR3` for another
  process therefore sets nobody's root: what `ptedit.h:615-617` offers for any
  pid, the driver does for the caller at most.
* `SelfChecksPass`, `EditsUndone`: the programs hold frame numbers, so a page
  that the kernel moves meanwhile is their main weakness; for `map_pt.c`, which
  compares a whole entry, an accessed bit as well. The other excuses are accesses
  of `/proc/umem` that fail, a child of `nx` that is slower than `sleep(1)`, and a
  failed `ptedit_pmap`, which kills `example.c` while `address` is on the frame of
  `target` (`example.c:93`). Without a write-back place `uncachable.c` leaves its
  page uncachable.

Three runs show where the code and what is said of it disagree:

* `vm_resolve_race`: `vm_to_user` reads the entries after the unlock
  (`module/pteditor.c:442-443`); after a munmap the PMD is reported as valid
  and zero, which `test/tests.c:113` rules out.
* `vm_aarch64_pid`: on aarch64 an update of another process flushes the caller's
  TLB entries (`module/pteditor.c:196-204`), against `ptedit.h:234` and `643`.
* `memory_types_high`: `ptedit_set_mt` does not clear the old type of the places
  4 to 7 (`ptedit.c:773`), although `ptedit.h:706` allows them.

### Bounds

* Two tasks are enough for every pair of handlers to overlap; the third of
  `device` makes readers overlap for ever around a waiting writer. That locks
  of different mms do not interfere is part of the proofs.
* `vm_update` has two CPUs, so that one may be flushed and fill its TLB again
  while the other waits for its turn; `vm_processes` has one. It has three mms, so
  that one can be left, and come back recycled while a handler points to it; page
  faults are left to `vm_update` and to the proofs. Fills happen before,
  between and after every step of an update. The violation runs have two.
* Two pages: neighbours in one page table (an update of the PMD changes both),
  or in different page tables, one missing, so that faults create one.
* `EntryEdit` uses the first and the last bits of the fields, where masks go
  wrong; the proofs cover all words.
* `MaxFd` = 2: a program has room for both files of the library and one of its
  own, and for running out. `MaxCalls` = 9 in `library` counts the calls of all
  programs and the loading of the module: enough for insmod, start, init,
  cleanup, a file of the program, a failed init and a cleanup, with a fork or
  a second program in between, which is the longest sequence that the
  properties speak of. Steps inside calls, exits and the removal of the module
  are not counted.
* `MaxCalls` = 4 in `windows`: loading the driver, opening it and two calls, as
  two updates, or a change of the root and an update. `MaxMoves` = 1 in `demos`: one page moved,
  or one accessed bit cleared, anywhere in a program; the TLB fills at any time.
* No run constrains its states; bounded are only the sets and numbers in the
  `.cfg` files.

The threads, the CPUs or the processes are symmetric in `vm_update`,
`entry_edit`, `memory_types`, `library` and `windows`; no liveness is checked
there. Deadlock is checked except where the system may really stop: in `device`
(everybody is in `VM_LOCK`), in `library` and `windows` (the calls are used up
and everybody has exited) and in `demos` (the program has ended).

### Fairness

In `PteditorDevice` a task inside the kernel is scheduled again (weak fairness
of every step between entry and return), and a waiter for an mmap lock is not
passed over for ever (`Waits`) unless some one task keeps the lock (`Blocks`,
`LockFair`): the kernel's rwsem hands the lock over in order. Nothing makes a
program call, close or exit. So `CallsReturn` says that the handlers themselves
give back what they take.
No other run checks liveness.

## Proofs

| Theorem | Statement |
|---|---|
| `TypeCorrect`, `OpenIsExclusive`, `LocksAreBalanced`, `UpdatesAreExclusive`, `LockedModeNeverReached` | the invariants of `device`, for any tasks, files and mms |
| `DeviceRefinement` | `PteditorDevice` implements `ExclusiveDevice` |
| `PfnRoundTrip`, `PfnKeptByMt`, `MtRoundTrip`, `MtKeptByPfn`, `MtHugeRoundTrip`, `CastWithinField` | the functions on words, for every entry, on x86 and aarch64 |
| `EntryTypeCorrect`, `FieldsAreWhole`, `ForeignBitsAreKept` | the invariants of `entry_edit`, for any threads, calls and mappings |
| `SingleThreadAtomic` | `EntryEdit` with one thread implements `AtomicEntry` |
| `MemoryTypesTypeCorrect`, `MtsAreProgrammed`, `PagesHaveTheirType` | the invariants of `memory_types`, for any CPUs |
| `LibTypeCorrect`, `OpenDeviceHasHandlers`, `ModuleLeavesNothing`, `BusyIsOpen`, `DescriptorsAreOwn`, `CleanupClosesOwn`, `NothingLeaks`, `OwnTablesResolved` | the invariants of `library`, for any processes, descriptors and number of calls |
| `WinTypeCorrect`, `WinRunsOnOwnTables`, `WinCoherent`, `WinApplied` | the invariants of `windows`, for any CPUs, processes, pages and number of calls |
| `VmTypeCorrect`, `VmTlbCoherent`, `VmWritesHitTables`, `VmUpdateApplied`, `VmValidIsNonzero` | the invariants of `vm_update` and `vm_processes`, for any page tables, tasks, CPUs and requests |
| `UserTypeCorrect`, `UserTlbNeverStale`, `UserUpdatesApplied`, `UserResolvesMappings`, `WalksAlwaysAgree` | the invariants of `user_edit`, for any threads, pages and requests |
| `DemosTypeCorrect`, `SelfChecksSucceed`, `EditsAreUndone` | types and the invariants of `demos`, for all six programs, any frames and any number of interferences |

Assumptions: those on the constants (named `...Assumption`, evaluated by TLC in
every run), and

* `FieldsAreWhole`: `FieldsSeparate`, that is, single-bit calls and CPUs stay
  out of the page-frame number and the memory type, and the page is small. With
  `ptedit_pte_set_bit` on a bit of the page-frame number the claim is false.
* `SingleThreadAtomic`: one thread, no accessed or dirty bits set by a CPU, and a
  kernel that frees the page table but neither fills nor clears the entry.
  Otherwise the update overwrites what they wrote, or brings back what they took.
* `MtsAreProgrammed`, `PagesHaveTheirType`: one thread and `DefinedPlaces`, the
  places for which the shift is defined.
* `WinApplied`: one client; two would overwrite each other's entries.
* `VmTlbCoherent`: x86 (on aarch64 it is false, `vm_aarch64_pid`).
* `VmWritesHitTables`, `VmUpdateApplied`: one mm, and `Orderly` page tables: every
  table has one level, a page table hangs on one PMD only and a spare one on
  none, and callers make large pages but no page tables, clear no entry, and do
  not name a folded P4D twice. An exec between the
  lookups lets `update_vm` walk tables whose lock it does not hold, so the
  claims do not carry over to several mms.
* `VmValidIsNonzero`: `Orderly` page tables of any number of mms, no munmap (with
  it the property is false, `vm_resolve_race`), and `RootsFilled`: where the P4D
  is folded, the PGD entries of the addresses are not zero at the start, because
  `pgd_none` is constantly false there and `resolve_vm` calls them valid anyway.
* `UserTlbNeverStale`, `WalksAlwaysAgree`: `Private` page tables: no 1 GB pages,
  every page has a PMD of its own, every page table is at home below one PMD, and
  callers change PMDs and PTEs only. (An update flushes its own page only, so that
  a shared PMD would need the exemption that `VmEdit` has with `exposed`.)
* `SelfChecksSucceed`, `EditsAreUndone`: none but the one on the constants: the
  page table is no frame of a page, and the value `None` is neither a frame nor
  an entry.
* `UserUpdatesApplied`, `UserResolvesMappings`: also one editor, beside any number
  of threads that resolve. With two, one that has found a PTE before the other
  makes the PMD a large page writes a PTE that maps nothing any more, and a walk
  that has read the old PMD reports it.

The instances of TLC satisfy these hypotheses on tables and requests: `MCOrderly` and `MCPrivate` are
assumptions that TLC evaluates.

Why the invariants have to be strengthened:

* `OpenInv`: `ExclusiveOpen` alone is not inductive, because a second task
  could be between test and set. The misc mutex is held exactly there, and
  after the test the device is still free.
* `LockInv`: the balance of locks needs `LockedModeUnreachable` (the two reads
  of `mm_is_locked` agree because it is never set), which needs the balance
  (the task waiting for its second lock is the writer), so they are proved
  together with the exclusion of readers and writers and with what a handler
  remembers of its first read.
* `WholeInv`, `ForeignInv`, `CopyInv`: what holds of the entry also has to hold
  of the copies that calls in progress will write, each by where it comes from
  (`marks`).
* `MtsInv`, `PageInv`: in the middle of a `SET_PAT` the CPUs already done have
  the new table; the table of the finished calls is also the one being written.
* `ModuleInv`, `ProcessInv`, `LibInv`: what is registered at which step of
  `pteditor_init` and `pteditor_exit`, and which descriptors of the library a
  process has, by the call that it is in. `IInv` joins them with `BusyMeansOpen`
  and `ResolvesOwnTables`.
* `CacheInv`, `AppliedInv`: `WinTlbCoherent` has to be said of the TLB of every
  tag, also of those that no CPU uses at the moment: a tag stands for the root of
  one process, and what is cached without a tag is of the root in use. An update
  is in the entry already before its flush.
* `VmInv`: what a handler holds at which step. `TlbCoherent` itself is inductive
  with it, because `FlushPending` asks who owns the edited mm now, and a process
  that stops owning it puts what is stale into `exposed` in the same step.
* `LockInv`, `OrderInv`: no walk, fault or munmap works on an mm that is locked
  by another task, so a table that a walk has found stays in the tree until the
  unlock (`TableInv`, `UpdateOK`, `MunmapOK`).
* `StandInv`: what any walk has found is in a table of its level and, above the
  PTE, not zero; that stays so without a lock, because frames that a page fault
  overwrites are page tables, updates do not clear, and the levels never change.
* `UserInv`, `PrivateInv`: page faults bring new page tables into use, so the
  home of a page table is not known at the start; the invariant says that there
  is an assignment of homes that fits now (`TreeInv`), which also covers the
  entries that walks have read and that requests will write; or an update has gone
  astray (`stray`), which no property survives.
* `EditInv`: a resolve has seen the present mapping, and once it has read the PMD
  also what the PTE maps that it will read next (`SeenOK`). The PMD may have
  changed since: what saves the walk is that the editor writes the PTE first,
  through the PMD that is still in force (`SteadyOK`).

* `Inv` of `DemosProofs`: that a test succeeds depends on what the calls before it
  have done, so the invariant has to say, for every point of every program, what
  is known there. It does so with a proof outline per program (`exampleOutline` and
  so on): for each page whose frame its entry names and with which bits, for each
  variable the same, what is in the page, which TLB entries may be stale, and
  which variables still hold the present entry. `Holds` says when the state is as
  the outline says, `Steady` what is true at every point (frames are apart except
  after a fork, the TLB holds only what is mapped, the child has no entry before
  its first access, and its page has been flushed),
  and `Pinned` that a page mapped to the frame of another is only ever mapped so
  while a variable holds that number too: that is why moving the page is among
  the excuses. The proof has two halves. Every action keeps to any outline that
  respects the rule of the call (`MmapRule`, `UpdateRule`, ..., one lemma
  `...Step` per action), also `TlbFill`, `Age` and `Move`, which come between any
  two calls. And the six outlines respect the rules, call by call and at every
  jump to an error label (`exampleOutlined` and so on). A change of a program
  thus needs a change of its outline and of nothing else.

What the proofs changed in the models: the attempt to prove `WinTlbCoherent` showed
that `missed` forgot the pages of an earlier flush; the hardware walk had
overlapping cases; `exposed` was the same for all CPUs, so that a CPU that
had not been flushed lost its exemption with the first one that was; and the
types of `UserEdit` excluded 1 GB pages without saying so.

Only model-checked: liveness under fairness, which is out of the prover's reach
(as is `ENABLED`): `CallsReturn`, `DeviceFreed`. Every invariant and the
refinements that a run checks are also proved, the ones above under the
hypotheses named there.
Nothing is proved by induction over data, and no recursive operator is used.

## Known limits

Seen while modelling, not stated as properties because nothing promises them:

* Updates that overlap lose bits (`ptedit.c:899-936`); two concurrent `SET_PAT`
  may leave CPUs with different tables.
* An exec, or another borrowed mm, between the lookups of `update_vm` lets it edit
  an mm whose lock it does not hold.
* `ptedit_cast(...).pfn` has 28 bits on x86, `ptedit_get_pfn` 40: a page table above
  1 TB is out of reach of the user-space walk, and of `map_pt.c` and
  `map_pt_manual.c`, which take the frame of a page table from the cast too
  (`Demos` has that frame below 1 TB).
* The third memory-type bit of a large page lies inside the page-frame number
  (`apply_mt_huge`), so `ptedit_set_pfn` clears it.
* With four levels PGD and P4D are the same entry; an update of both takes the
  value of the P4D.
* The user-space walk takes a 1 GB page for a page table, and so do `virt2phys.c`
  and `memmap.c`; its cached root is stale after a fork.
* On Windows `ptedit_set_mts` sends `PTEDITOR_GET_PAT` (`ptedit.c:764`), so that
  no function of the library programs the PAT; `SET_CR3` for another process sets
  nobody's root, though `ptedit.h:615-617` offers it, and it falls through into a flush of the process number
  (`Driver.c:116-119`); neither it nor `GET_CR3` drops its reference on the
  process.
* A failed `mmap` of physical memory leaves `MAP_FAILED` in `ptedit_vmem`, which is
  used as a map and never tried again (`ptedit.c:538`); on aarch64 with 16 KB pages `ptedit_umem` is the standard
  input (`ptedit.c:437`, `484`).
* The result of `proc_create` is not looked at (`module/pteditor.c:744`), and
  `device_release` does not reset `mm_is_locked`, which would matter if `VM_LOCK`
  ever completed.
* `is_same` of `performance.c` collects differences of 64-bit entries in an
  `int`, so that one in the upper half is not seen.
* A program that is killed from outside between an edit and its reset gives back a
  frame that is not its own (`Demos` has only the kill that a failed `ptedit_pmap`
  brings about).

## Plan

Done: the core (`PteditorDevice`, `PageTables`, `VmEdit`), the entries
(`PteWord`, `EntryEdit`, `MemoryTypes`), the user-space implementation
(`UserEdit`, `Walks`), the life of module and library (`ModuleLifecycle`,
`PteditLib`), the programs (`Demos`), the Windows driver (`WinDriver`), and the
proofs above. What could follow, in this order:

1. `VmUpdateApplied` for several mms that no process leaves during an update.
2. Five levels and requests for the upper levels in `VmEdit`; aarch64 in
   `PteditLib` and `UserEdit`.

Not modelled, and why: pretty printing (`ptedit_print_entry` and its relatives
only format, `ptedit_mt_to_string` is wording), `tlb_test.c` (it measures time),
the body of `devmem_bypass` (it changes a return value of the kernel), the
Windows loader (calls to the service manager), packaging, and the tests, which
are used as statements of intent.
