----------------------------- MODULE DemosProofs -----------------------------
(***************************************************************************)
(* Proofs about Demos.  What a program has achieved before each of its     *)
(* calls is written down in a proof outline: a table of what is known of   *)
(* the entries, the variables, the pages and the TLB at that point.  The   *)
(* first part shows that a program keeps to every table that respects the  *)
(* rules of the calls, whatever the CPU and the kernel do in between; the  *)
(* second that the tables of the six programs respect them.                *)
(***************************************************************************)
EXTENDS Demos, TLAPS

-----------------------------------------------------------------------------
(* What is known                                                           *)

\* Of an entry: the page whose frame it names (or the page table), and its bits
\* except the accessed bit; or that there is none; or that nothing would have to
\* be undone of it.  Of the child's: its bits, if the child was not late.
Maps(w, b) == [kind |-> "maps", to |-> w, bits |-> b]
Childs(b) == [kind |-> "child", to |-> "child_fn", bits |-> b]
Unmapped == [kind |-> "none", to |-> "table", bits |-> {}]
Own == [kind |-> "own", to |-> "table", bits |-> {}]
Unknown == [kind |-> "unknown", to |-> "table", bits |-> {}]

Known(x) == x.kind = "maps"

Claim == [kind : {"maps", "child", "none", "own", "unknown"}, to : VPage \cup {"table"},
          bits : SUBSET {"nx", "uc"}]

\* At a point of a program: of every entry and register, what is in the frame of
\* a page ("-" if nothing is known), the pages whose TLB entry may be stale, and
\* the registers that hold the present entry of a page.
Knowledge == [pte : [VPage -> Claim], reg : [Register -> Claim],
              data : [VPage -> Letter \cup {"-"}], stale : SUBSET VPage,
              same : SUBSET (Register \X (VPage \ {"child_fn"}))]

FrameOf(w) == IF w = "table" THEN PT ELSE home[w]

Is(e, x) ==
  /\ e # None /\ e.bits \ {"accessed"} = x.bits
  /\ x.to # "table" => home[x.to] # None
  /\ "moved" \in excused \/ e.pfn = FrameOf(x.to)

\* Nothing would have to be undone of the entry of v.
Undone(v) ==
  \/ pte[v] = None \/ home[v] = None
  \/ /\ \/ "moved" \in excused \/ pte[v].pfn = home[v]
        \/ v = "address" /\ "killed" \in excused
     /\ "uc" \in pte[v].bits => "wb" \notin mts

\* The entry of the child: there may be none yet, with its bit still to come.
ChildIs(v, e, x) ==
  \/ e = None /\ ("late" \in excused \/ x.bits = {"nx"})
  \/ /\ e # None /\ home[v] # None /\ "uc" \notin e.bits
     /\ "moved" \in excused \/ e.pfn = home[v]
     /\ "late" \in excused \/ e.bits \ {"accessed"} = x.bits

EntryIs(v, x) ==
  /\ x.kind = "none" => pte[v] = None /\ (v = "child_fn" => child = "none")
  /\ x.kind = "child" => ChildIs(v, pte[v], x)
  /\ x.kind = "maps" => Is(pte[v], x)
  /\ x.kind = "own" => Undone(v)

RegisterIs(r, x) == x.kind = "maps" => Is(reg[r], x)

DataIs(v, c) ==
  c # "-" =>
    /\ home[v] # None
    /\ "moved" \in excused \/ "unwritten" \in excused \/ data[home[v]] = c

\* What the CPU has cached differs from the entry in the accessed bit only.
Coherent(v) ==
  tlb[v] # None => /\ pte[v] # None /\ tlb[v].pfn = pte[v].pfn
                   /\ tlb[v].bits \ {"accessed"} = pte[v].bits \ {"accessed"}

Same(r, v) == "moved" \in excused \/ "aged" \in excused \/ reg[r] = pte[v]

Holds(k) ==
  /\ \A v \in VPage : EntryIs(v, k.pte[v])
  /\ \A r \in Register : RegisterIs(r, k.reg[r])
  /\ \A v \in VPage : DataIs(v, k.data[v])
  /\ \A v \in VPage \ k.stale : Coherent(v)
  /\ \A r \in Register, v \in VPage : <<r, v>> \in k.same => Same(r, v)

\* Two pages share a frame only after a fork.
FramesApart ==
  \A v, w \in VPage : v # w /\ home[v] = home[w] /\ home[v] # None =>
    v \in {"fn", "child_fn"} /\ w \in {"fn", "child_fn"}

\* The CPU caches only what is mapped.
CachedMapped == \A v \in VPage : pte[v] = None => tlb[v] = None

\* Only the pages of homed have frames of their own.
OnlyHomed(homed) == \A v \in VPage \ homed : home[v] = None

\* The child has no page, or none yet.
ChildWaits(homed) ==
  /\ child \in {"none", "started"} => home["child_fn"] = None
  /\ child = "started" => /\ {"fn", "child_fn"} \subseteq homed
                         /\ pte["child_fn"] = None /\ home["fn"] # None

\* The child has its page, and the edit of the parent has been flushed.
ChildReady == child = "sleeping" => pte["child_fn"] # None /\ Coherent("child_fn")

Steady(homed) ==
  /\ FramesApart /\ CachedMapped /\ OnlyHomed(homed)
  /\ ChildWaits(homed) /\ ChildReady

-----------------------------------------------------------------------------
(* Proof outlines                                                          *)

\* The claim x about the entry of v may be left for y.  An entry that is as the
\* kernel has made it needs no claim but that; and neither does one that is
\* uncacheable, if the type that no place of the PAT has is write-back, or that of
\* address if the process is killed.
Keeps(x, y, v, homed, lack) ==
  \/ y = x
  \/ /\ y = Own
     /\ \/ x.kind \in {"none", "child"}
        \/ x.kind = "maps" /\ v \notin homed
        \/ /\ x.kind = "maps" /\ ("uc" \in x.bits => lack = "wb")
           /\ x.to = v \/ (v = "address" /\ lack = "killed")

EntriesKept(k, t, homed, lack) ==
  \A v \in VPage : Keeps(k.pte[v], t.pte[v], v, homed, lack)

RegistersKept(k, t) == \A r \in Register : t.reg[r] = Unknown \/ t.reg[r] = k.reg[r]

DataKept(k, t) == \A v \in VPage : t.data[v] = "-" \/ t.data[v] = k.data[v]

\* Less is known in t than in k, if no place of the PAT has the type lack, or if the
\* process is killed.
Weaker(k, t, homed, lack) ==
  /\ EntriesKept(k, t, homed, lack) /\ RegistersKept(k, t) /\ DataKept(k, t)
  /\ k.stale \subseteq t.stale /\ t.same \subseteq k.same

\* Less is known in t than in k once the entry of v is x.
EntrySet(k, t, v, x, homed, stale) ==
  /\ \A w \in VPage : Keeps(IF w = v THEN x ELSE k.pte[w], t.pte[w], w, homed, "-")
  /\ RegistersKept(k, t) /\ stale \subseteq t.stale
  /\ \A y \in t.same : y \in k.same /\ y[2] # v

\* The same once register r is x; it may hold what new says.
RegisterSet(k, t, r, x, homed, new) ==
  /\ EntriesKept(k, t, homed, "-") /\ DataKept(k, t) /\ k.stale \subseteq t.stale
  /\ \A s \in Register : t.reg[s] = Unknown \/ t.reg[s] = IF s = r THEN x ELSE k.reg[s]
  /\ \A y \in t.same : y \in new \/ (y \in k.same /\ y[1] # r)

\* The same once c is in the frame of v.
DataSet(k, t, v, c) ==
  \A w \in VPage : t.data[w] = "-" \/ t.data[w] = IF w = v THEN c ELSE k.data[w]

\* Nothing is known about v yet.
Fresh(v, k) ==
  /\ k.pte[v].kind = "none" /\ k.data[v] = "-"
  /\ \A w \in VPage : Known(k.pte[w]) => k.pte[w].to # v
  /\ \A r \in Register : Known(k.reg[r]) => k.reg[r].to # v

\* The rules of the calls: what is known before them and what after them.
MmapRule(v, c, k, t, homed) ==
  /\ v \in (VPage \cap homed) \ {"child_fn"} /\ Fresh(v, k)
  /\ EntrySet(k, t, v, Maps(v, {}), homed, k.stale) /\ DataSet(k, t, v, c)

MunmapRule(v, k, t, homed) ==
  /\ v \in VPage \ {"child_fn"}
  /\ Known(k.pte[v]) /\ k.pte[v].to = v /\ "uc" \notin k.pte[v].bits
  /\ EntrySet(k, t, v, Unmapped, homed, k.stale) /\ DataKept(k, t)

ForkRule(k, t, homed) ==
  /\ {"fn", "child_fn"} \subseteq homed /\ k.pte["child_fn"].kind = "none"
  /\ Known(k.pte["fn"]) /\ k.pte["fn"].to = "fn"
  /\ EntrySet(k, t, "child_fn", Childs({"nx"}), homed, k.stale)
  /\ DataKept(k, t)

ResolveRule(r, v, k, t, homed) ==
  /\ v \in VPage /\ r \in Register /\ Known(k.pte[v])
  /\ RegisterSet(k, t, r, k.pte[v], homed, {<<r, v>>})

CopyRule(r, s, k, t, homed) ==
  /\ r \in Register /\ s \in Register /\ Known(k.reg[s])
  /\ RegisterSet(k, t, r, k.reg[s], homed, {})

SetPfnRule(r, s, k, t, homed) ==
  /\ r \in Register /\ s \in Register /\ Known(k.reg[r]) /\ Known(k.reg[s])
  /\ RegisterSet(k, t, r, Maps(k.reg[s].to, k.reg[r].bits), homed, {})

WithMt(x, m) == Maps(x.to, IF m = "uc" THEN x.bits \cup {"uc"} ELSE x.bits \ {"uc"})

ApplyMtRule(r, m, k, t, homed) ==
  /\ r \in Register /\ Known(k.reg[r])
  /\ RegisterSet(k, t, r, WithMt(k.reg[r], m), homed, {})

UpdateRule(v, r, k, t, homed) ==
  /\ v \in VPage \ {"child_fn"} /\ r \in Register /\ Known(k.reg[r])
  /\ EntrySet(k, t, v, k.reg[r], homed, k.stale \ {v}) /\ DataKept(k, t)

PteSetPfnRule(v, r, k, t, homed) ==
  /\ v \in VPage /\ r \in Register /\ Known(k.pte[v]) /\ Known(k.reg[r])
  /\ EntrySet(k, t, v, Maps(k.reg[r].to, k.pte[v].bits), homed, k.stale \ {v})
  /\ DataKept(k, t)

WithBit(x, b) == Maps(x.to, (x.bits \cup {b}) \ {"accessed"})
WithoutBit(x, b) == Maps(x.to, x.bits \ {b, "accessed"})

SetBitRule(v, b, k, t, homed) ==
  /\ v \in VPage /\ b \in Bit /\ Known(k.pte[v])
  /\ EntrySet(k, t, v, WithBit(k.pte[v], b), homed, k.stale \ {v}) /\ DataKept(k, t)

ClearBitRule(v, b, k, t, homed) ==
  /\ v \in VPage /\ b \in Bit /\ Known(k.pte[v])
  /\ EntrySet(k, t, v, WithoutBit(k.pte[v], b), homed, k.stale \ {v}) /\ DataKept(k, t)

ClearChildBitRule(b, k, t, homed) ==
  /\ b \in Bit /\ k.pte["child_fn"].kind = "child"
  /\ EntrySet(k, t, "child_fn", Childs(k.pte["child_fn"].bits \ {b, "accessed"}), homed,
              k.stale \ {"child_fn"})
  /\ DataKept(k, t)

PmapRule(v, r, k, t, homed) ==
  /\ v \in VPage \ {"child_fn"} /\ r \in Register /\ k.pte[v].kind = "none" /\ Known(k.reg[r])
  /\ EntrySet(k, t, v, Maps(k.reg[r].to, {}), homed, k.stale) /\ DataKept(k, t)

InvalidateRule(v, k, t, homed) ==
  /\ v \in VPage
  /\ EntriesKept(k, t, homed, "-") /\ RegistersKept(k, t) /\ DataKept(k, t)
  /\ k.stale \ {v} \subseteq t.stale /\ t.same \subseteq k.same

WritePageRule(r, c, k, t, homed) ==
  /\ r \in Register /\ Known(k.reg[r]) /\ k.reg[r].to \in VPage \ {"fn", "child_fn"}
  /\ EntriesKept(k, t, homed, "-") /\ RegistersKept(k, t)
  /\ DataSet(k, t, k.reg[r].to, c)
  /\ k.stale \subseteq t.stale /\ t.same \subseteq k.same

StoreEntryRule(v, r, k, t, homed) ==
  /\ v \in VPage \ {"child_fn"} /\ r \in Register /\ Known(k.reg[r])
  /\ EntrySet(k, t, v, k.reg[r], homed, k.stale \cup {v}) /\ DataKept(k, t)

StorePfnRule(v, r, k, t, homed) ==
  /\ v \in VPage \ {"child_fn"} /\ r \in Register /\ Known(k.pte[v]) /\ Known(k.reg[r])
  /\ EntrySet(k, t, v, Maps(k.reg[r].to, k.pte[v].bits), homed, k.stale \cup {v})
  /\ DataKept(k, t)

LoadRule(v, c, k) ==
  /\ v \in VPage \ k.stale /\ c # "-"
  /\ Known(k.pte[v]) /\ k.pte[v].to \in VPage /\ k.data[k.pte[v].to] = c

ReadPageRule(r, c, k) ==
  /\ r \in Register /\ c # "-"
  /\ Known(k.reg[r]) /\ k.reg[r].to \in VPage /\ k.data[k.reg[r].to] = c

LoadEntryRule(w, v, r, k) ==
  /\ v \in VPage /\ r \in Register /\ w \in VPage \ k.stale
  /\ Known(k.pte[w]) /\ k.pte[w].to = "table" /\ <<r, v>> \in k.same

GetBitRule(v, b, k) ==
  v \in VPage /\ k.pte[v].kind \in {"maps", "child"} /\ b # "accessed"

Passive == {"init", "cleanup", "find_mt", "barrier", "load", "read_page",
            "load_entry", "get_bit", "behaves"}

Rule(c, k, t, homed) ==
  /\ c.op \in Passive => Weaker(k, t, homed, "-")
  /\ c.op = "mmap" => c.c \in Letter /\ MmapRule(c.v, c.c, k, t, homed)
  /\ c.op = "mmap_huge" => MmapRule(c.v, "-", k, t, homed)
  /\ c.op = "munmap" => MunmapRule(c.v, k, t, homed)
  /\ c.op = "fork" => ForkRule(k, t, homed)
  /\ c.op \in {"resolve", "resolve_or"} => ResolveRule(c.r, c.v, k, t, homed)
  /\ c.op = "copy" => CopyRule(c.r, c.s, k, t, homed)
  /\ c.op = "set_pfn" => SetPfnRule(c.r, c.s, k, t, homed)
  /\ c.op = "apply_mt" => ApplyMtRule(c.r, c.m, k, t, homed)
  /\ c.op = "update" => UpdateRule(c.v, c.r, k, t, homed)
  /\ c.op = "pte_set_pfn" => PteSetPfnRule(c.v, c.r, k, t, homed)
  /\ c.op = "pte_bit" => IF c.on THEN SetBitRule(c.v, c.b, k, t, homed)
                         ELSE IF c.v = "child_fn" THEN ClearChildBitRule(c.b, k, t, homed)
                         ELSE ClearBitRule(c.v, c.b, k, t, homed)
  /\ c.op = "pmap" => PmapRule(c.v, c.r, k, t, homed)
  /\ c.op = "invalidate" => InvalidateRule(c.v, k, t, homed)
  /\ c.op = "write_page" => c.c \in Letter /\ WritePageRule(c.r, c.c, k, t, homed)
  /\ c.op = "store_entry" => StoreEntryRule(c.v, c.r, k, t, homed)
  /\ c.op = "store_pfn" => StorePfnRule(c.v, c.r, k, t, homed)
  /\ c.op = "load" => LoadRule(c.v, c.c, k)
  /\ c.op = "read_page" => ReadPageRule(c.r, c.c, k)
  /\ c.op = "load_entry" => LoadEntryRule(c.w, c.v, c.r, k)
  /\ c.op \in {"get_bit", "behaves"} =>
       /\ GetBitRule(c.v, c.b, k) /\ c.on \in BOOLEAN
       /\ IF c.on THEN c.b \in k.pte[c.v].bits ELSE c.b \notin k.pte[c.v].bits
  /\ c.op = "behaves" => Known(k.pte[c.v]) /\ c.v \notin k.stale

\* A register holds the frame of a page that another page is mapped to: if the
\* kernel moves it, that is an excuse.
Pinned(k) ==
  \A v \in VPage : Known(k.pte[v]) /\ k.pte[v].to \in VPage \ {v} =>
    \E r \in Register : Known(k.reg[r]) /\ k.reg[r].to = k.pte[v].to

\* Where a call may go on instead of after itself.
Jumps(p, i, o, homed) ==
  /\ p[i].op = "init" => Weaker(o[i], o[Len(p) + 1], homed, "-")
  /\ p[i].op \in {"find_mt", "mmap_huge", "resolve_or"} => p[i].e \in 1..(Len(p) + 1)
  /\ p[i].op \in {"mmap_huge", "resolve_or"} => Weaker(o[i], o[p[i].e], homed, "-")
  /\ p[i].op = "find_mt" =>
       p[i].m \in {"uc", "wb"} /\ Weaker(o[i], o[p[i].e], homed, p[i].m)
  /\ p[i].op = "pmap" => Weaker(o[i], o[Len(p) + 1], homed, "killed")

Start == [pte |-> [v \in VPage |-> Unmapped],
          reg |-> [r \in Register |-> IF r = "pmd" THEN Maps("table", {}) ELSE Unknown],
          data |-> [v \in VPage |-> "-"], stale |-> {}, same |-> {}]

\* o is an outline of the proof that the tests of p succeed and that p undoes its
\* edits.
Outlined(p, o, homed) ==
  /\ Len(p) \in Nat
  /\ Weaker(Start, o[1], homed, "-")
  /\ \A i \in 1..(Len(p) + 1) : o[i] \in Knowledge /\ Pinned(o[i])
  /\ \A i \in 1..Len(p) : Rule(p[i], o[i], o[i + 1], homed) /\ Jumps(p, i, o, homed)
  /\ o[Len(p) + 1].same = {} /\ \A v \in VPage : o[Len(p) + 1].pte[v] = Own

\* What the program has done so far is what its outline says.
Follows(o, homed) ==
  Outlined(program, o, homed) /\ Holds(o[ip]) /\ Steady(homed)

\* The inductive invariant.
Inv ==
  /\ TypeOK /\ SelfChecksPass /\ EditsUndone
  /\ \E o, homed : Follows(o, homed)

-----------------------------------------------------------------------------
(* The rules are sound                                                     *)

\* The inductive invariant, for the outline o.
InvOf(o, homed) == TypeOK /\ SelfChecksPass /\ EditsUndone /\ Follows(o, homed)

\* Where the program is, and what its outline says here and after the call.
LEMMA Here ==
  ASSUME NEW o, NEW homed, InvOf(o, homed), ip < Ended
  PROVE  /\ ip \in Nat /\ ip + 1 \in 1..Ended /\ Ended \in 1..Ended
         /\ o[ip] \in Knowledge /\ o[ip + 1] \in Knowledge
         /\ Holds(o[ip]) /\ Pinned(o[ip])
         /\ Rule(program[ip], o[ip], o[ip + 1], homed)
         /\ Jumps(program, ip, o, homed)
<1>1. Len(program) \in Nat /\ ip \in 1..Len(program)
  BY DEF InvOf, Follows, Outlined, TypeOK, Ended
<1>2. ip \in 1..(Len(program) + 1) /\ ip + 1 \in 1..(Len(program) + 1)
  BY <1>1
<1> QED BY <1>1, <1>2 DEF InvOf, Follows, Outlined, Ended

\* A claim that may be left is left soundly.
LEMMA LeaveClaim ==
  ASSUME NEW x, NEW y, NEW v \in VPage, NEW homed, NEW lack,
         Keeps(x, y, v, homed, lack), EntryIs(v, x)', OnlyHomed(homed)',
         lack = "wb" => "wb" \notin mts', lack = "killed" => "killed" \in excused'
  PROVE  EntryIs(v, y)'
<1>1. CASE y = x
  BY <1>1
<1>2. CASE y = Own
  <2>1. v # "table"
    BY DEF VPage
  <2>2. Undone(v)'
    BY <1>2, <2>1 DEF Keeps, EntryIs, ChildIs, Undone, Is, FrameOf, OnlyHomed, Own
  <2> QED BY <1>2, <2>2 DEF EntryIs, Own
<1> QED BY <1>1, <1>2 DEF Keeps

\* What holds goes on to hold when less is claimed.
LEMMA Weaken ==
  ASSUME NEW k, NEW t, NEW homed, NEW lack, Weaker(k, t, homed, lack),
         Holds(k)', OnlyHomed(homed)', lack = "wb" => "wb" \notin mts',
         lack = "killed" => "killed" \in excused'
  PROVE  Holds(t)'
<1>1. \A v \in VPage : EntryIs(v, t.pte[v])'
  BY LeaveClaim DEF Weaker, EntriesKept, Holds
<1>2. \A r \in Register : RegisterIs(r, t.reg[r])'
  BY DEF Weaker, RegistersKept, Holds, RegisterIs, Unknown
<1>3. \A v \in VPage : DataIs(v, t.data[v])'
  BY DEF Weaker, DataKept, Holds, DataIs
<1>4. \A v \in VPage \ t.stale : Coherent(v)'
  BY DEF Weaker, Holds
<1>5. \A r \in Register, v \in VPage : <<r, v>> \in t.same => Same(r, v)'
  BY DEF Weaker, Holds
<1> QED BY <1>1, <1>2, <1>3, <1>4, <1>5 DEF Holds

\* So it does when one entry has changed.
LEMMA EntryChanged ==
  ASSUME NEW k, NEW t, NEW homed, NEW v \in VPage, NEW x, NEW stale,
         EntrySet(k, t, v, x, homed, stale), OnlyHomed(homed)',
         EntryIs(v, x)', \A w \in VPage \ {v} : EntryIs(w, k.pte[w])',
         \A r \in Register : RegisterIs(r, k.reg[r])',
         \A w \in VPage : DataIs(w, t.data[w])',
         \A w \in VPage \ stale : Coherent(w)',
         \A r \in Register, w \in VPage \ {v} : <<r, w>> \in k.same => Same(r, w)'
  PROVE  Holds(t)'
<1>1. ASSUME NEW w \in VPage
      PROVE  EntryIs(w, t.pte[w])'
  <2>1. CASE w = v
    BY <2>1, LeaveClaim DEF EntrySet
  <2>2. CASE w # v
    BY <2>2, LeaveClaim DEF EntrySet
  <2> QED BY <2>1, <2>2
<1>2. \A r \in Register : RegisterIs(r, t.reg[r])'
  BY DEF EntrySet, RegistersKept, RegisterIs, Unknown
<1>4. \A w \in VPage \ t.stale : Coherent(w)'
  BY DEF EntrySet
<1>5. \A r \in Register, w \in VPage : <<r, w>> \in t.same => Same(r, w)'
  BY DEF EntrySet
<1> QED BY <1>1, <1>2, <1>4, <1>5 DEF Holds

\* And when a register has changed.
LEMMA RegisterChanged ==
  ASSUME NEW k, NEW t, NEW homed, NEW r \in Register, NEW x, NEW new,
         RegisterSet(k, t, r, x, homed, new), OnlyHomed(homed)',
         \A v \in VPage : EntryIs(v, k.pte[v])', RegisterIs(r, x)',
         \A s \in Register \ {r} : RegisterIs(s, k.reg[s])',
         \A v \in VPage : DataIs(v, k.data[v])',
         \A v \in VPage \ k.stale : Coherent(v)',
         \A s \in Register, v \in VPage :
           <<s, v>> \in new \/ (s # r /\ <<s, v>> \in k.same) => Same(s, v)'
  PROVE  Holds(t)'
<1>1. \A v \in VPage : EntryIs(v, t.pte[v])'
  BY LeaveClaim DEF RegisterSet, EntriesKept
<1>2. \A s \in Register : RegisterIs(s, t.reg[s])'
  BY DEF RegisterSet, RegisterIs, Unknown
<1>3. \A v \in VPage : DataIs(v, t.data[v])'
  BY DEF RegisterSet, DataKept, DataIs
<1>4. \A v \in VPage \ t.stale : Coherent(v)'
  BY DEF RegisterSet
<1>5. \A s \in Register, v \in VPage : <<s, v>> \in t.same => Same(s, v)'
  BY DEF RegisterSet
<1> QED BY <1>1, <1>2, <1>3, <1>4, <1>5 DEF Holds

\* Claims that a step does not touch.
LEMMA Untouched ==
  ASSUME NEW k, Holds(k), UNCHANGED <<reg, pte, tlb, data, home, mts>>,
         excused \subseteq excused', child = "none" => child' = "none"
  PROVE  Holds(k)'
<1>1. \A v \in VPage : EntryIs(v, k.pte[v])'
  BY DEF Holds, EntryIs, ChildIs, Is, Undone, FrameOf
<1>2. \A r \in Register : RegisterIs(r, k.reg[r])'
  BY DEF Holds, RegisterIs, Is, FrameOf
<1>3. \A v \in VPage : DataIs(v, k.data[v])'
  BY DEF Holds, DataIs
<1>4. \A v \in VPage \ k.stale : Coherent(v)'
  BY DEF Holds, Coherent
<1>5. \A r \in Register, v \in VPage : <<r, v>> \in k.same => Same(r, v)'
  BY DEF Holds, Same
<1> QED BY <1>1, <1>2, <1>3, <1>4, <1>5 DEF Holds

LEMMA StaysSteady ==
  ASSUME NEW homed, Steady(homed), UNCHANGED <<pte, tlb, home, child>>
  PROVE  Steady(homed)'
BY DEF Steady, FramesApart, CachedMapped, OnlyHomed, ChildWaits, ChildReady, Coherent

\* The histories are right if nothing is added to them.
LEMMA HistoriesStay ==
  ASSUME SelfChecksPass, EditsUndone, excused \subseteq excused',
         UNCHANGED <<program, mts, failed, zapped>>
  PROVE  SelfChecksPass' /\ EditsUndone'
<1>1. SelfChecksPass'
  BY DEF SelfChecksPass, Excused, Ended
<1>2. EditsUndone'
  BY DEF EditsUndone
<1> QED BY <1>1, <1>2

\* The invariant holds again when the program has come to a point that its outline
\* is right about.
LEMMA Arrive ==
  ASSUME NEW o, NEW homed, InvOf(o, homed), program' = program,
         NEW t, t = o[ip'], Holds(t)', Steady(homed)',
         TypeOK', SelfChecksPass', EditsUndone'
  PROVE  InvOf(o, homed)'
BY DEF InvOf, Follows

\* The program goes on somewhere, and nothing else changes.
LEMMA GoesOn ==
  ASSUME NEW o, NEW homed, InvOf(o, homed), ip < Ended,
         ip' \in 1..Ended, excused \subseteq excused', excused' \subseteq Excuse,
         NEW lack, Weaker(o[ip], o[ip'], homed, lack), lack = "wb" => "wb" \notin mts,
         lack = "killed" => "killed" \in excused',
         UNCHANGED <<program, reg, pte, tlb, data, home, mts, child, moves, failed, zapped>>
  PROVE  InvOf(o, homed)'
<1>1. PICK k : k = o[ip]
  OBVIOUS
<1>2. PICK t : t = o[ip']
  OBVIOUS
<1>3. Steady(homed)'
  BY StaysSteady DEF InvOf, Follows
<1>4. Holds(k)'
  BY <1>1, Here, Untouched
<1>5. Holds(t)'
  BY <1>1, <1>2, <1>3, <1>4, Weaken DEF Steady
<1>6. TypeOK'
  BY DEF InvOf, TypeOK, Ended
<1>7. SelfChecksPass' /\ EditsUndone'
  BY HistoriesStay DEF InvOf
<1> QED BY <1>2, <1>3, <1>5, <1>6, <1>7, Arrive

\* The same, without an excuse.
LEMMA GoesOnPlainly ==
  ASSUME NEW o, NEW homed, InvOf(o, homed), ip < Ended, ip' \in 1..Ended,
         NEW lack \in {"-", "uc", "wb"}, Weaker(o[ip], o[ip'], homed, lack),
         lack = "wb" => "wb" \notin mts,
         UNCHANGED <<program, reg, pte, tlb, data, home, mts, child, moves, failed,
                     excused, zapped>>
  PROVE  InvOf(o, homed)'
<1>1. excused \subseteq excused' /\ excused' \subseteq Excuse /\ lack # "killed"
  BY DEF InvOf, TypeOK
<1> QED BY <1>1, GoesOn

LEMMA InitializeStep ==
  ASSUME NEW o, NEW homed, InvOf(o, homed), NEW ok \in BOOLEAN, Initialize(ok)
  PROVE  InvOf(o, homed)'
<1>1. ip < Ended /\ program[ip].op = "init"
  BY DEF Initialize, Op
<1>2. Weaker(o[ip], o[ip + 1], homed, "-")
  BY <1>1, Here DEF Rule, Passive
<1>3. Weaker(o[ip], o[Ended], homed, "-")
  BY <1>1, Here DEF Jumps, Ended
<1> QED BY <1>1, <1>2, <1>3, Here, GoesOnPlainly DEF Initialize, Goto

LEMMA CleanupStep ==
  ASSUME NEW o, NEW homed, InvOf(o, homed), Cleanup
  PROVE  InvOf(o, homed)'
<1>1. ip < Ended /\ program[ip].op = "cleanup"
  BY DEF Cleanup, Op
<1>2. Weaker(o[ip], o[ip + 1], homed, "-")
  BY <1>1, Here DEF Rule, Passive
<1>3. ip + 1 \in 1..Ended
  BY <1>1, Here
<1>4. /\ ip' = ip + 1
      /\ UNCHANGED <<program, reg, pte, tlb, data, home, mts, child, moves, failed,
                     excused, zapped>>
  BY DEF Cleanup, Goto
<1>5. ip' \in 1..Ended /\ Weaker(o[ip], o[ip'], homed, "-")
  BY <1>2, <1>3, <1>4
<1> QED BY <1>1, <1>4, <1>5, GoesOnPlainly

LEMMA GoesToLabelStep ==
  ASSUME NEW o, NEW homed, InvOf(o, homed), GoesToLabel
  PROVE  InvOf(o, homed)'
<1>1. ip < Ended /\ program[ip].op \in {"mmap_huge", "resolve_or"}
  BY DEF GoesToLabel, Op
<1>2. arg.e \in 1..Ended /\ Weaker(o[ip], o[arg.e], homed, "-")
  BY <1>1, Here DEF Jumps, Ended, arg
<1> QED BY <1>1, <1>2, GoesOnPlainly DEF GoesToLabel, Goto

LEMMA FindMtStep ==
  ASSUME NEW o, NEW homed, InvOf(o, homed), FindMt
  PROVE  InvOf(o, homed)'
<1>1. ip < Ended /\ program[ip].op = "find_mt"
  BY DEF FindMt, Op
<1>2. CASE arg.m \in mts
  <2>1. Weaker(o[ip], o[ip + 1], homed, "-")
    BY <1>1, Here DEF Rule, Passive
  <2> QED BY <1>1, <1>2, <2>1, Here, GoesOnPlainly DEF FindMt, Goto
<1>3. CASE arg.m \notin mts
  <2>1. arg.e \in 1..Ended /\ Weaker(o[ip], o[arg.e], homed, arg.m)
        /\ arg.m \in {"-", "uc", "wb"}
    BY <1>1, Here DEF Jumps, Ended, arg
  <2> QED BY <1>1, <1>3, <2>1, GoesOnPlainly DEF FindMt, Goto
<1> QED BY <1>2, <1>3

\* Without a pointer to the page the program is killed, and that is an excuse.
LEMMA PmapFailsStep ==
  ASSUME NEW o, NEW homed, InvOf(o, homed), PmapFails
  PROVE  InvOf(o, homed)'
<1>1. ip < Ended /\ program[ip].op = "pmap"
  BY DEF PmapFails, Op
<1>2. Weaker(o[ip], o[Ended], homed, "killed") /\ Ended \in 1..Ended
  BY <1>1, Here DEF Jumps, Ended
<1>3. /\ ip' = Ended /\ excused' = excused \cup {"killed"}
      /\ UNCHANGED <<program, reg, pte, tlb, data, home, mts, child, moves, failed, zapped>>
  BY DEF PmapFails, Goto
<1>4. excused \subseteq excused' /\ excused' \subseteq Excuse /\ "killed" \in excused'
  BY <1>3 DEF InvOf, TypeOK, Excuse
<1>5. ip' \in 1..Ended /\ Weaker(o[ip], o[ip'], homed, "killed") /\ "killed" # "wb"
  BY <1>2, <1>3
<1> QED BY <1>1, <1>3, <1>4, <1>5, GoesOn
\* A test of the program succeeds, or there is an excuse.
LEMMA Tests ==
  ASSUME NEW o, NEW homed, InvOf(o, homed), ip < Ended, ip' = ip + 1,
         program[ip].op \in Passive, NEW j, j = ip,
         failed' = failed \/ (failed' = failed \cup {j} /\ Excused(j)'),
         excused \subseteq excused', excused' \subseteq Excuse,
         UNCHANGED <<program, reg, pte, tlb, data, home, mts, child, moves, zapped>>
  PROVE  InvOf(o, homed)'
<1>1. PICK k : k = o[ip]
  OBVIOUS
<1>2. PICK t : t = o[ip + 1]
  OBVIOUS
<1>3. Steady(homed)'
  BY StaysSteady DEF InvOf, Follows
<1>4. Holds(k)'
  BY <1>1, Here, Untouched
<1>5. Weaker(k, t, homed, "-")
  BY <1>1, <1>2, Here DEF Rule
<1>6. Holds(t)'
  BY <1>3, <1>4, <1>5, Weaken DEF Steady
<1>7. TypeOK'
  BY Here DEF InvOf, TypeOK, Ended
<1>8. SelfChecksPass'
  BY DEF InvOf, SelfChecksPass, Excused, Ended
<1>9. EditsUndone'
  BY DEF InvOf, EditsUndone
<1> QED BY <1>2, <1>3, <1>6, <1>7, <1>8, <1>9, Arrive

\* A test changes nothing else.
LEMMA TestsOnly ==
  ASSUME NEW o, NEW homed, InvOf(o, homed), ip < Ended, program[ip].op \in Passive,
         NEW ok \in BOOLEAN, Test(ok), ok \/ Excused(ip)
  PROVE  InvOf(o, homed)'
<1>1. PICK j : j = ip
  OBVIOUS
<1>2. /\ failed' = failed \/ (failed' = failed \cup {j} /\ ~ok)
      /\ ip' = ip + 1
      /\ UNCHANGED <<program, reg, pte, tlb, data, home, mts, child, moves, excused,
                     zapped>>
  BY <1>1 DEF Test, Goto
<1>3. ~ok => Excused(j)'
  BY <1>1, <1>2 DEF Excused, Ended
<1>4. excused \subseteq excused' /\ excused' \subseteq Excuse
  BY <1>2 DEF InvOf, TypeOK
<1>5. failed' = failed \/ (failed' = failed \cup {j} /\ Excused(j)')
  BY <1>2, <1>3
<1> QED BY <1>1, <1>2, <1>4, <1>5, Tests

\* What the CPU sees is what the entry says, where the TLB is not stale.
LEMMA SeesEntry ==
  ASSUME NEW k, Holds(k), NEW v \in VPage \ k.stale, Known(k.pte[v])
  PROVE  /\ Is(pte[v], k.pte[v]) /\ Seen(v).pfn = pte[v].pfn
         /\ \A b \in {"nx", "uc"} : b \in Seen(v).bits <=> b \in k.pte[v].bits
BY DEF Holds, EntryIs, Known, Coherent, Seen, Is

LEMMA LoadStep ==
  ASSUME NEW o, NEW homed, InvOf(o, homed), Load
  PROVE  InvOf(o, homed)'
<1>1. ip < Ended /\ program[ip].op = "load"
  BY DEF Load, Op
<1>2. PICK k : k = o[ip]
  OBVIOUS
<1>3. LoadRule(arg.v, arg.c, k) /\ Holds(k)
  BY <1>1, <1>2, Here DEF Rule, arg
<1>4. PICK ok \in BOOLEAN : ok = (Contents(Seen(arg.v).pfn) = arg.c)
  OBVIOUS
<1>5. ok \/ "moved" \in excused \/ "unwritten" \in excused
  <2>1. PICK w : w = k.pte[arg.v].to
    OBVIOUS
  <2>2. w \in VPage /\ w # "table" /\ DataIs(w, arg.c) /\ arg.c # "-"
    BY <1>3, <2>1 DEF LoadRule, Holds, VPage
  <2>3. "moved" \in excused \/ Seen(arg.v).pfn = home[w]
    BY <1>3, <2>1, <2>2, SeesEntry DEF LoadRule, Is, FrameOf
  <2>4. home[w] \in Frame /\ home[w] # PT
    BY <2>2, DemosAssumption DEF InvOf, TypeOK, DataIs
  <2> QED BY <1>4, <2>2, <2>3, <2>4 DEF DataIs, Contents
<1>6. ok \/ Excused(ip)
  BY <1>1, <1>5 DEF Excused
<1>7. Test(ok)
  BY <1>4 DEF Load
<1> QED BY <1>1, <1>6, <1>7, TestsOnly DEF Passive

LEMMA ReadPhysicalPageStep ==
  ASSUME NEW o, NEW homed, InvOf(o, homed), ReadPhysicalPage
  PROVE  InvOf(o, homed)'
<1>1. ip < Ended /\ program[ip].op = "read_page"
  BY DEF ReadPhysicalPage, Op
<1>2. PICK k : k = o[ip]
  OBVIOUS
<1>3. ReadPageRule(arg.r, arg.c, k) /\ Holds(k)
  BY <1>1, <1>2, Here DEF Rule, arg
<1>4. PICK ok \in BOOLEAN : ok = (Contents(reg[arg.r].pfn) = arg.c)
  OBVIOUS
<1>5. ok \/ "moved" \in excused \/ "unwritten" \in excused
  <2>1. PICK w : w = k.reg[arg.r].to
    OBVIOUS
  <2>2. w \in VPage /\ w # "table" /\ DataIs(w, arg.c) /\ arg.c # "-"
    BY <1>3, <2>1 DEF ReadPageRule, Holds, VPage
  <2>3. "moved" \in excused \/ reg[arg.r].pfn = home[w]
    BY <1>3, <2>1, <2>2 DEF ReadPageRule, Holds, RegisterIs, Known, Is, FrameOf
  <2>4. home[w] \in Frame /\ home[w] # PT
    BY <2>2, DemosAssumption DEF InvOf, TypeOK, DataIs
  <2> QED BY <1>4, <2>2, <2>3, <2>4 DEF DataIs, Contents
<1>6. ok \/ Excused(ip)
  BY <1>1, <1>5 DEF Excused
<1>7. Test(ok)
  BY <1>4 DEF ReadPhysicalPage
<1> QED BY <1>1, <1>6, <1>7, TestsOnly DEF Passive

LEMMA ReadPhysicalPageFailsStep ==
  ASSUME NEW o, NEW homed, InvOf(o, homed), ReadPhysicalPageFails
  PROVE  InvOf(o, homed)'
<1>1. ip < Ended /\ program[ip].op = "read_page"
  BY DEF ReadPhysicalPageFails, Op
<1>2. PICK j : j = ip
  OBVIOUS
<1>3. /\ failed' = failed \/ failed' = failed \cup {j}
      /\ excused' = excused \cup {"unread"} /\ ip' = ip + 1
      /\ UNCHANGED <<program, reg, pte, tlb, data, home, mts, child, moves, zapped>>
  BY <1>2 DEF ReadPhysicalPageFails, GoOnWithout, Goto
<1>4. Excused(j)'
  BY <1>1, <1>2, <1>3 DEF Excused, Ended
<1>5. excused \subseteq excused' /\ excused' \subseteq Excuse
  BY <1>3 DEF InvOf, TypeOK, Excuse
<1> QED BY <1>1, <1>2, <1>3, <1>4, <1>5, Tests DEF Passive

LEMMA LoadEntryStep ==
  ASSUME NEW o, NEW homed, InvOf(o, homed), LoadEntry
  PROVE  InvOf(o, homed)'
<1>1. ip < Ended /\ program[ip].op = "load_entry"
  BY DEF LoadEntry, Op
<1>2. PICK k : k = o[ip]
  OBVIOUS
<1>3. LoadEntryRule(arg.w, arg.v, arg.r, k) /\ Holds(k)
  BY <1>1, <1>2, Here DEF Rule, arg
<1>4. PICK ok \in BOOLEAN : ok = (Seen(arg.w).pfn = PT /\ pte[arg.v] = reg[arg.r])
  OBVIOUS
<1>5. "moved" \in excused \/ Seen(arg.w).pfn = PT
  BY <1>3, SeesEntry DEF LoadEntryRule, Is, FrameOf
<1>6. "moved" \in excused \/ "aged" \in excused \/ pte[arg.v] = reg[arg.r]
  BY <1>3 DEF LoadEntryRule, Holds, Same
<1>7. ok \/ Excused(ip)
  BY <1>1, <1>4, <1>5, <1>6 DEF Excused
<1>8. Test(ok)
  BY <1>4 DEF LoadEntry
<1> QED BY <1>1, <1>7, <1>8, TestsOnly DEF Passive

LEMMA PteGetBitStep ==
  ASSUME NEW o, NEW homed, InvOf(o, homed), PteGetBit
  PROVE  InvOf(o, homed)'
<1>1. ip < Ended /\ program[ip].op = "get_bit" /\ pte[arg.v] # None
  BY DEF PteGetBit, Op
<1>2. PICK k : k = o[ip]
  OBVIOUS
<1>3. /\ GetBitRule(arg.v, arg.b, k) /\ arg.on \in BOOLEAN /\ Holds(k)
      /\ IF arg.on THEN arg.b \in k.pte[arg.v].bits ELSE arg.b \notin k.pte[arg.v].bits
  BY <1>1, <1>2, Here DEF Rule, arg
<1>4. PICK ok \in BOOLEAN : ok = (arg.b \in pte[arg.v].bits <=> arg.on)
  OBVIOUS
<1>5. "late" \in excused \/ (arg.b \in pte[arg.v].bits <=> arg.b \in k.pte[arg.v].bits)
  BY <1>1, <1>3 DEF GetBitRule, Holds, EntryIs, ChildIs, Is
<1>6. ok \/ Excused(ip)
  <2>1. "late" \in excused => Excused(ip)
    BY <1>1 DEF Excused
  <2>2. CASE arg.on = TRUE
    BY <1>3, <1>4, <1>5, <2>1, <2>2
  <2>3. CASE arg.on = FALSE
    BY <1>3, <1>4, <1>5, <2>1, <2>3
  <2> QED BY <1>3, <2>2, <2>3
<1>7. Test(ok)
  BY <1>4 DEF PteGetBit
<1> QED BY <1>1, <1>6, <1>7, TestsOnly DEF Passive

LEMMA BehavesStep ==
  ASSUME NEW o, NEW homed, InvOf(o, homed), Behaves
  PROVE  InvOf(o, homed)'
<1>1. ip < Ended /\ program[ip].op = "behaves"
  BY DEF Behaves, Op
<1>2. PICK k : k = o[ip]
  OBVIOUS
<1>3. /\ GetBitRule(arg.v, arg.b, k) /\ arg.on \in BOOLEAN /\ Holds(k)
      /\ Known(k.pte[arg.v]) /\ arg.v \notin k.stale
      /\ IF arg.on THEN arg.b \in k.pte[arg.v].bits ELSE arg.b \notin k.pte[arg.v].bits
  BY <1>1, <1>2, Here DEF Rule, arg
<1>4. PICK ok \in BOOLEAN : ok = (arg.b \in Seen(arg.v).bits <=> arg.on)
  OBVIOUS
<1>5. arg.b \in Seen(arg.v).bits <=> arg.b \in k.pte[arg.v].bits
  BY <1>3 DEF GetBitRule, Holds, EntryIs, Known, Is, Coherent, Seen
<1>6. ok
  <2>1. CASE arg.on = TRUE
    BY <1>3, <1>4, <1>5, <2>1
  <2>2. CASE arg.on = FALSE
    BY <1>3, <1>4, <1>5, <2>2
  <2> QED BY <1>3, <2>1, <2>2
<1>7. Test(ok)
  BY <1>4 DEF Behaves
<1> QED BY <1>1, <1>6, <1>7, TestsOnly DEF Passive

\* The entry of the child that is not there yet: the outline stays right, or there
\* is an excuse.
LEMMA NoEntryStep ==
  ASSUME NEW o, NEW homed, InvOf(o, homed), NoEntry
  PROVE  InvOf(o, homed)'
<1>1. ip < Ended /\ program[ip].op \in {"get_bit", "pte_bit"} /\ pte[arg.v] = None
  BY DEF NoEntry, Op
<1>2. PICK j : j = ip
  OBVIOUS
<1>3. /\ excused' = excused \cup {"late"} /\ ip' = ip + 1
      /\ failed' = failed \/ (failed' = failed \cup {j} /\ program[ip].op = "get_bit")
      /\ UNCHANGED <<program, reg, pte, tlb, data, home, mts, child, moves, zapped>>
  BY <1>2 DEF NoEntry, GoOnWithout, Goto, Op
<1>4. excused \subseteq excused' /\ excused' \subseteq Excuse /\ "late" \in excused'
  BY <1>3 DEF InvOf, TypeOK, Excuse
<1>5. CASE program[ip].op = "get_bit"
  <2>1. Excused(j)'
    BY <1>1, <1>2, <1>3, <1>5 DEF Excused, Ended
  <2> QED BY <1>1, <1>2, <1>3, <1>4, <1>5, <2>1, Tests DEF Passive
<1>6. CASE program[ip].op = "pte_bit"
  <2>1. PICK k : k = o[ip]
    OBVIOUS
  <2>2. PICK t : t = o[ip + 1]
    OBVIOUS
  <2>3. PICK v, x : v = "child_fn" /\ x = Childs(k.pte["child_fn"].bits \ {arg.b, "accessed"})
    OBVIOUS
  <2>4. Holds(k) /\ Steady(homed) /\ TypeOK
    BY <1>1, <2>1, Here DEF InvOf, Follows
  <2>5. v \in VPage /\ ClearChildBitRule(arg.b, k, t, homed) /\ pte[v] = None
    BY <1>1, <1>6, <2>1, <2>2, <2>3, <2>4, Here
       DEF Rule, arg, SetBitRule, ClearBitRule, Holds, EntryIs, Known, Is, VPage
  <2>6. /\ EntrySet(k, t, v, x, homed, k.stale \ {v}) /\ DataKept(k, t)
    BY <2>3, <2>5 DEF ClearChildBitRule
  <2>7. Holds(k)' /\ Steady(homed)'
    BY <1>3, <1>4, <2>4, Untouched, StaysSteady
  <2>8. EntryIs(v, x)'
    BY <1>3, <1>4, <2>3, <2>5 DEF EntryIs, ChildIs, Childs
  <2>9. \A w \in VPage : DataIs(w, t.data[w])'
    BY <2>6, <2>7 DEF DataKept, DataIs, Holds
  <2>10. Coherent(v)'
    BY <1>3, <2>4, <2>5 DEF Steady, CachedMapped, Coherent
  <2>11. \A w \in VPage \ (k.stale \ {v}) : Coherent(w)'
    BY <2>7, <2>10 DEF Holds
  <2>12. Holds(t)'
    <3>1. /\ \A w \in VPage \ {v} : EntryIs(w, k.pte[w])'
          /\ \A r \in Register : RegisterIs(r, k.reg[r])'
          /\ \A r \in Register, w \in VPage \ {v} : <<r, w>> \in k.same => Same(r, w)'
      BY <2>7 DEF Holds
    <3>2. OnlyHomed(homed)'
      BY <2>7 DEF Steady
    <3> QED BY <2>5, <2>6, <2>8, <2>9, <2>11, <3>1, <3>2, EntryChanged
  <2>13. TypeOK'
    BY <1>1, <1>3, <1>4, <1>6, <2>4, Here DEF TypeOK, Ended
  <2>14. failed' = failed
    BY <1>3, <1>6
  <2>15. SelfChecksPass' /\ EditsUndone'
    BY <1>3, <1>4, <2>14, HistoriesStay DEF InvOf
  <2> QED BY <1>3, <2>2, <2>7, <2>12, <2>13, <2>15, Arrive
<1> QED BY <1>1, <1>5, <1>6
\* A register is given an entry that the outline knows.
LEMMA Remembers ==
  ASSUME NEW o, NEW homed, InvOf(o, homed), ip < Ended,
         NEW k, k = o[ip], NEW t, t = o[ip + 1],
         NEW r \in Register, NEW e \in Entry, NEW x, NEW new,
         Remember(r, e), RegisterSet(k, t, r, x, homed, new), Is(e, x),
         \A s \in Register, v \in VPage : <<s, v>> \in new => s = r /\ e = pte[v]
  PROVE  InvOf(o, homed)'
<1>1. /\ Holds(k) /\ reg' = [reg EXCEPT ![r] = e] /\ ip' = ip + 1
      /\ UNCHANGED <<program, pte, tlb, data, home, mts, child, moves, failed, excused,
                     zapped>>
  BY Here DEF Remember, Goto
<1>2. reg \in [Register -> Entry \cup {None}]
  BY DEF InvOf, TypeOK
<1>3. Steady(homed)'
  BY <1>1, StaysSteady DEF InvOf, Follows
<1>4. Holds(t)'
  <2>1. \A v \in VPage : EntryIs(v, k.pte[v])'
    BY <1>1 DEF Holds, EntryIs, ChildIs, Is, Undone, FrameOf
  <2>2. RegisterIs(r, x)'
    BY <1>1, <1>2 DEF RegisterIs, Is, FrameOf
  <2>3. \A s \in Register \ {r} : RegisterIs(s, k.reg[s])'
    BY <1>1, <1>2 DEF Holds, RegisterIs, Is, FrameOf
  <2>4. \A v \in VPage : DataIs(v, k.data[v])'
    BY <1>1 DEF Holds, DataIs
  <2>5. \A v \in VPage \ k.stale : Coherent(v)'
    BY <1>1 DEF Holds, Coherent
  <2>6. \A s \in Register, v \in VPage :
          <<s, v>> \in new \/ (s # r /\ <<s, v>> \in k.same) => Same(s, v)'
    BY <1>1, <1>2 DEF Holds, Same
  <2> QED BY <1>3, <2>1, <2>2, <2>3, <2>4, <2>5, <2>6, RegisterChanged DEF Steady
<1>5. TypeOK'
  BY <1>1, <1>2, Here DEF InvOf, TypeOK, Ended
<1>6. SelfChecksPass' /\ EditsUndone'
  BY <1>1, HistoriesStay DEF InvOf
<1> QED BY <1>1, <1>3, <1>4, <1>5, <1>6, Arrive

LEMMA ResolveStep ==
  ASSUME NEW o, NEW homed, InvOf(o, homed), Resolve
  PROVE  InvOf(o, homed)'
<1>1. ip < Ended /\ program[ip].op \in {"resolve", "resolve_or"}
  BY DEF Resolve, Op
<1>2. PICK k : k = o[ip]
  OBVIOUS
<1>3. PICK t : t = o[ip + 1]
  OBVIOUS
<1>4. PICK r, v, e : r = arg.r /\ v = arg.v /\ e = pte[v]
  OBVIOUS
<1>5. ResolveRule(r, v, k, t, homed) /\ Holds(k)
  BY <1>1, <1>2, <1>3, <1>4, Here DEF Rule, arg
<1>6. Is(e, k.pte[v])
  BY <1>4, <1>5 DEF ResolveRule, Known, Holds, EntryIs
<1>7. e \in Entry
  BY <1>4, <1>5, <1>6 DEF InvOf, TypeOK, Is, ResolveRule
<1>8. Remember(r, e)
  BY <1>4 DEF Resolve
<1> QED BY <1>1, <1>2, <1>3, <1>4, <1>5, <1>6, <1>7, <1>8, Remembers, SMTT(20)
  DEF ResolveRule

LEMMA CopyStep ==
  ASSUME NEW o, NEW homed, InvOf(o, homed), Copy
  PROVE  InvOf(o, homed)'
<1>1. ip < Ended /\ program[ip].op = "copy"
  BY DEF Copy, Op
<1>2. PICK k : k = o[ip]
  OBVIOUS
<1>3. PICK t : t = o[ip + 1]
  OBVIOUS
<1>4. PICK r, s, e : r = arg.r /\ s = arg.s /\ e = reg[s]
  OBVIOUS
<1>5. CopyRule(r, s, k, t, homed) /\ Holds(k)
  BY <1>1, <1>2, <1>3, <1>4, Here DEF Rule, arg
<1>6. Is(e, k.reg[s])
  BY <1>4, <1>5 DEF CopyRule, Known, Holds, RegisterIs
<1>7. e \in Entry
  BY <1>4, <1>5, <1>6 DEF InvOf, TypeOK, Is, CopyRule
<1>8. Remember(r, e)
  BY <1>4 DEF Copy
<1> QED BY <1>1, <1>2, <1>3, <1>5, <1>6, <1>7, <1>8, Remembers, SMTT(20)
  DEF CopyRule

LEMMA SetPfnStep ==
  ASSUME NEW o, NEW homed, InvOf(o, homed), SetPfn
  PROVE  InvOf(o, homed)'
<1>1. ip < Ended /\ program[ip].op = "set_pfn"
  BY DEF SetPfn, Op
<1>2. PICK k : k = o[ip]
  OBVIOUS
<1>3. PICK t : t = o[ip + 1]
  OBVIOUS
<1>4. PICK r, s, e : r = arg.r /\ s = arg.s /\ e = [reg[r] EXCEPT !.pfn = reg[s].pfn]
  OBVIOUS
<1>5. SetPfnRule(r, s, k, t, homed) /\ Holds(k)
  BY <1>1, <1>2, <1>3, <1>4, Here DEF Rule, arg
<1>6. Is(reg[r], k.reg[r]) /\ Is(reg[s], k.reg[s])
  BY <1>5 DEF SetPfnRule, Known, Holds, RegisterIs
<1>7. reg[r] \in Entry /\ reg[s] \in Entry
  BY <1>5, <1>6 DEF InvOf, TypeOK, Is, SetPfnRule
<1>8. e \in Entry /\ e.pfn = reg[s].pfn /\ e.bits = reg[r].bits
  BY <1>4, <1>7 DEF Entry
<1>9. e # None
  BY <1>8, DemosAssumption
<1>10. Is(e, Maps(k.reg[s].to, k.reg[r].bits))
  BY <1>6, <1>8, <1>9 DEF Is, Maps, FrameOf
<1>11. Remember(r, e)
  BY <1>4 DEF SetPfn
<1> QED BY <1>1, <1>2, <1>3, <1>5, <1>8, <1>10, <1>11, Remembers, SMTT(20)
  DEF SetPfnRule

LEMMA ApplyMtStep ==
  ASSUME NEW o, NEW homed, InvOf(o, homed), ApplyMt
  PROVE  InvOf(o, homed)'
<1>1. ip < Ended /\ program[ip].op = "apply_mt"
  BY DEF ApplyMt, Op
<1>2. PICK k : k = o[ip]
  OBVIOUS
<1>3. PICK t : t = o[ip + 1]
  OBVIOUS
<1>4. PICK r, m, e : /\ r = arg.r /\ m = arg.m
                     /\ e = [reg[r] EXCEPT !.bits = IF m = "uc" THEN @ \cup {"uc"}
                                                    ELSE @ \ {"uc"}]
  OBVIOUS
<1>5. ApplyMtRule(r, m, k, t, homed) /\ Holds(k)
  BY <1>1, <1>2, <1>3, <1>4, Here DEF Rule, arg
<1>6. Is(reg[r], k.reg[r])
  BY <1>5 DEF ApplyMtRule, Known, Holds, RegisterIs
<1>7. reg[r] \in Entry
  BY <1>5, <1>6 DEF InvOf, TypeOK, Is, ApplyMtRule
<1>8. /\ e \in Entry /\ e.pfn = reg[r].pfn
      /\ e.bits = IF m = "uc" THEN reg[r].bits \cup {"uc"} ELSE reg[r].bits \ {"uc"}
  BY <1>4, <1>7 DEF Entry, Bit
<1>9. Is(e, WithMt(k.reg[r], m))
  BY <1>6, <1>8, DemosAssumption DEF Is, Maps, WithMt, FrameOf
<1>10. Remember(r, e)
  BY <1>4 DEF ApplyMt
<1> QED BY <1>1, <1>2, <1>3, <1>5, <1>8, <1>9, <1>10, Remembers, SMTT(20)
  DEF ApplyMtRule

\* The entry of v is given a value that the outline knows, and the TLB is told, or
\* it has nothing of v, or the outline says that it may be stale.
LEMMA Edits ==
  ASSUME NEW o, NEW homed, InvOf(o, homed), ip < Ended,
         NEW k, k = o[ip], NEW t, t = o[ip + 1],
         NEW v \in VPage, NEW e \in Entry, NEW x, NEW stale, NEW cache,
         Edit([pte EXCEPT ![v] = e], cache),
         \/ cache = Flushed(v)
         \/ cache = tlb /\ (pte[v] = None \/ (v \in stale /\ v # "child_fn")),
         k.stale \subseteq stale \cup {v}, v # "child_fn" \/ pte[v] # None,
         EntrySet(k, t, v, x, homed, stale), DataKept(k, t),
         (Known(x) /\ Is(e, x)) \/ (x.kind = "child" /\ ChildIs(v, e, x))
  PROVE  InvOf(o, homed)'
<1>1. /\ Holds(k) /\ pte' = [pte EXCEPT ![v] = e] /\ tlb' = cache /\ ip' = ip + 1
      /\ UNCHANGED <<program, reg, data, home, mts, child, moves, failed, excused,
                     zapped>>
  BY Here DEF Edit, Goto
<1>2. /\ pte \in [VPage -> Entry \cup {None}] /\ tlb \in [VPage -> Entry \cup {None}]
      /\ e # None /\ Steady(homed)
  BY DemosAssumption DEF InvOf, TypeOK, Follows
<1>3. /\ tlb' \in [VPage -> Entry \cup {None}]
      /\ \A w \in VPage \ {v} : tlb'[w] = tlb[w]
      /\ tlb'[v] = None \/ (v \in stale /\ v # "child_fn")
  BY <1>1, <1>2 DEF Flushed, Steady, CachedMapped
<1>4. /\ pte' \in [VPage -> Entry \cup {None}]
      /\ \A w \in VPage \ {v} : pte'[w] = pte[w]
      /\ pte'[v] = e
  BY <1>1, <1>2
<1>5. Steady(homed)'
  <2>1. FramesApart' /\ OnlyHomed(homed)'
    BY <1>1, <1>2 DEF Steady, FramesApart, OnlyHomed
  <2>2. CachedMapped'
    BY <1>2, <1>3, <1>4 DEF Steady, CachedMapped
  <2>4. ChildWaits(homed)'
    BY <1>1, <1>2, <1>4 DEF Steady, ChildWaits, VPage
  <2>3. ChildReady'
    BY <1>1, <1>2, <1>3, <1>4 DEF Steady, ChildReady, Coherent, VPage
  <2> QED BY <2>1, <2>2, <2>3, <2>4 DEF Steady
<1>6. Holds(t)'
  <2>1. EntryIs(v, x)'
    BY <1>1, <1>4 DEF EntryIs, ChildIs, Is, FrameOf, Known
  <2>2. \A w \in VPage \ {v} : EntryIs(w, k.pte[w])'
    BY <1>1, <1>4 DEF Holds, EntryIs, ChildIs, Is, Undone, FrameOf
  <2>3. \A r \in Register : RegisterIs(r, k.reg[r])'
    BY <1>1 DEF Holds, RegisterIs, Is, FrameOf
  <2>4. \A w \in VPage : DataIs(w, t.data[w])'
    BY <1>1 DEF Holds, DataIs, DataKept
  <2>5. \A w \in VPage \ stale : Coherent(w)'
    BY <1>1, <1>3, <1>4 DEF Holds, Coherent
  <2>6. \A r \in Register, w \in VPage \ {v} : <<r, w>> \in k.same => Same(r, w)'
    BY <1>1, <1>4 DEF Holds, Same
  <2> QED BY <1>5, <2>1, <2>2, <2>3, <2>4, <2>5, <2>6, EntryChanged DEF Steady
<1>7. TypeOK'
  BY <1>1, <1>3, <1>4, Here DEF InvOf, TypeOK, Ended
<1>8. SelfChecksPass' /\ EditsUndone'
  BY <1>1, HistoriesStay DEF InvOf
<1> QED BY <1>1, <1>5, <1>6, <1>7, <1>8, Arrive

LEMMA UpdateStep ==
  ASSUME NEW o, NEW homed, InvOf(o, homed), Update
  PROVE  InvOf(o, homed)'
<1>1. ip < Ended /\ program[ip].op = "update"
  BY DEF Update, Op
<1>2. PICK k : k = o[ip]
  OBVIOUS
<1>3. PICK t : t = o[ip + 1]
  OBVIOUS
<1>4. PICK v, r, e, cache : v = arg.v /\ r = arg.r /\ e = reg[r] /\ cache = Flushed(v)
  OBVIOUS
<1>5. UpdateRule(v, r, k, t, homed) /\ Holds(k)
  BY <1>1, <1>2, <1>3, <1>4, Here DEF Rule, arg
<1>6. Is(e, k.reg[r])
  BY <1>4, <1>5 DEF UpdateRule, Known, Holds, RegisterIs
<1>7. e \in Entry
  BY <1>4, <1>5, <1>6 DEF InvOf, TypeOK, Is, UpdateRule
<1>8. Edit([pte EXCEPT ![v] = e], cache)
  BY <1>4 DEF Update
<1>9. k.stale \subseteq (k.stale \ {v}) \cup {v}
  OBVIOUS
<1> QED BY <1>1, <1>2, <1>3, <1>4, <1>5, <1>6, <1>7, <1>8, <1>9, Edits DEF UpdateRule

LEMMA PteSetPfnStep ==
  ASSUME NEW o, NEW homed, InvOf(o, homed), PteSetPfn
  PROVE  InvOf(o, homed)'
<1>1. ip < Ended /\ program[ip].op = "pte_set_pfn"
  BY DEF PteSetPfn, Op
<1>2. PICK k : k = o[ip]
  OBVIOUS
<1>3. PICK t : t = o[ip + 1]
  OBVIOUS
<1>4. PICK v, r, e, x, cache : /\ v = arg.v /\ r = arg.r /\ cache = Flushed(v)
                               /\ e = [pte[v] EXCEPT !.pfn = reg[r].pfn]
                               /\ x = Maps(k.reg[r].to, k.pte[v].bits)
  OBVIOUS
<1>5. PteSetPfnRule(v, r, k, t, homed) /\ Holds(k)
  BY <1>1, <1>2, <1>3, <1>4, Here DEF Rule, arg
<1>6. Is(pte[v], k.pte[v]) /\ Is(reg[r], k.reg[r])
  BY <1>5 DEF PteSetPfnRule, Known, Holds, RegisterIs, EntryIs
<1>7. pte[v] \in Entry /\ reg[r] \in Entry
  BY <1>5, <1>6 DEF InvOf, TypeOK, Is, PteSetPfnRule
<1>8. e \in Entry /\ e.pfn = reg[r].pfn /\ e.bits = pte[v].bits
  BY <1>4, <1>7 DEF Entry
<1>9. Is(e, x) /\ Known(x)
  BY <1>4, <1>6, <1>8, DemosAssumption DEF Is, Maps, FrameOf, Known
<1>10. Edit([pte EXCEPT ![v] = e], cache)
  BY <1>4 DEF PteSetPfn
<1>11. k.stale \subseteq (k.stale \ {v}) \cup {v}
  OBVIOUS
<1>12. /\ v \in VPage /\ EntrySet(k, t, v, x, homed, k.stale \ {v})
       /\ DataKept(k, t) /\ cache = Flushed(v) /\ e \in Entry /\ pte[v] # None
  BY <1>4, <1>5, <1>6, <1>8 DEF PteSetPfnRule, Is
<1> QED BY <1>1, <1>2, <1>3, <1>9, <1>10, <1>11, <1>12, Edits

LEMMA PteBitStep ==
  ASSUME NEW o, NEW homed, InvOf(o, homed), PteBit
  PROVE  InvOf(o, homed)'
<1>1. ip < Ended /\ program[ip].op = "pte_bit" /\ pte[arg.v] # None
  BY DEF PteBit, Op
<1>2. PICK k : k = o[ip]
  OBVIOUS
<1>3. PICK t : t = o[ip + 1]
  OBVIOUS
<1>4. PICK v, b, e, x, cache :
        /\ v = arg.v /\ b = arg.b /\ cache = Flushed(v)
        /\ e = [pte[v] EXCEPT !.bits = IF arg.on THEN @ \cup {b} ELSE @ \ {b}]
        /\ x = IF arg.on THEN WithBit(k.pte[v], b)
               ELSE IF v = "child_fn" THEN Childs(k.pte[v].bits \ {b, "accessed"})
               ELSE WithoutBit(k.pte[v], b)
  OBVIOUS
<1>5. /\ v \in VPage /\ b \in Bit /\ Holds(k)
      /\ IF ~arg.on /\ v = "child_fn" THEN k.pte[v].kind = "child" ELSE Known(k.pte[v])
      /\ EntrySet(k, t, v, x, homed, k.stale \ {v}) /\ DataKept(k, t)
  BY <1>1, <1>2, <1>3, <1>4, Here DEF Rule, arg, SetBitRule, ClearBitRule,
     ClearChildBitRule, VPage
<1>6. pte[v] # None
  BY <1>1, <1>4
<1>7. pte[v] \in Entry
  BY <1>5, <1>6 DEF InvOf, TypeOK
<1>8. /\ e \in Entry /\ e.pfn = pte[v].pfn
      /\ e.bits = IF arg.on THEN pte[v].bits \cup {b} ELSE pte[v].bits \ {b}
  BY <1>4, <1>5, <1>7 DEF Entry
<1>9. (Known(x) /\ Is(e, x)) \/ (x.kind = "child" /\ ChildIs(v, e, x))
  <2>1. CASE ~arg.on /\ v = "child_fn"
    <3>1. ChildIs(v, pte[v], k.pte[v]) /\ x = Childs(k.pte[v].bits \ {b, "accessed"})
      BY <1>4, <1>5, <2>1 DEF Holds, EntryIs
    <3>2. x.kind = "child" /\ x.bits = k.pte[v].bits \ {b, "accessed"} /\ e # None
      BY <1>8, <3>1, DemosAssumption DEF Childs
    <3>3. e.pfn = pte[v].pfn /\ e.bits = pte[v].bits \ {b}
      BY <1>8, <2>1
    <3> QED BY <1>6, <3>1, <3>2, <3>3 DEF ChildIs
  <2>2. CASE arg.on \/ v # "child_fn"
    <3>1. Is(pte[v], k.pte[v])
      BY <1>5, <2>2 DEF Known, Holds, EntryIs
    <3>2. x = IF arg.on THEN WithBit(k.pte[v], b) ELSE WithoutBit(k.pte[v], b)
      BY <1>4, <2>2
    <3> QED BY <1>8, <3>1, <3>2, DemosAssumption
           DEF Is, WithBit, WithoutBit, Maps, FrameOf, Known
  <2> QED BY <2>1, <2>2
<1>10. Edit([pte EXCEPT ![v] = e], cache)
  BY <1>4 DEF PteBit
<1>11. k.stale \subseteq (k.stale \ {v}) \cup {v} /\ cache = Flushed(v)
  BY <1>4
<1>12. e \in Entry /\ pte[v] # None
  BY <1>6, <1>8
<1> QED BY <1>1, <1>2, <1>3, <1>5, <1>9, <1>10, <1>11, <1>12, Edits

LEMMA PmapStep ==
  ASSUME NEW o, NEW homed, InvOf(o, homed), Pmap
  PROVE  InvOf(o, homed)'
<1>1. ip < Ended /\ program[ip].op = "pmap"
  BY DEF Pmap, Op
<1>2. PICK k : k = o[ip]
  OBVIOUS
<1>3. PICK t : t = o[ip + 1]
  OBVIOUS
<1>4. PICK v, r, e, x, cache : /\ v = arg.v /\ r = arg.r /\ cache = tlb
                               /\ e = [pfn |-> reg[r].pfn, bits |-> {}]
                               /\ x = Maps(k.reg[r].to, {})
  OBVIOUS
<1>5. PmapRule(v, r, k, t, homed) /\ Holds(k)
  BY <1>1, <1>2, <1>3, <1>4, Here DEF Rule, arg
<1>6. Is(reg[r], k.reg[r]) /\ pte[v] = None
  BY <1>5 DEF PmapRule, Known, Holds, RegisterIs, EntryIs
<1>7. reg[r] \in Entry
  BY <1>5, <1>6 DEF InvOf, TypeOK, Is, PmapRule
<1>8. e \in Entry /\ e.pfn = reg[r].pfn /\ e.bits = {}
  BY <1>4, <1>7 DEF Entry
<1>9. Is(e, x) /\ Known(x)
  BY <1>4, <1>6, <1>8, DemosAssumption DEF Is, Maps, FrameOf, Known
<1>10. Edit([pte EXCEPT ![v] = e], cache)
  BY <1>4 DEF Pmap
<1>11. /\ v \in VPage /\ EntrySet(k, t, v, x, homed, k.stale) /\ DataKept(k, t)
       /\ k.stale \subseteq k.stale \cup {v} /\ v # "child_fn"
  BY <1>4, <1>5 DEF PmapRule
<1> QED BY <1>1, <1>2, <1>3, <1>4, <1>6, <1>8, <1>9, <1>10, <1>11, Edits

LEMMA StoreEntryStep ==
  ASSUME NEW o, NEW homed, InvOf(o, homed), StoreEntry
  PROVE  InvOf(o, homed)'
<1>1. ip < Ended /\ program[ip].op \in {"store_entry", "store_pfn"}
  BY DEF StoreEntry, Op
<1>2. PICK k : k = o[ip]
  OBVIOUS
<1>3. PICK t : t = o[ip + 1]
  OBVIOUS
<1>4. PICK v, r, stale, cache : /\ v = arg.v /\ r = arg.r /\ cache = tlb
                                /\ stale = k.stale \cup {v}
  OBVIOUS
<1>5. CASE program[ip].op = "store_entry"
  <2>1. PICK e : e = reg[r]
    OBVIOUS
  <2>2. StoreEntryRule(v, r, k, t, homed) /\ Holds(k)
    BY <1>1, <1>2, <1>3, <1>4, <1>5, Here DEF Rule, arg
  <2>3. Is(e, k.reg[r])
    BY <2>1, <2>2 DEF StoreEntryRule, Known, Holds, RegisterIs
  <2>4. e \in Entry
    BY <2>1, <2>2, <2>3 DEF InvOf, TypeOK, Is, StoreEntryRule
  <2>5. Edit([pte EXCEPT ![v] = e], cache)
    BY <1>4, <1>5, <2>1 DEF StoreEntry, Op
  <2>6. /\ v \in VPage /\ v # "child_fn" /\ v \in stale /\ k.stale \subseteq stale \cup {v}
        /\ EntrySet(k, t, v, k.reg[r], homed, stale) /\ DataKept(k, t) /\ Known(k.reg[r])
    BY <1>4, <2>2 DEF StoreEntryRule
  <2> QED BY <1>1, <1>2, <1>3, <1>4, <2>3, <2>4, <2>5, <2>6, Edits
<1>6. CASE program[ip].op = "store_pfn"
  <2>1. PICK e, x : /\ e = [pte[v] EXCEPT !.pfn = reg[r].pfn]
                    /\ x = Maps(k.reg[r].to, k.pte[v].bits)
    OBVIOUS
  <2>2. StorePfnRule(v, r, k, t, homed) /\ Holds(k)
    BY <1>1, <1>2, <1>3, <1>4, <1>6, Here DEF Rule, arg
  <2>3. Is(pte[v], k.pte[v]) /\ Is(reg[r], k.reg[r])
    BY <2>2 DEF StorePfnRule, Known, Holds, RegisterIs, EntryIs
  <2>4. pte[v] \in Entry /\ reg[r] \in Entry
    BY <2>2, <2>3 DEF InvOf, TypeOK, Is, StorePfnRule
  <2>5. e \in Entry /\ e.pfn = reg[r].pfn /\ e.bits = pte[v].bits
    BY <2>1, <2>4 DEF Entry
  <2>6. Is(e, x) /\ Known(x)
    BY <2>1, <2>3, <2>5, DemosAssumption DEF Is, Maps, FrameOf, Known
  <2>7. Edit([pte EXCEPT ![v] = e], cache)
    BY <1>4, <1>6, <1>1, <2>1 DEF StoreEntry, Op
  <2>8. /\ v \in VPage /\ v # "child_fn" /\ v \in stale /\ k.stale \subseteq stale \cup {v}
        /\ EntrySet(k, t, v, x, homed, stale) /\ DataKept(k, t)
    BY <1>4, <2>1, <2>2 DEF StorePfnRule
  <2> QED BY <1>1, <1>2, <1>3, <1>4, <2>5, <2>6, <2>7, <2>8, Edits
<1> QED BY <1>1, <1>5, <1>6

LEMMA BarrierStep ==
  ASSUME NEW o, NEW homed, InvOf(o, homed), Barrier
  PROVE  InvOf(o, homed)'
<1>1. ip < Ended /\ program[ip].op = "barrier"
  BY DEF Barrier, Op
<1>2. /\ ip' = ip + 1
      /\ UNCHANGED <<program, reg, pte, tlb, data, home, mts, child, moves, failed,
                     excused, zapped>>
  BY DEF Barrier, Edit, Goto
<1>3. ip' \in 1..Ended /\ Weaker(o[ip], o[ip'], homed, "-")
  BY <1>1, <1>2, Here DEF Rule, Passive
<1> QED BY <1>1, <1>2, <1>3, GoesOnPlainly

LEMMA InvalidateTlbStep ==
  ASSUME NEW o, NEW homed, InvOf(o, homed), InvalidateTlb
  PROVE  InvOf(o, homed)'
<1>1. ip < Ended /\ program[ip].op = "invalidate"
  BY DEF InvalidateTlb, Op
<1>2. PICK k : k = o[ip]
  OBVIOUS
<1>3. PICK t : t = o[ip + 1]
  OBVIOUS
<1>4. PICK v : v = arg.v
  OBVIOUS
<1>5. InvalidateRule(v, k, t, homed) /\ Holds(k)
  BY <1>1, <1>2, <1>3, <1>4, Here DEF Rule, arg
<1>6. /\ tlb' = [tlb EXCEPT ![v] = None] /\ ip' = ip + 1
      /\ UNCHANGED <<program, reg, pte, data, home, mts, child, moves, failed, excused,
                     zapped>>
  BY <1>4 DEF InvalidateTlb, Edit, Flushed, Goto
<1>7. /\ tlb' \in [VPage -> Entry \cup {None}] /\ tlb'[v] = None
      /\ \A w \in VPage \ {v} : tlb'[w] = tlb[w]
  BY <1>5, <1>6 DEF InvOf, TypeOK, InvalidateRule
<1>8. Steady(homed)'
  BY <1>6, <1>7
     DEF InvOf, Follows, Steady, FramesApart, CachedMapped, OnlyHomed, ChildReady,
         ChildWaits, Coherent, VPage
<1>9. Holds(t)'
  <2>1. \A w \in VPage : EntryIs(w, k.pte[w])'
    BY <1>5, <1>6 DEF Holds, EntryIs, ChildIs, Is, Undone, FrameOf
  <2>2. \A w \in VPage : EntryIs(w, t.pte[w])'
    BY <1>5, <1>8, <2>1, LeaveClaim DEF InvalidateRule, EntriesKept, Steady
  <2>3. \A r \in Register : RegisterIs(r, t.reg[r])'
    BY <1>5, <1>6 DEF InvalidateRule, RegistersKept, Holds, RegisterIs, Is, FrameOf, Unknown
  <2>4. \A w \in VPage : DataIs(w, t.data[w])'
    BY <1>5, <1>6 DEF InvalidateRule, Holds, DataIs, DataKept
  <2>5. \A w \in VPage \ t.stale : Coherent(w)'
    BY <1>5, <1>6, <1>7 DEF InvalidateRule, Holds, Coherent
  <2>6. \A r \in Register, w \in VPage : <<r, w>> \in t.same => Same(r, w)'
    BY <1>5, <1>6 DEF InvalidateRule, Holds, Same
  <2> QED BY <2>2, <2>3, <2>4, <2>5, <2>6 DEF Holds
<1>10. TypeOK'
  BY <1>1, <1>6, <1>7, Here DEF InvOf, TypeOK, Ended
<1>11. SelfChecksPass' /\ EditsUndone'
  BY <1>6, HistoriesStay DEF InvOf
<1> QED BY <1>3, <1>6, <1>8, <1>9, <1>10, <1>11, Arrive

LEMMA MmapStep ==
  ASSUME NEW o, NEW homed, InvOf(o, homed), NEW f \in Frame, Mmap(f)
  PROVE  InvOf(o, homed)'
<1>1. ip < Ended /\ program[ip].op \in {"mmap", "mmap_huge"}
  BY DEF Mmap, Op
<1>2. PICK k : k = o[ip]
  OBVIOUS
<1>3. PICK t : t = o[ip + 1]
  OBVIOUS
<1>4. PICK v, e, x : /\ v = arg.v /\ e = [pfn |-> f, bits |-> {"accessed"}]
                     /\ x = Maps(v, {})
  OBVIOUS
<1>5. PICK c, d : /\ c = (IF program[ip].op = "mmap" THEN arg.c ELSE "?")
                  /\ d = (IF program[ip].op = "mmap" THEN c ELSE "-")
  OBVIOUS
<1>6. /\ v \in VPage /\ v \in homed /\ v # "child_fn" /\ Fresh(v, k) /\ Holds(k)
      /\ EntrySet(k, t, v, x, homed, k.stale) /\ DataSet(k, t, v, d)
      /\ c \in Letter /\ d \in {c, "-"}
  BY <1>1, <1>2, <1>3, <1>4, <1>5, Here DEF Rule, arg, MmapRule, Letter
<1>7. /\ f \notin Used /\ home' = [home EXCEPT ![v] = f]
      /\ data' = [data EXCEPT ![f] = c] /\ pte' = [pte EXCEPT ![v] = e]
      /\ ip' = ip + 1
      /\ UNCHANGED <<program, reg, tlb, mts, child, moves, failed, excused, zapped>>
  BY <1>1, <1>4, <1>5 DEF Mmap, Op, Goto
<1>8. /\ TypeOK /\ Steady(homed) /\ e \in Entry /\ e # None
      /\ e.pfn = f /\ e.bits = {"accessed"}
  BY <1>4, DemosAssumption DEF InvOf, Follows, Entry, Bit
<1>9. /\ home' \in [VPage -> Frame \cup {None}] /\ home'[v] = f /\ f # None
      /\ \A w \in VPage \ {v} : home'[w] = home[w] /\ home[w] # f
  BY <1>6, <1>7, <1>8, DemosAssumption DEF TypeOK, Used
<1>10. /\ pte' \in [VPage -> Entry \cup {None}] /\ pte'[v] = e
       /\ \A w \in VPage \ {v} : pte'[w] = pte[w]
  BY <1>6, <1>7, <1>8 DEF TypeOK
<1>11. /\ data' \in [Frame -> Letter] /\ data'[f] = c
       /\ \A g \in Frame \ {f} : data'[g] = data[g]
  BY <1>6, <1>7, <1>8 DEF TypeOK
<1>12. pte[v] = None /\ tlb[v] = None
  BY <1>6, <1>8 DEF Fresh, Holds, EntryIs, Steady, CachedMapped
<1>13. Steady(homed)'
  <2>1. FramesApart'
    BY <1>8, <1>9 DEF Steady, FramesApart
  <2>2. CachedMapped'
    BY <1>7, <1>8, <1>10 DEF Steady, CachedMapped
  <2>3. OnlyHomed(homed)'
    BY <1>6, <1>8, <1>9 DEF Steady, OnlyHomed
  <2>4. ChildReady'
    BY <1>7, <1>8, <1>10, <1>12 DEF Steady, ChildReady, Coherent, VPage
  <2>5. ChildWaits(homed)'
    BY <1>6, <1>7, <1>8, <1>9, <1>10 DEF Steady, ChildWaits, VPage
  <2> QED BY <2>1, <2>2, <2>3, <2>4, <2>5 DEF Steady
<1>14. Holds(t)'
  <2>0. v # "table"
    BY <1>6 DEF VPage
  <2>1. EntryIs(v, x)'
    BY <1>4, <1>8, <1>9, <1>10, <2>0 DEF EntryIs, ChildIs, Is, FrameOf, Maps
  <2>2. ASSUME NEW w \in VPage \ {v}
        PROVE  EntryIs(w, k.pte[w])'
    <3>1. EntryIs(w, k.pte[w]) /\ (Known(k.pte[w]) => k.pte[w].to # v)
      BY <1>6 DEF Holds, Fresh
    <3>2. k.pte[w].to \in VPage \cup {"table"}
      BY <1>1, <1>2, Here DEF Knowledge, Claim
    <3> QED BY <3>1, <3>2, <1>7, <1>9, <1>10 DEF EntryIs, ChildIs, Is, Undone, FrameOf, Known
  <2>3. ASSUME NEW r \in Register
        PROVE  RegisterIs(r, k.reg[r])'
    <3>1. RegisterIs(r, k.reg[r]) /\ (Known(k.reg[r]) => k.reg[r].to # v)
      BY <1>6 DEF Holds, Fresh
    <3>2. k.reg[r].to \in VPage \cup {"table"}
      BY <1>1, <1>2, Here DEF Knowledge, Claim
    <3> QED BY <3>1, <3>2, <1>7, <1>9 DEF RegisterIs, Is, FrameOf, Known
  <2>4. ASSUME NEW w \in VPage
        PROVE  DataIs(w, t.data[w])'
    <3>1. CASE w = v
      BY <3>1, <1>6, <1>9, <1>11 DEF DataSet, DataIs
    <3>2. CASE w # v
      <4>1. DataIs(w, k.data[w]) /\ (t.data[w] = "-" \/ t.data[w] = k.data[w])
        BY <3>2, <1>6 DEF Holds, DataSet
      <4>2. home[w] # None => home[w] \in Frame \ {f}
        BY <3>2, <1>8, <1>9 DEF TypeOK
      <4> QED BY <3>2, <4>1, <4>2, <1>7, <1>9, <1>11 DEF DataIs
    <3> QED BY <3>1, <3>2
  <2>5. \A w \in VPage \ k.stale : Coherent(w)'
    BY <1>6, <1>7, <1>10, <1>12 DEF Holds, Coherent
  <2>6. \A r \in Register, w \in VPage \ {v} : <<r, w>> \in k.same => Same(r, w)'
    BY <1>6, <1>7, <1>10 DEF Holds, Same
  <2> QED BY <1>6, <1>13, <2>1, <2>2, <2>3, <2>4, <2>5, <2>6, EntryChanged DEF Steady
<1>15. TypeOK'
  BY <1>1, <1>7, <1>8, <1>9, <1>10, <1>11, Here DEF TypeOK, Ended
<1>16. SelfChecksPass' /\ EditsUndone'
  BY <1>7, HistoriesStay DEF InvOf
<1> QED BY <1>3, <1>7, <1>13, <1>14, <1>15, <1>16, Arrive

LEMMA ForkStep ==
  ASSUME NEW o, NEW homed, InvOf(o, homed), Fork
  PROVE  InvOf(o, homed)'
<1>1. ip < Ended /\ program[ip].op = "fork"
  BY DEF Fork, Op
<1>2. PICK k : k = o[ip]
  OBVIOUS
<1>3. PICK t : t = o[ip + 1]
  OBVIOUS
<1>4. PICK v, x : v = "child_fn" /\ x = Childs({"nx"})
  OBVIOUS
<1>5. /\ {"fn", "child_fn"} \subseteq homed /\ k.pte[v].kind = "none" /\ Holds(k)
      /\ Known(k.pte["fn"]) /\ k.pte["fn"].to = "fn"
      /\ EntrySet(k, t, v, x, homed, k.stale) /\ DataKept(k, t)
  BY <1>1, <1>2, <1>3, <1>4, Here DEF Rule, ForkRule
<1>6. /\ ip' = ip + 1 /\ child' = "started"
      /\ UNCHANGED <<program, reg, pte, tlb, data, home, mts, moves, failed, excused,
                     zapped>>
  BY DEF Fork, Goto
<1>7. v \in VPage /\ "fn" \in VPage
  BY <1>4 DEF VPage
<1>8. /\ TypeOK /\ Steady(homed) /\ home["fn"] # None
      /\ pte[v] = None /\ child = "none"
  BY <1>4, <1>5, <1>7 DEF InvOf, Follows, Holds, EntryIs, Known, Is
<1>9. Steady(homed)'
  BY <1>4, <1>5, <1>6, <1>8
     DEF Steady, FramesApart, CachedMapped, OnlyHomed, ChildWaits, ChildReady
<1>10. Holds(t)'
  <2>1. EntryIs(v, x)'
    BY <1>4, <1>6, <1>8 DEF EntryIs, ChildIs, Childs
  <2>2. \A w \in VPage \ {v} : EntryIs(w, k.pte[w])'
    BY <1>4, <1>5, <1>6 DEF Holds, EntryIs, ChildIs, Is, Undone, FrameOf
  <2>3. \A r \in Register : RegisterIs(r, k.reg[r])'
    BY <1>5, <1>6 DEF Holds, RegisterIs, Is, FrameOf
  <2>4. \A w \in VPage : DataIs(w, t.data[w])'
    BY <1>5, <1>6 DEF DataKept, DataIs, Holds
  <2>5. \A w \in VPage \ k.stale : Coherent(w)'
    BY <1>5, <1>6 DEF Holds, Coherent
  <2>6. \A r \in Register, w \in VPage \ {v} : <<r, w>> \in k.same => Same(r, w)'
    BY <1>5, <1>6 DEF Holds, Same
  <2> QED BY <1>5, <1>7, <1>9, <2>1, <2>2, <2>3, <2>4, <2>5, <2>6, EntryChanged DEF Steady
<1>11. TypeOK'
  BY <1>1, <1>6, <1>8, Here DEF TypeOK, Ended
<1>12. SelfChecksPass' /\ EditsUndone'
  BY <1>6, HistoriesStay DEF InvOf
<1> QED BY <1>3, <1>6, <1>9, <1>10, <1>11, <1>12, Arrive

\* The child gets its entry, as the outline expects it unless the child is late.
LEMMA ChildAccessStep ==
  ASSUME NEW o, NEW homed, InvOf(o, homed), ChildAccess
  PROVE  InvOf(o, homed)'
<1>1. PICK k : k = o[ip]
  OBVIOUS
<1>2. PICK v, e : v = "child_fn" /\ e = [pfn |-> home["fn"], bits |-> {"accessed", "nx"}]
  OBVIOUS
<1>3. /\ child = "started" /\ child' = "sleeping" /\ pte' = [pte EXCEPT ![v] = e]
      /\ home' = [home EXCEPT ![v] = home["fn"]]
      /\ UNCHANGED <<program, ip, reg, tlb, data, mts, moves, failed, excused, zapped>>
  BY <1>2 DEF ChildAccess
<1>4. v \in VPage /\ "fn" \in VPage /\ v # "fn" /\ v # "table" /\ v # "address"
  BY <1>2 DEF VPage
<1>5. TypeOK /\ Steady(homed) /\ Holds(k) /\ k \in Knowledge
  BY <1>1 DEF InvOf, Follows, Outlined, TypeOK, Ended
<1>6. /\ home[v] = None /\ pte[v] = None /\ tlb[v] = None /\ home["fn"] \in Frame
      /\ {"fn", "child_fn"} \subseteq homed /\ home["fn"] # None
  BY <1>2, <1>3, <1>4, <1>5 DEF TypeOK, Steady, ChildWaits, CachedMapped
<1>7. e \in Entry /\ e # None /\ e.pfn = home["fn"] /\ e.bits = {"accessed", "nx"}
  BY <1>2, <1>6, DemosAssumption DEF Entry, Bit
<1>8. /\ home' \in [VPage -> Frame \cup {None}] /\ home'[v] = home["fn"]
      /\ \A w \in VPage \ {v} : home'[w] = home[w]
  BY <1>3, <1>4, <1>5, <1>6 DEF TypeOK
<1>9. /\ pte' \in [VPage -> Entry \cup {None}] /\ pte'[v] = e
      /\ \A w \in VPage \ {v} : pte'[w] = pte[w]
  BY <1>3, <1>4, <1>5, <1>7 DEF TypeOK
<1>10. Steady(homed)'
  <2>1. FramesApart'
    BY <1>2, <1>4, <1>5, <1>8 DEF Steady, FramesApart
  <2>2. CachedMapped'
    BY <1>3, <1>5, <1>7, <1>9 DEF Steady, CachedMapped
  <2>3. OnlyHomed(homed)'
    BY <1>2, <1>5, <1>6, <1>8 DEF Steady, OnlyHomed
  <2>4. ChildReady'
    BY <1>2, <1>3, <1>6, <1>7, <1>9 DEF ChildReady, Coherent
  <2>5. ChildWaits(homed)'
    BY <1>3 DEF ChildWaits
  <2> QED BY <2>1, <2>2, <2>3, <2>4, <2>5 DEF Steady
<1>11. Holds(k)'
  <2>1. ASSUME NEW w \in VPage
        PROVE  EntryIs(w, k.pte[w])'
    <3>1. EntryIs(w, k.pte[w])
      BY <1>5 DEF Holds
    <3>2. CASE w = v
      <4>1. k.pte[v].kind # "none" /\ k.pte[v].kind # "maps"
        BY <1>2, <1>3, <1>6, <3>1, <3>2 DEF EntryIs, Is
      <4>2. k.pte[v].kind = "child" => ChildIs(v, pte[v], k.pte[v])'
        BY <1>3, <1>6, <1>7, <1>8, <1>9, <3>1, <3>2 DEF EntryIs, ChildIs
      <4>3. Undone(v)'
        BY <1>7, <1>8, <1>9 DEF Undone
      <4> QED BY <3>2, <4>1, <4>2, <4>3 DEF EntryIs
    <3>3. CASE w # v
      <4>1. Is(pte[w], k.pte[w]) => Is(pte[w], k.pte[w])'
        <5>1. k.pte[w].to \in VPage \cup {"table"}
          BY <1>5 DEF Knowledge, Claim
        <5> QED BY <1>3, <1>6, <1>8, <1>9, <3>3, <5>1 DEF Is, FrameOf
      <4> QED BY <1>2, <1>3, <1>8, <1>9, <3>1, <3>3, <4>1 DEF EntryIs, ChildIs, Undone
    <3> QED BY <3>2, <3>3
  <2>2. ASSUME NEW r \in Register
        PROVE  RegisterIs(r, k.reg[r])'
    <3>1. RegisterIs(r, k.reg[r]) /\ k.reg[r].to \in VPage \cup {"table"}
      BY <1>5 DEF Holds, Knowledge, Claim
    <3> QED BY <3>1, <1>3, <1>6, <1>8 DEF RegisterIs, Is, FrameOf
  <2>3. \A w \in VPage : DataIs(w, k.data[w])'
    BY <1>3, <1>5, <1>6, <1>8 DEF DataIs, Holds
  <2>4. \A w \in VPage \ k.stale : Coherent(w)'
    BY <1>3, <1>5, <1>6, <1>9 DEF Holds, Coherent
  <2>5. ASSUME NEW r \in Register, NEW w \in VPage, <<r, w>> \in k.same
        PROVE  Same(r, w)'
    <3>1. w # v
      BY <1>2, <1>5, <2>5 DEF Knowledge
    <3> QED BY <1>3, <1>5, <1>9, <2>5, <3>1 DEF Holds, Same
  <2> QED BY <2>1, <2>2, <2>3, <2>4, <2>5 DEF Holds
<1>12. TypeOK'
  BY <1>3, <1>5, <1>8, <1>9 DEF TypeOK, Ended
<1>13. SelfChecksPass' /\ EditsUndone'
  BY <1>3, HistoriesStay DEF InvOf
<1> QED BY <1>1, <1>3, <1>10, <1>11, <1>12, <1>13, Arrive
\* What is unmapped has nothing left to undo.
LEMMA Zaps ==
  ASSUME TypeOK, EditsUndone, NEW vs \in SUBSET VPage, \A v \in vs : Undone(v), Zap(vs),
         UNCHANGED <<mts, excused>>
  PROVE  /\ EditsUndone' /\ \A z \in zapped' : z \in VPage \X Entry \X Frame
         /\ pte' \in [VPage -> Entry \cup {None}] /\ tlb' \in [VPage -> Entry \cup {None}]
         /\ \A v \in VPage : /\ pte'[v] = IF v \in vs THEN None ELSE pte[v]
                             /\ tlb'[v] = IF v \in vs THEN None ELSE tlb[v]
<1>1. ASSUME NEW z \in zapped', z \notin zapped
      PROVE  /\ z \in VPage \X Entry \X Frame
             /\ \/ z[2].pfn = z[3] \/ "moved" \in excused
                \/ z[1] = "address" /\ "killed" \in excused
             /\ "uc" \in z[2].bits => "wb" \notin mts
  <2>1. PICK v \in vs : pte[v] # None /\ home[v] # None /\ z = <<v, pte[v], home[v]>>
    BY <1>1 DEF Zap
  <2>2. z[1] = v /\ z[2] = pte[v] /\ z[3] = home[v] /\ v \in VPage
    BY <2>1
  <2> QED BY <2>1, <2>2 DEF TypeOK, Undone
<1>2. EditsUndone'
  BY <1>1 DEF EditsUndone
<1>3. \A z \in zapped' : z \in VPage \X Entry \X Frame
  BY <1>1 DEF TypeOK
<1>4. /\ pte' \in [VPage -> Entry \cup {None}] /\ tlb' \in [VPage -> Entry \cup {None}]
      /\ \A v \in VPage : /\ pte'[v] = IF v \in vs THEN None ELSE pte[v]
                          /\ tlb'[v] = IF v \in vs THEN None ELSE tlb[v]
  BY DEF Zap, TypeOK
<1> QED BY <1>2, <1>3, <1>4

LEMMA MunmapStep ==
  ASSUME NEW o, NEW homed, InvOf(o, homed), Munmap
  PROVE  InvOf(o, homed)'
<1>1. ip < Ended /\ program[ip].op = "munmap"
  BY DEF Munmap, Op
<1>2. PICK k : k = o[ip]
  OBVIOUS
<1>3. PICK t : t = o[ip + 1]
  OBVIOUS
<1>4. PICK v : v = arg.v
  OBVIOUS
<1>5. MunmapRule(v, k, t, homed) /\ Holds(k)
  BY <1>1, <1>2, <1>3, <1>4, Here DEF Rule, arg
<1>6. /\ Zap({v}) /\ ip' = ip + 1
      /\ UNCHANGED <<program, reg, data, home, mts, child, moves, failed, excused>>
  BY <1>4 DEF Munmap, Goto
<1>7. TypeOK /\ EditsUndone /\ Steady(homed) /\ v \in VPage /\ v # "table"
  BY <1>5 DEF InvOf, Follows, MunmapRule, VPage
<1>8. Undone(v)
  BY <1>5, <1>7 DEF MunmapRule, Holds, EntryIs, ChildIs, Is, Known, Undone, FrameOf
<1>9. /\ EditsUndone' /\ \A z \in zapped' : z \in VPage \X Entry \X Frame
      /\ pte' \in [VPage -> Entry \cup {None}] /\ tlb' \in [VPage -> Entry \cup {None}]
      /\ pte'[v] = None /\ tlb'[v] = None
      /\ \A w \in VPage \ {v} : pte'[w] = pte[w] /\ tlb'[w] = tlb[w]
  BY <1>6, <1>7, <1>8, Zaps
<1>10. Steady(homed)'
  <2>1. FramesApart' /\ OnlyHomed(homed)'
    BY <1>6, <1>7 DEF Steady, FramesApart, OnlyHomed
  <2>2. CachedMapped'
    BY <1>7, <1>9 DEF Steady, CachedMapped
  <2>3. ChildReady'
    BY <1>5, <1>6, <1>7, <1>9 DEF Steady, ChildReady, Coherent, MunmapRule, VPage
  <2>4. ChildWaits(homed)'
    BY <1>5, <1>6, <1>7, <1>9 DEF Steady, ChildWaits, MunmapRule, VPage
  <2> QED BY <2>1, <2>2, <2>3, <2>4 DEF Steady
<1>11. Holds(t)'
  <2>1. EntryIs(v, Unmapped)'
    BY <1>5, <1>9 DEF EntryIs, Unmapped, MunmapRule
  <2>2. \A w \in VPage \ {v} : EntryIs(w, k.pte[w])'
    BY <1>5, <1>6, <1>9 DEF Holds, EntryIs, ChildIs, Is, Undone, FrameOf
  <2>3. \A r \in Register : RegisterIs(r, k.reg[r])'
    BY <1>5, <1>6 DEF Holds, RegisterIs, Is, FrameOf
  <2>4. \A w \in VPage : DataIs(w, t.data[w])'
    BY <1>5, <1>6 DEF MunmapRule, Holds, DataIs, DataKept
  <2>5. \A w \in VPage \ k.stale : Coherent(w)'
    BY <1>5, <1>9 DEF Holds, Coherent
  <2>6. \A r \in Register, w \in VPage \ {v} : <<r, w>> \in k.same => Same(r, w)'
    BY <1>5, <1>6, <1>9 DEF Holds, Same
  <2>7. EntrySet(k, t, v, Unmapped, homed, k.stale)
    BY <1>5 DEF MunmapRule
  <2> QED BY <1>7, <1>10, <2>1, <2>2, <2>3, <2>4, <2>5, <2>6, <2>7, EntryChanged DEF Steady
<1>12. TypeOK'
  BY <1>1, <1>6, <1>7, <1>9, Here DEF TypeOK, Ended
<1>13. SelfChecksPass'
  BY <1>6 DEF InvOf, SelfChecksPass, Excused, Ended
<1> QED BY <1>3, <1>6, <1>9, <1>10, <1>11, <1>12, <1>13, Arrive

LEMMA ExitStep ==
  ASSUME NEW o, NEW homed, InvOf(o, homed), Exit
  PROVE  InvOf(o, homed)'
<1>1. PICK k : k = o[ip]
  OBVIOUS
<1>2. /\ Zap(VPage) /\ child \notin {"started", "sleeping"}
      /\ UNCHANGED <<program, ip, reg, data, home, mts, child, moves, failed, excused>>
  BY DEF Exit
<1>3. TypeOK /\ EditsUndone /\ Steady(homed) /\ Holds(k)
  BY <1>1 DEF InvOf, Follows
<1>4. k.same = {} /\ \A v \in VPage : k.pte[v] = Own
  BY <1>1 DEF InvOf, Follows, Outlined, Exit, Ended
<1>5. \A v \in VPage : Undone(v)
  BY <1>3, <1>4 DEF Holds, EntryIs, Own
<1>6. /\ EditsUndone' /\ \A z \in zapped' : z \in VPage \X Entry \X Frame
      /\ pte' \in [VPage -> Entry \cup {None}] /\ tlb' \in [VPage -> Entry \cup {None}]
      /\ \A v \in VPage : pte'[v] = None /\ tlb'[v] = None
  BY <1>2, <1>3, <1>5, Zaps
<1>7. Steady(homed)'
  BY <1>2, <1>3, <1>6
     DEF Steady, FramesApart, CachedMapped, OnlyHomed, ChildWaits, ChildReady
<1>8. Holds(k)'
  <2>1. \A v \in VPage : EntryIs(v, k.pte[v])'
    BY <1>4, <1>6 DEF EntryIs, Own, Undone
  <2>2. \A r \in Register : RegisterIs(r, k.reg[r])'
    BY <1>2, <1>3 DEF Holds, RegisterIs, Is, FrameOf
  <2>3. \A v \in VPage : DataIs(v, k.data[v])'
    BY <1>2, <1>3 DEF Holds, DataIs
  <2>4. \A v \in VPage \ k.stale : Coherent(v)'
    BY <1>6 DEF Coherent
  <2> QED BY <1>4, <2>1, <2>2, <2>3, <2>4 DEF Holds
<1>9. TypeOK'
  BY <1>2, <1>3, <1>6 DEF TypeOK, Ended
<1>10. SelfChecksPass'
  BY <1>2 DEF InvOf, SelfChecksPass, Excused, Ended
<1> QED BY <1>1, <1>2, <1>6, <1>7, <1>8, <1>9, <1>10, Arrive

LEMMA WritePhysicalPageStep ==
  ASSUME NEW o, NEW homed, InvOf(o, homed), WritePhysicalPage
  PROVE  InvOf(o, homed)'
<1>1. ip < Ended /\ program[ip].op = "write_page"
  BY DEF WritePhysicalPage, Op
<1>2. PICK k : k = o[ip]
  OBVIOUS
<1>3. PICK t : t = o[ip + 1]
  OBVIOUS
<1>4. PICK r, c, f : r = arg.r /\ c = arg.c /\ f = reg[r].pfn
  OBVIOUS
<1>5. WritePageRule(r, c, k, t, homed) /\ c \in Letter /\ Holds(k)
  BY <1>1, <1>2, <1>3, <1>4, Here DEF Rule, arg
<1>6. /\ data' = [data EXCEPT ![f] = c] /\ ip' = ip + 1
      /\ UNCHANGED <<program, reg, pte, tlb, home, mts, child, moves, failed, excused,
                     zapped>>
  BY <1>4 DEF WritePhysicalPage, Goto
<1>7. TypeOK /\ Steady(homed)
  BY DEF InvOf, Follows
<1>8. /\ data' \in [Frame -> Letter] /\ (f \in Frame => data'[f] = c)
      /\ \A g \in Frame \ {f} : data'[g] = data[g]
  BY <1>5, <1>6, <1>7 DEF TypeOK
<1>9. Steady(homed)'
  BY <1>6, <1>7, StaysSteady
<1>10. Holds(t)'
  <2>1. PICK u : u = k.reg[r].to
    OBVIOUS
  <2>2. /\ u \in VPage \ {"fn", "child_fn"} /\ u # "table" /\ home[u] # None
        /\ "moved" \in excused \/ f = home[u]
    BY <1>4, <1>5, <2>1 DEF WritePageRule, Known, Holds, RegisterIs, Is, FrameOf, VPage
  <2>3. ASSUME NEW w \in VPage
        PROVE  DataIs(w, t.data[w])'
    <3>1. CASE w = u
      BY <3>1, <1>5, <1>6, <1>7, <1>8, <2>1, <2>2 DEF WritePageRule, DataSet, DataIs, TypeOK
    <3>2. CASE w # u
      <4>1. DataIs(w, k.data[w]) /\ (t.data[w] = "-" \/ t.data[w] = k.data[w])
        BY <3>2, <1>5, <2>1 DEF Holds, WritePageRule, DataSet
      <4>2. home[w] # None => home[w] \in Frame /\ home[w] # home[u]
        BY <3>2, <1>7, <2>2 DEF TypeOK, Steady, FramesApart
      <4> QED BY <4>1, <4>2, <1>6, <1>8, <2>2 DEF DataIs
    <3> QED BY <3>1, <3>2
  <2>4. \A w \in VPage : EntryIs(w, k.pte[w])'
    BY <1>5, <1>6 DEF Holds, EntryIs, ChildIs, Is, Undone, FrameOf
  <2>5. \A w \in VPage : EntryIs(w, t.pte[w])'
    BY <1>5, <1>9, <2>4, LeaveClaim DEF WritePageRule, EntriesKept, Steady
  <2>6. \A s \in Register : RegisterIs(s, t.reg[s])'
    BY <1>5, <1>6 DEF WritePageRule, RegistersKept, Holds, RegisterIs, Is, FrameOf, Unknown
  <2>7. \A w \in VPage \ t.stale : Coherent(w)'
    BY <1>5, <1>6 DEF WritePageRule, Holds, Coherent
  <2>8. \A s \in Register, w \in VPage : <<s, w>> \in t.same => Same(s, w)'
    BY <1>5, <1>6 DEF WritePageRule, Holds, Same
  <2> QED BY <2>3, <2>5, <2>6, <2>7, <2>8 DEF Holds
<1>11. TypeOK'
  BY <1>1, <1>6, <1>7, <1>8, Here DEF TypeOK, Ended
<1>12. SelfChecksPass' /\ EditsUndone'
  BY <1>6, HistoriesStay DEF InvOf
<1> QED BY <1>3, <1>6, <1>9, <1>10, <1>11, <1>12, Arrive

\* The page is not written: what the outline says of it has an excuse.
LEMMA WritePhysicalPageFailsStep ==
  ASSUME NEW o, NEW homed, InvOf(o, homed), WritePhysicalPageFails
  PROVE  InvOf(o, homed)'
<1>1. ip < Ended /\ program[ip].op = "write_page"
  BY DEF WritePhysicalPageFails, Op
<1>2. PICK k : k = o[ip]
  OBVIOUS
<1>3. PICK t : t = o[ip + 1]
  OBVIOUS
<1>4. WritePageRule(arg.r, arg.c, k, t, homed) /\ Holds(k) /\ TypeOK /\ Steady(homed)
  BY <1>1, <1>2, <1>3, Here DEF Rule, arg, InvOf, Follows
<1>5. /\ excused' = excused \cup {"unwritten"} /\ ip' = ip + 1
      /\ UNCHANGED <<program, reg, pte, tlb, data, home, mts, child, moves, failed, zapped>>
  BY DEF WritePhysicalPageFails, GoOnWithout, Goto
<1>6. /\ excused \subseteq excused' /\ excused' \subseteq Excuse
      /\ "unwritten" \in excused'
  BY <1>4, <1>5 DEF TypeOK, Excuse
<1>7. Holds(k)' /\ Steady(homed)'
  BY <1>4, <1>5, <1>6, Untouched, StaysSteady
<1>8. Holds(t)'
  <2>1. PICK u : u = k.reg[arg.r].to
    OBVIOUS
  <2>2. u \in VPage /\ u # "table" /\ home[u] # None
    BY <1>4, <2>1 DEF WritePageRule, Known, Holds, RegisterIs, Is, VPage
  <2>3. ASSUME NEW w \in VPage
        PROVE  DataIs(w, t.data[w])'
    <3>1. CASE w = u
      BY <1>5, <1>6, <2>2, <3>1 DEF DataIs
    <3>2. CASE w # u
      BY <1>4, <1>7, <2>1, <3>2 DEF Holds, WritePageRule, DataSet, DataIs
    <3> QED BY <3>1, <3>2
  <2>4. \A w \in VPage : EntryIs(w, t.pte[w])'
    BY <1>4, <1>7, LeaveClaim DEF WritePageRule, EntriesKept, Steady, Holds
  <2>5. \A s \in Register : RegisterIs(s, t.reg[s])'
    BY <1>4, <1>7 DEF WritePageRule, RegistersKept, Holds, RegisterIs, Unknown
  <2>6. \A w \in VPage \ t.stale : Coherent(w)'
    BY <1>4, <1>7 DEF WritePageRule, Holds
  <2>7. \A s \in Register, w \in VPage : <<s, w>> \in t.same => Same(s, w)'
    BY <1>4, <1>7 DEF WritePageRule, Holds
  <2> QED BY <2>3, <2>4, <2>5, <2>6, <2>7 DEF Holds
<1>9. TypeOK'
  BY <1>1, <1>4, <1>5, <1>6, Here DEF TypeOK, Ended
<1>10. SelfChecksPass' /\ EditsUndone'
  BY <1>5, <1>6, HistoriesStay DEF InvOf
<1> QED BY <1>3, <1>5, <1>7, <1>8, <1>9, <1>10, Arrive

LEMMA ChildExecStep ==
  ASSUME NEW o, NEW homed, InvOf(o, homed), ChildExec
  PROVE  InvOf(o, homed)'
<1>1. PICK k : k = o[ip]
  OBVIOUS
<1>2. /\ child = "sleeping" /\ child' \in {"crashed", "exited"}
      /\ child' = "crashed" => "nx" \in Seen("child_fn").bits
      /\ \/ failed' = failed
         \/ child' = "crashed" /\ "nx" \notin pte["child_fn"].bits
      /\ UNCHANGED <<program, ip, reg, pte, tlb, data, home, mts, moves, excused, zapped>>
  BY DEF ChildExec
<1>3. TypeOK /\ Steady(homed) /\ Holds(k)
  BY <1>1 DEF InvOf, Follows
<1>4. pte["child_fn"] # None /\ Coherent("child_fn")
  BY <1>2, <1>3 DEF Steady, ChildReady
<1>5. "nx" \in Seen("child_fn").bits => "nx" \in pte["child_fn"].bits
  BY <1>4 DEF Coherent, Seen
<1>6. failed' = failed
  BY <1>2, <1>5
<1>7. Steady(homed)'
  BY <1>2, <1>3
     DEF Steady, FramesApart, CachedMapped, OnlyHomed, ChildWaits, ChildReady
<1>8. Holds(k)'
  BY <1>2, <1>3, Untouched
<1>9. TypeOK'
  BY <1>2, <1>3, <1>6 DEF TypeOK, Ended
<1>10. SelfChecksPass' /\ EditsUndone'
  BY <1>2, <1>6, HistoriesStay DEF InvOf
<1> QED BY <1>1, <1>2, <1>7, <1>8, <1>9, <1>10, Arrive

\* The accessed bit of the entry of v changes, and the CPU may cache the entry.
LEMMA AccessedBit ==
  ASSUME NEW o, NEW homed, InvOf(o, homed), NEW v \in VPage, NEW e \in Entry,
         pte[v] # None, pte' = [pte EXCEPT ![v] = e],
         e.pfn = pte[v].pfn, e.bits \ {"accessed"} = pte[v].bits \ {"accessed"},
         tlb' = tlb \/ tlb' = [tlb EXCEPT ![v] = e],
         excused \subseteq excused', excused' \subseteq Excuse,
         "moved" \in excused' => "moved" \in excused,
         pte' = pte \/ "aged" \in excused', moves' \in 0..MaxMoves,
         UNCHANGED <<program, ip, reg, data, home, mts, child, failed, zapped>>
  PROVE  InvOf(o, homed)'
<1>1. PICK k : k = o[ip]
  OBVIOUS
<1>2. TypeOK /\ Steady(homed) /\ Holds(k) /\ e # None
  BY <1>1, DemosAssumption DEF InvOf, Follows
<1>3. /\ pte' \in [VPage -> Entry \cup {None}] /\ pte'[v] = e
      /\ \A w \in VPage \ {v} : pte'[w] = pte[w]
  BY <1>2 DEF TypeOK
<1>4. /\ tlb' \in [VPage -> Entry \cup {None}] /\ (tlb'[v] = tlb[v] \/ tlb'[v] = e)
      /\ \A w \in VPage \ {v} : tlb'[w] = tlb[w]
  BY <1>2 DEF TypeOK
<1>5. ASSUME NEW w \in VPage, Coherent(w)
      PROVE  Coherent(w)'
  BY <1>2, <1>3, <1>4, <1>5 DEF Coherent
<1>6. Steady(homed)'
  <2>1. FramesApart' /\ OnlyHomed(homed)'
    BY <1>2 DEF Steady, FramesApart, OnlyHomed
  <2>2. CachedMapped'
    BY <1>2, <1>3, <1>4 DEF Steady, CachedMapped
  <2>3. ChildReady'
    BY <1>2, <1>3, <1>5 DEF Steady, ChildReady, VPage
  <2>4. ChildWaits(homed)'
    BY <1>2, <1>3 DEF Steady, ChildWaits, VPage
  <2> QED BY <2>1, <2>2, <2>3, <2>4 DEF Steady
<1>7. Holds(k)'
  <2>1. ASSUME NEW w \in VPage
        PROVE  EntryIs(w, k.pte[w])'
    <3>1. EntryIs(w, k.pte[w])
      BY <1>2 DEF Holds
    <3>2. CASE w = v
      BY <3>1, <3>2, <1>2, <1>3 DEF EntryIs, ChildIs, Is, Undone, FrameOf
    <3>3. CASE w # v
      BY <3>1, <3>3, <1>3 DEF EntryIs, ChildIs, Is, Undone, FrameOf
    <3> QED BY <3>2, <3>3
  <2>2. \A r \in Register : RegisterIs(r, k.reg[r])'
    BY <1>2 DEF Holds, RegisterIs, Is, FrameOf
  <2>3. \A w \in VPage : DataIs(w, k.data[w])'
    BY <1>2 DEF Holds, DataIs
  <2>4. \A w \in VPage \ k.stale : Coherent(w)'
    BY <1>2, <1>5 DEF Holds
  <2>5. ASSUME NEW r \in Register, NEW w \in VPage, <<r, w>> \in k.same
        PROVE  Same(r, w)'
    <3>1. "moved" \in excused \/ "aged" \in excused \/ reg[r] = pte[w]
      BY <1>2, <2>5 DEF Holds, Same
    <3> QED BY <3>1 DEF Same
  <2> QED BY <2>1, <2>2, <2>3, <2>4, <2>5 DEF Holds
<1>8. TypeOK'
  BY <1>2, <1>3, <1>4 DEF TypeOK, Ended
<1>9. SelfChecksPass' /\ EditsUndone'
  BY HistoriesStay DEF InvOf
<1> QED BY <1>1, <1>6, <1>7, <1>8, <1>9, Arrive

LEMMA TlbFillStep ==
  ASSUME NEW o, NEW homed, InvOf(o, homed), NEW v \in VPage, TlbFill(v)
  PROVE  InvOf(o, homed)'
<1>1. PICK e : e = [pte[v] EXCEPT !.bits = @ \cup {"accessed"}]
  OBVIOUS
<1>2. TypeOK /\ pte[v] \in Entry /\ pte[v] # None
  BY DEF InvOf, TypeOK, TlbFill
<1>3. /\ e \in Entry /\ e.pfn = pte[v].pfn
      /\ e.bits \ {"accessed"} = pte[v].bits \ {"accessed"}
  BY <1>1, <1>2 DEF Entry, Bit
<1>4. /\ pte' = [pte EXCEPT ![v] = e]
      /\ UNCHANGED <<program, ip, reg, data, home, mts, child, moves, failed, zapped>>
  BY <1>1 DEF TlbFill
<1>5. pte'[v] = e
  BY <1>2, <1>4 DEF TypeOK
<1>6. tlb' = [tlb EXCEPT ![v] = e]
  BY <1>5 DEF TlbFill
<1>7. /\ excused \subseteq excused' /\ excused' \subseteq Excuse
      /\ "moved" \in excused' => "moved" \in excused
      /\ pte' = pte \/ "aged" \in excused'
  BY <1>2 DEF TlbFill, TypeOK, Excuse
<1>8. moves' \in 0..MaxMoves
  BY <1>2, <1>4 DEF TypeOK
<1> QED BY <1>2, <1>3, <1>4, <1>6, <1>7, <1>8, AccessedBit

LEMMA AgeStep ==
  ASSUME NEW o, NEW homed, InvOf(o, homed), NEW v \in VPage, Age(v)
  PROVE  InvOf(o, homed)'
<1>1. PICK e : e = [pte[v] EXCEPT !.bits = @ \ {"accessed"}]
  OBVIOUS
<1>2. TypeOK /\ pte[v] \in Entry /\ pte[v] # None
  BY DEF InvOf, TypeOK, Age
<1>3. /\ e \in Entry /\ e.pfn = pte[v].pfn
      /\ e.bits \ {"accessed"} = pte[v].bits \ {"accessed"}
  BY <1>1, <1>2 DEF Entry, Bit
<1>4. /\ pte' = [pte EXCEPT ![v] = e]
      /\ UNCHANGED <<program, ip, reg, tlb, data, home, mts, child, failed, zapped>>
  BY <1>1 DEF Age
<1>5. /\ excused \subseteq excused' /\ excused' \subseteq Excuse
      /\ "moved" \in excused' => "moved" \in excused
      /\ "aged" \in excused'
  BY <1>2 DEF Age, TypeOK, Excuse
<1>6. moves' \in 0..MaxMoves
  BY <1>2, DemosAssumption DEF TypeOK, Age
<1> QED BY <1>2, <1>3, <1>4, <1>5, <1>6, AccessedBit

\* The kernel moves a page: what the outline says of its frame goes with it, and
\* whoever has kept the frame number has an excuse.
LEMMA MoveStep ==
  ASSUME NEW o, NEW homed, InvOf(o, homed), NEW v \in VPage, NEW f \in Frame, Move(v, f)
  PROVE  InvOf(o, homed)'
<1>1. PICK k : k = o[ip]
  OBVIOUS
<1>2. PICK e, h : e = [pte[v] EXCEPT !.pfn = f] /\ h = home[v]
  OBVIOUS
<1>3. TypeOK /\ Steady(homed) /\ Holds(k) /\ k \in Knowledge /\ Pinned(k)
  BY <1>1 DEF InvOf, Follows, Outlined, TypeOK, Ended
<1>4. /\ pte[v] \in Entry /\ h \in Frame /\ h # f /\ pte[v].pfn = h /\ h # PT
      /\ f # None /\ h # None
      /\ \A w \in VPage \ {v} : home[w] # h /\ home[w] # f
  BY <1>2, <1>3, DemosAssumption DEF TypeOK, Move, Used
<1>5. e \in Entry /\ e # None /\ e.pfn = f /\ e.bits = pte[v].bits
  BY <1>2, <1>4, DemosAssumption DEF Entry
<1>6. /\ pte' = [pte EXCEPT ![v] = e] /\ tlb' = [tlb EXCEPT ![v] = None]
      /\ home' = [home EXCEPT ![v] = f]
      /\ data' = [data EXCEPT ![f] = data[h], ![h] = "?"]
      /\ moves < MaxMoves /\ moves' = moves + 1
      /\ UNCHANGED <<program, ip, reg, mts, child, failed, zapped>>
  BY <1>2 DEF Move
<1>7. /\ excused \subseteq excused' /\ excused' \subseteq Excuse
      /\ \A r \in Register : reg[r] # None /\ reg[r].pfn = h => "moved" \in excused'
  BY <1>2, <1>3 DEF Move, TypeOK, Excuse
<1>8. /\ pte' \in [VPage -> Entry \cup {None}] /\ pte'[v] = e
      /\ \A w \in VPage \ {v} : pte'[w] = pte[w]
  BY <1>3, <1>5, <1>6 DEF TypeOK
<1>9. /\ tlb' \in [VPage -> Entry \cup {None}] /\ tlb'[v] = None
      /\ \A w \in VPage \ {v} : tlb'[w] = tlb[w]
  BY <1>3, <1>6 DEF TypeOK
<1>10. /\ home' \in [VPage -> Frame \cup {None}] /\ home'[v] = f
       /\ \A w \in VPage \ {v} : home'[w] = home[w]
  BY <1>3, <1>6 DEF TypeOK
<1>11. /\ data' \in [Frame -> Letter] /\ data'[f] = data[h]
       /\ \A g \in Frame \ {f, h} : data'[g] = data[g]
  BY <1>3, <1>4, <1>6 DEF TypeOK, Letter
<1>12. Steady(homed)'
  <2>1. FramesApart'
    BY <1>3, <1>4, <1>10 DEF Steady, FramesApart
  <2>2. CachedMapped'
    BY <1>3, <1>8, <1>9 DEF Steady, CachedMapped
  <2>3. OnlyHomed(homed)'
    BY <1>2, <1>3, <1>4, <1>10 DEF Steady, OnlyHomed
  <2>4. ChildReady'
    BY <1>3, <1>5, <1>6, <1>8, <1>9 DEF Steady, ChildReady, Coherent, VPage
  <2>5. ChildWaits(homed)'
    BY <1>2, <1>3, <1>4, <1>6, <1>8, <1>10, DemosAssumption
       DEF Steady, ChildWaits, TypeOK, VPage
  <2> QED BY <2>1, <2>2, <2>3, <2>4, <2>5 DEF Steady
<1>13. ASSUME NEW r \in Register
       PROVE  RegisterIs(r, k.reg[r])'
  <2>1. RegisterIs(r, k.reg[r]) /\ k.reg[r].to \in VPage \cup {"table"}
    BY <1>3 DEF Holds, Knowledge, Claim
  <2>2. v # "table"
    BY DEF VPage
  <2>3. CASE k.reg[r].to = v
    BY <2>1, <2>2, <2>3, <1>2, <1>4, <1>6, <1>7, <1>10 DEF RegisterIs, Is, FrameOf
  <2>4. CASE k.reg[r].to # v
    BY <2>1, <2>4, <1>6, <1>7, <1>10 DEF RegisterIs, Is, FrameOf
  <2> QED BY <2>3, <2>4
<1>14. ASSUME NEW r \in Register, Known(k.reg[r]), k.reg[r].to = v
       PROVE  "moved" \in excused'
  <2>1. Is(reg[r], k.reg[r])
    BY <1>3, <1>14 DEF Holds, RegisterIs, Known
  <2>2. v # "table"
    BY DEF VPage
  <2> QED BY <2>1, <2>2, <1>2, <1>7, <1>14 DEF Is, FrameOf
<1>15. ASSUME NEW w \in VPage
       PROVE  EntryIs(w, k.pte[w])'
  <2>1. EntryIs(w, k.pte[w]) /\ k.pte[w].to \in VPage \cup {"table"} /\ v # "table"
    BY <1>3 DEF Holds, Knowledge, Claim, VPage
  <2>2. CASE w = v
    <3>1. Known(k.pte[v]) => \/ "moved" \in excused
                             \/ k.pte[v].to = v
      BY <2>1, <2>2, <1>2, <1>4 DEF EntryIs, ChildIs, Is, FrameOf, Known
    <3>2. Known(k.pte[v]) => Is(pte[v], k.pte[v])'
      BY <3>1, <2>1, <2>2, <1>4, <1>5, <1>7, <1>8, <1>10 DEF EntryIs, ChildIs, Is, FrameOf, Known
    <3>3. k.pte[v].kind = "own" => Undone(v)'
      BY <2>1, <2>2, <1>2, <1>4, <1>5, <1>6, <1>8, <1>10, DemosAssumption
         DEF EntryIs, Undone
    <3>4. k.pte[v].kind # "none"
      BY <2>1, <2>2, <1>4, DemosAssumption DEF EntryIs
    <3>5. k.pte[v].kind = "child" => ChildIs(v, pte[v], k.pte[v])'
      BY <2>1, <2>2, <1>2, <1>4, <1>5, <1>7, <1>8, <1>10, DemosAssumption
         DEF EntryIs, ChildIs
    <3> QED BY <2>2, <3>2, <3>3, <3>4, <3>5 DEF EntryIs, Known
  <2>3. CASE w # v
    <3>1. Known(k.pte[w]) /\ k.pte[w].to = v => "moved" \in excused'
      BY <2>3, <1>3, <1>14 DEF Pinned
    <3>2. Known(k.pte[w]) => Is(pte[w], k.pte[w])'
      BY <3>1, <2>1, <2>3, <1>4, <1>7, <1>8, <1>10 DEF EntryIs, ChildIs, Is, FrameOf, Known
    <3>3. k.pte[w].kind = "own" => Undone(w)'
      BY <2>1, <2>3, <1>6, <1>7, <1>8, <1>10 DEF EntryIs, Undone
    <3>4. k.pte[w].kind = "child" => ChildIs(w, pte[w], k.pte[w])'
      BY <2>1, <2>3, <1>7, <1>8, <1>10 DEF EntryIs, ChildIs
    <3> QED BY <2>1, <2>3, <3>2, <3>3, <3>4, <1>6, <1>8 DEF EntryIs, Known
  <2> QED BY <2>2, <2>3
<1>16. Holds(k)'
  <2>1. ASSUME NEW w \in VPage
        PROVE  DataIs(w, k.data[w])'
    <3>1. DataIs(w, k.data[w])
      BY <1>3 DEF Holds
    <3>2. CASE w = v
      BY <3>1, <3>2, <1>2, <1>4, <1>7, <1>10, <1>11 DEF DataIs
    <3>3. CASE w # v
      <4>1. home[w] # None => home[w] \in Frame \ {f, h}
        BY <3>3, <1>3, <1>4 DEF TypeOK
      <4> QED BY <3>1, <3>3, <4>1, <1>7, <1>10, <1>11 DEF DataIs
    <3> QED BY <3>2, <3>3
  <2>2. \A w \in VPage \ k.stale : Coherent(w)'
    BY <1>3, <1>8, <1>9 DEF Holds, Coherent
  <2>3. ASSUME NEW r \in Register, NEW w \in VPage, <<r, w>> \in k.same
        PROVE  Same(r, w)'
    <3>1. "moved" \in excused \/ "aged" \in excused \/ reg[r] = pte[w]
      BY <1>3, <2>3 DEF Holds, Same
    <3>2. CASE w = v
      BY <3>1, <3>2, <1>4, <1>7, DemosAssumption DEF Same
    <3>3. CASE w # v
      BY <3>1, <3>3, <1>6, <1>7, <1>8 DEF Same
    <3> QED BY <3>2, <3>3
  <2> QED BY <1>13, <1>15, <2>1, <2>2, <2>3 DEF Holds
<1>17. TypeOK'
  BY <1>3, <1>6, <1>7, <1>8, <1>9, <1>10, <1>11, DemosAssumption DEF TypeOK, Ended
<1>18. SelfChecksPass' /\ EditsUndone'
  BY <1>6, <1>7, HistoriesStay DEF InvOf
<1> QED BY <1>1, <1>6, <1>12, <1>16, <1>17, <1>18, Arrive

-----------------------------------------------------------------------------
(* The outlines of the programs                                            *)

At(w) == Maps(w, {})

exampleOutline ==
  [i \in 1..21 |->
    [pte |-> [v \in VPage |->
       IF v = "address" /\ i \in 3..9 \cup {18} THEN At("address")
       ELSE IF v = "address" /\ i \in 10..17 THEN At("target")
       ELSE IF v = "target" /\ i \in 4..19 THEN At("target")
       ELSE IF v = "new_addr" /\ i \in 13..17 THEN At("address")
       ELSE IF i = 21 \/ (v = "new_addr" /\ i \in 18..20) THEN Own
       ELSE Unmapped],
     reg |-> [r \in Register |->
       IF r = "vm" /\ i \in 5..8 THEN At("address")
       ELSE IF r = "vm" /\ i = 9 THEN At("target")
       ELSE IF r = "old" /\ i \in 7..17 THEN At("address")
       ELSE IF r = "target_entry" /\ i \in 8..17 THEN At("target")
       ELSE Unknown],
     data |-> [v \in VPage |->
       IF v = "address" /\ i \in 3..13 THEN "A"
       ELSE IF v = "target" /\ i \in 4..14 THEN "B"
       ELSE IF v = "target" /\ i \in 15..16 THEN "C"
       ELSE "-"],
     stale |-> {}, same |-> {}]]

map_ptOutline ==
  [i \in 1..13 |->
    [pte |-> [v \in VPage |->
       IF v = "target" /\ i \in 2..8 \cup {12} THEN At("target")
       ELSE IF v = "target" /\ i \in 9..11 THEN At("secret")
       ELSE IF v = "secret" /\ i \in 3..12 THEN At("secret")
       ELSE IF v = "pt" /\ i \in 7..12 THEN At("table")
       ELSE IF i = 13 THEN Own
       ELSE Unmapped],
     reg |-> [r \in Register |->
       IF r = "pmd" /\ i \in 1..6 THEN At("table")
       ELSE IF r = "secret_entry" /\ i \in 5..11 THEN At("secret")
       ELSE IF r = "target_entry" /\ i \in 6..11 THEN At("target")
       ELSE Unknown],
     data |-> [v \in VPage |-> IF v = "secret" /\ i \in 3..10 THEN "S" ELSE "-"],
     stale |-> IF i \in {9, 12, 13} THEN {"target"} ELSE {},
     same |-> IF i \in 6..7 THEN {<<"target_entry", "target">>} ELSE {}]]

map_pt_manualOutline ==
  [i \in 1..18 |->
    [pte |-> [v \in VPage |->
       IF v = "pt" /\ i \in 2..10 \cup {17} THEN At("pt")
       ELSE IF v = "pt" /\ i \in 11..16 THEN At("table")
       ELSE IF v = "target" /\ i \in 3..12 \cup {16, 17} THEN At("target")
       ELSE IF v = "target" /\ i \in 13..15 THEN At("secret")
       ELSE IF v = "secret" /\ i \in 4..17 THEN At("secret")
       ELSE IF i = 18 THEN Own
       ELSE Unmapped],
     reg |-> [r \in Register |->
       IF r = "pmd" /\ i \in 1..9 THEN At("table")
       ELSE IF r = "secret_entry" /\ i \in 6..15 THEN At("secret")
       ELSE IF r = "target_entry" /\ i \in 7..15 THEN At("target")
       ELSE IF r = "pt_entry" /\ i \in 8..9 THEN At("pt")
       ELSE IF r = "pt_entry" /\ i = 10 THEN At("table")
       ELSE IF r = "old" /\ i \in 9..16 THEN At("pt")
       ELSE Unknown],
     data |-> [v \in VPage |-> IF v = "secret" /\ i \in 4..14 THEN "S" ELSE "-"],
     stale |-> IF i \in {13} \cup 16..18 THEN {"target"} ELSE {},
     same |-> IF i \in 7..11 THEN {<<"target_entry", "target">>} ELSE {}]]

uncachableOutline ==
  [i \in 1..22 |->
    [pte |-> [v \in VPage |->
       IF v = "pt" /\ i \in 2..6 \cup 11..20 THEN At("pt")
       ELSE IF v = "pt" /\ i \in 7..10 THEN Maps("pt", {"uc"})
       ELSE IF v = "huge_page" /\ i \in 13..16 \cup 19..20 THEN At("huge_page")
       ELSE IF v = "huge_page" /\ i \in 17..18 THEN Maps("huge_page", {"uc"})
       ELSE IF i \in 21..22 THEN Own
       ELSE Unmapped],
     reg |-> [r \in Register |->
       IF r = "vm" /\ i \in 4..5 \cup {10} THEN At("pt")
       ELSE IF r = "vm" /\ i \in 6..9 THEN Maps("pt", {"uc"})
       ELSE IF r = "vm" /\ i \in 14..15 THEN At("huge_page")
       ELSE IF r = "vm" /\ i = 16 THEN Maps("huge_page", {"uc"})
       ELSE IF r = "old" /\ i \in 15..18 THEN At("huge_page")
       ELSE Unknown],
     data |-> [v \in VPage |-> "-"], stale |-> {}, same |-> {}]]

nxOutline ==
  [i \in 1..10 |->
    [pte |-> [v \in VPage |->
       IF v = "fn" /\ i = 2 THEN At("fn")
       ELSE IF v = "fn" /\ i \in 3..9 THEN Maps("fn", {"nx"})
       ELSE IF v = "child_fn" /\ i \in 4..6 THEN Childs({"nx"})
       ELSE IF v = "child_fn" /\ i \in 7..9 THEN Childs({})
       ELSE IF i = 10 THEN Own
       ELSE Unmapped],
     reg |-> [r \in Register |-> Unknown],
     data |-> [v \in VPage |-> "-"], stale |-> {}, same |-> {}]]

clear_bitsOutline ==
  [i \in 1..11 |->
    [pte |-> [v \in VPage |->
       IF v = "address" /\ i \in 3..9 THEN At("address")
       ELSE IF i = 11 THEN Own
       ELSE Unmapped],
     reg |-> [r \in Register |-> Unknown],
     data |-> [v \in VPage |-> "-"], stale |-> {}, same |-> {}]]

-----------------------------------------------------------------------------
(* The outlines keep to the rules                                          *)

\* What the claims say.
LEMMA Claims ==
  /\ \A w, b : /\ Known(Maps(w, b)) /\ Maps(w, b).to = w /\ Maps(w, b).bits = b
             /\ Maps(w, b).kind = "maps"
  /\ Unmapped.kind = "none" /\ Own.kind = "own" /\ Unknown.kind = "unknown"
  /\ ~Known(Unmapped) /\ ~Known(Own) /\ ~Known(Unknown)
  /\ \A b : Childs(b).kind = "child" /\ Childs(b).bits = b /\ ~Known(Childs(b))
BY DEF Maps, Childs, Unmapped, Own, Unknown, Known

\* What the edits of bits and memory types make of them.
LEMMA Bits ==
  ASSUME NEW w
  PROVE  /\ WithMt(At(w), "uc") = Maps(w, {"uc"}) /\ WithMt(Maps(w, {"uc"}), "wb") = At(w)
         /\ WithBit(At(w), "nx") = Maps(w, {"nx"})
         /\ WithoutBit(Maps(w, {"nx"}), "nx") = At(w)
         /\ Childs({"nx"} \ {"nx", "accessed"}) = Childs({})
         /\ WithBit(At(w), "accessed") = At(w) /\ WithoutBit(At(w), "accessed") = At(w)
<1>1. WithMt(At(w), "uc") = Maps(w, {"uc"})
  BY DEF WithMt, At, Maps
<1>2. WithMt(Maps(w, {"uc"}), "wb") = At(w)
  BY DEF WithMt, At, Maps
<1>3. WithBit(At(w), "nx") = Maps(w, {"nx"})
  BY DEF WithBit, At, Maps
<1>4. WithoutBit(Maps(w, {"nx"}), "nx") = At(w)
  BY DEF WithoutBit, At, Maps
<1>5. WithBit(At(w), "accessed") = At(w)
  BY DEF WithBit, At, Maps
<1>6. WithoutBit(At(w), "accessed") = At(w)
  BY DEF WithoutBit, At, Maps
<1>7. Childs({"nx"} \ {"nx", "accessed"}) = Childs({})
  BY DEF Childs
<1> QED BY <1>1, <1>2, <1>3, <1>4, <1>5, <1>6, <1>7

\* The claims that the outlines make.
LEMMA ClaimTypes ==
  /\ \A w \in VPage \cup {"table"} : /\ Maps(w, {}) \in Claim /\ Maps(w, {"uc"}) \in Claim
                                   /\ Maps(w, {"nx"}) \in Claim
  /\ Childs({"nx"}) \in Claim /\ Childs({}) \in Claim
  /\ Unmapped \in Claim /\ Own \in Claim /\ Unknown \in Claim
BY DEF Maps, Childs, Unmapped, Own, Unknown, Claim, VPage

\* A call keeps to Rule if it keeps to the rule for it.
LEMMA ptedit_initRule ==
  \A k, t, homed :
    Weaker(k, t, homed, "-") =>
    Rule(ptedit_init, k, t, homed)
BY DEF ptedit_init, Rule, Passive

LEMMA ptedit_cleanupRule ==
  \A k, t, homed :
    Weaker(k, t, homed, "-") =>
    Rule(ptedit_cleanup, k, t, homed)
BY DEF ptedit_cleanup, Rule, Passive

LEMMA ptedit_full_serializing_barrierRule ==
  \A k, t, homed :
    Weaker(k, t, homed, "-") =>
    Rule(ptedit_full_serializing_barrier, k, t, homed)
BY DEF ptedit_full_serializing_barrier, Rule, Passive

LEMMA find_mtRule ==
  \A m, e, k, t, homed :
    Weaker(k, t, homed, "-") =>
    Rule(find_mt(m, e), k, t, homed)
BY DEF find_mt, Rule, Passive

LEMMA mmapRule ==
  \A v, c, k, t, homed :
    c \in Letter /\ MmapRule(v, c, k, t, homed) =>
    Rule(mmap(v, c), k, t, homed)
BY DEF mmap, Rule, Passive

LEMMA mmap_hugeRule ==
  \A v, e, k, t, homed :
    MmapRule(v, "-", k, t, homed) =>
    Rule(mmap_huge(v, e), k, t, homed)
BY DEF mmap_huge, Rule, Passive

LEMMA mprotect_readRule ==
  \A v, k, t, homed :
    SetBitRule(v, "nx", k, t, homed) =>
    Rule(mprotect_read(v), k, t, homed)
BY DEF mprotect_read, Rule, Passive

LEMMA munmapRule ==
  \A v, k, t, homed :
    MunmapRule(v, k, t, homed) =>
    Rule(munmap(v), k, t, homed)
BY DEF munmap, Rule, Passive

LEMMA forkRule ==
  \A k, t, homed :
    ForkRule(k, t, homed) =>
    Rule(fork, k, t, homed)
BY DEF fork, Rule, Passive

LEMMA ptedit_resolveRule ==
  \A r, v, k, t, homed :
    ResolveRule(r, v, k, t, homed) =>
    Rule(ptedit_resolve(r, v), k, t, homed)
BY DEF ptedit_resolve, Rule, Passive

LEMMA resolve_orRule ==
  \A r, v, e, k, t, homed :
    ResolveRule(r, v, k, t, homed) =>
    Rule(resolve_or(r, v, e), k, t, homed)
BY DEF resolve_or, Rule, Passive

LEMMA ptedit_updateRule ==
  \A v, r, k, t, homed :
    UpdateRule(v, r, k, t, homed) =>
    Rule(ptedit_update(v, r), k, t, homed)
BY DEF ptedit_update, Rule, Passive

LEMMA copyRule ==
  \A r, s, k, t, homed :
    CopyRule(r, s, k, t, homed) =>
    Rule(copy(r, s), k, t, homed)
BY DEF copy, Rule, Passive

LEMMA ptedit_set_pfnRule ==
  \A r, s, k, t, homed :
    SetPfnRule(r, s, k, t, homed) =>
    Rule(ptedit_set_pfn(r, s), k, t, homed)
BY DEF ptedit_set_pfn, Rule, Passive

LEMMA ptedit_pte_set_pfnRule ==
  \A v, r, k, t, homed :
    PteSetPfnRule(v, r, k, t, homed) =>
    Rule(ptedit_pte_set_pfn(v, r), k, t, homed)
BY DEF ptedit_pte_set_pfn, Rule, Passive

LEMMA ptedit_pte_set_bitRule ==
  \A v, b, k, t, homed :
    SetBitRule(v, b, k, t, homed) =>
    Rule(ptedit_pte_set_bit(v, b), k, t, homed)
BY DEF ptedit_pte_set_bit, Rule, Passive

LEMMA ptedit_pte_clear_bitRule ==
  \A v, b, k, t, homed :
    v # "child_fn" /\ ClearBitRule(v, b, k, t, homed) =>
    Rule(ptedit_pte_clear_bit(v, b), k, t, homed)
BY DEF ptedit_pte_clear_bit, Rule, Passive

LEMMA ptedit_pte_clear_bitChildRule ==
  \A b, k, t, homed :
    ClearChildBitRule(b, k, t, homed) =>
    Rule(ptedit_pte_clear_bit("child_fn", b), k, t, homed)
BY DEF ptedit_pte_clear_bit, Rule, Passive

LEMMA ptedit_pmapRule ==
  \A v, r, k, t, homed :
    PmapRule(v, r, k, t, homed) =>
    Rule(ptedit_pmap(v, r), k, t, homed)
BY DEF ptedit_pmap, Rule, Passive

LEMMA ptedit_write_physical_pageRule ==
  \A r, c, k, t, homed :
    c \in Letter /\ WritePageRule(r, c, k, t, homed) =>
    Rule(ptedit_write_physical_page(r, c), k, t, homed)
BY DEF ptedit_write_physical_page, Rule, Passive

LEMMA ptedit_invalidate_tlbRule ==
  \A v, k, t, homed :
    InvalidateRule(v, k, t, homed) =>
    Rule(ptedit_invalidate_tlb(v), k, t, homed)
BY DEF ptedit_invalidate_tlb, Rule, Passive

LEMMA ptedit_apply_mtRule ==
  \A r, m, k, t, homed :
    ApplyMtRule(r, m, k, t, homed) =>
    Rule(ptedit_apply_mt(r, m), k, t, homed)
BY DEF ptedit_apply_mt, Rule, Passive

LEMMA store_pfnRule ==
  \A w, v, r, k, t, homed :
    StorePfnRule(v, r, k, t, homed) =>
    Rule(store_pfn(w, v, r), k, t, homed)
BY DEF store_pfn, Rule, Passive

LEMMA store_entryRule ==
  \A w, v, r, k, t, homed :
    StoreEntryRule(v, r, k, t, homed) =>
    Rule(store_entry(w, v, r), k, t, homed)
BY DEF store_entry, Rule, Passive

LEMMA loadRule ==
  \A v, c, k, t, homed :
    Weaker(k, t, homed, "-") /\ LoadRule(v, c, k) =>
    Rule(load(v, c), k, t, homed)
BY DEF load, Rule, Passive

LEMMA ptedit_read_physical_pageRule ==
  \A r, c, k, t, homed :
    Weaker(k, t, homed, "-") /\ ReadPageRule(r, c, k) =>
    Rule(ptedit_read_physical_page(r, c), k, t, homed)
BY DEF ptedit_read_physical_page, Rule, Passive

LEMMA load_entryRule ==
  \A w, v, r, k, t, homed :
    Weaker(k, t, homed, "-") /\ LoadEntryRule(w, v, r, k) =>
    Rule(load_entry(w, v, r), k, t, homed)
BY DEF load_entry, Rule, Passive

LEMMA ptedit_pte_get_bitRuleOn ==
  \A v, b, k, t, homed :
    Weaker(k, t, homed, "-") /\ GetBitRule(v, b, k) /\ b \in k.pte[v].bits =>
    Rule(ptedit_pte_get_bit(v, b, TRUE), k, t, homed)
BY DEF ptedit_pte_get_bit, Rule, Passive

LEMMA ptedit_pte_get_bitRuleOff ==
  \A v, b, k, t, homed :
    Weaker(k, t, homed, "-") /\ GetBitRule(v, b, k) /\ b \notin k.pte[v].bits =>
    Rule(ptedit_pte_get_bit(v, b, FALSE), k, t, homed)
BY DEF ptedit_pte_get_bit, Rule, Passive

LEMMA behavesRuleOn ==
  \A v, b, k, t, homed :
    Weaker(k, t, homed, "-") /\ v \notin k.stale /\ Known(k.pte[v]) /\ GetBitRule(v,
       b, k) /\ b \in k.pte[v].bits =>
    Rule(behaves(v, b, TRUE), k, t, homed)
BY DEF behaves, Rule, Passive

LEMMA behavesRuleOff ==
  \A v, b, k, t, homed :
    Weaker(k, t, homed, "-") /\ v \notin k.stale /\ Known(k.pte[v]) /\ GetBitRule(v,
       b, k) /\ b \notin k.pte[v].bits =>
    Rule(behaves(v, b, FALSE), k, t, homed)
BY DEF behaves, Rule, Passive

\* The calls of example.
LEMMA exampleCalls ==
  /\ Len(example) = 20
  /\ example[1] = ptedit_init
  /\ example[2] = mmap("address", "A")
  /\ example[3] = mmap("target", "B")
  /\ example[4] = resolve_or("vm", "address", 18)
  /\ example[5] = load("address", "A")
  /\ example[6] = copy("old", "vm")
  /\ example[7] = ptedit_resolve("target_entry", "target")
  /\ example[8] = ptedit_set_pfn("vm", "target_entry")
  /\ example[9] = ptedit_update("address", "vm")
  /\ example[10] = load("address", "B")
  /\ example[11] = ptedit_read_physical_page("old", "A")
  /\ example[12] = ptedit_pmap("new_addr", "old")
  /\ example[13] = load("new_addr", "A")
  /\ example[14] = ptedit_write_physical_page("target_entry", "C")
  /\ example[15] = ptedit_full_serializing_barrier
  /\ example[16] = load("address", "C")
  /\ example[17] = ptedit_pte_set_pfn("address", "old")
  /\ example[18] = munmap("address")
  /\ example[19] = munmap("target")
  /\ example[20] = ptedit_cleanup
BY DEF example

\* The outline of example is one, and what it says of its entries is pinned.
LEMMA exampleTyped ==
  ASSUME NEW i \in 1..21
  PROVE  exampleOutline[i] \in Knowledge /\ Pinned(exampleOutline[i])
<1> DEFINE k == exampleOutline[i]
<1>1. k.pte \in [VPage -> Claim]
  BY ClaimTypes DEF exampleOutline, At, VPage
<1>2. k.reg \in [Register -> Claim]
  BY ClaimTypes DEF exampleOutline, At, VPage
<1>3. k.data \in [VPage -> Letter \cup {"-"}]
  BY DEF exampleOutline, Letter
<1>4. k.stale \in SUBSET VPage
  BY DEF exampleOutline, VPage
<1>5. k.same \in SUBSET (Register \X (VPage \ {"child_fn"}))
  BY DEF exampleOutline, VPage, Register
<1>6. k = [pte |-> k.pte, reg |-> k.reg, data |-> k.data, stale |-> k.stale,
           same |-> k.same]
  BY Zenon DEF exampleOutline
<1>7. ASSUME NEW v \in VPage
      PROVE  \/ k.pte[v] = Unmapped \/ k.pte[v] = Own \/ k.pte[v] = At(v)
             \/ v = "address" /\ k.pte[v] = At("target") /\ k.reg["target_entry"] = At("target")
             \/ v = "new_addr" /\ k.pte[v] = At("address") /\ k.reg["old"] = At("address")
  <2>1. i \in 10..17 => k.reg["target_entry"] = At("target")
    BY DEF exampleOutline, Register
  <2>2. i \in 13..17 => k.reg["old"] = At("address")
    BY DEF exampleOutline, Register
  <2>3. k.pte["address"] = Unmapped \/ k.pte["address"] = Own \/ k.pte["address"] =
        At("address") \/ (i \in 10..17 /\ k.pte["address"] = At("target"))
    BY DEF exampleOutline, VPage
  <2>4. k.pte["target"] = Unmapped \/ k.pte["target"] = Own \/ k.pte["target"] =
        At("target")
    BY DEF exampleOutline, VPage
  <2>5. k.pte["new_addr"] = Unmapped \/ k.pte["new_addr"] = Own \/ k.pte["new_addr"]
        = At("new_addr") \/ (i \in 13..17 /\ k.pte["new_addr"] = At("address"))
    BY DEF exampleOutline, VPage
  <2>6. v \notin {"address", "target", "new_addr"} => k.pte[v] = Unmapped \/ k.pte[v] = Own
    BY DEF exampleOutline, VPage
  <2> HIDE DEF k
  <2> QED BY <2>1, <2>2, <2>3, <2>4, <2>5, <2>6
<1> HIDE DEF k
<1>8. k \in Knowledge
  BY <1>1, <1>2, <1>3, <1>4, <1>5, <1>6 DEF Knowledge
<1>9. Pinned(k)
  BY <1>7, Claims DEF Pinned, At, VPage, Register
<1> QED BY <1>8, <1>9 DEF k

\* Every call of example keeps to its rule in its outline.
LEMMA exampleRules ==
  ASSUME NEW i \in 1..20
  PROVE  Rule(example[i], exampleOutline[i], exampleOutline[i + 1], {"address", "target"})
<1> DEFINE o == exampleOutline
           homed == {"address", "target"}
<1>1. Rule(example[1], o[1], o[2], homed)
  <2>1. Weaker(o[1], o[2], homed, "-")
    BY Claims DEF Weaker, EntriesKept, Keeps, RegistersKept, DataKept,
       exampleOutline, VPage, Register, At
  <2> HIDE DEF o, homed
  <2>2. Rule(ptedit_init, o[1], o[2], homed)
    BY <2>1, ptedit_initRule
  <2> QED BY <2>2, exampleCalls
<1>2. Rule(example[2], o[2], o[3], homed)
  <2>1. Fresh("address", o[2])
    BY Claims DEF Fresh, VPage, Register, exampleOutline, At
  <2>2. MmapRule("address", "A", o[2], o[3], homed)
    BY <2>1, Claims DEF MmapRule, EntrySet, Keeps, RegistersKept, DataSet,
       exampleOutline, VPage, Register, At
  <2> HIDE DEF o, homed
  <2>3. Rule(mmap("address", "A"), o[2], o[3], homed)
    BY <2>2, mmapRule DEF Letter
  <2> QED BY <2>3, exampleCalls
<1>3. Rule(example[3], o[3], o[4], homed)
  <2>1. Fresh("target", o[3])
    BY Claims DEF Fresh, VPage, Register, exampleOutline, At
  <2>2. MmapRule("target", "B", o[3], o[4], homed)
    BY <2>1, Claims DEF MmapRule, EntrySet, Keeps, RegistersKept, DataSet,
       exampleOutline, VPage, Register, At
  <2> HIDE DEF o, homed
  <2>3. Rule(mmap("target", "B"), o[3], o[4], homed)
    BY <2>2, mmapRule DEF Letter
  <2> QED BY <2>3, exampleCalls
<1>4. Rule(example[4], o[4], o[5], homed)
  <2>1. ResolveRule("vm", "address", o[4], o[5], homed)
    BY Claims DEF ResolveRule, RegisterSet, EntriesKept, Keeps, DataKept,
       exampleOutline, VPage, Register, At
  <2> HIDE DEF o, homed
  <2>2. Rule(resolve_or("vm", "address", 18), o[4], o[5], homed)
    BY <2>1, resolve_orRule
  <2> QED BY <2>2, exampleCalls
<1>5. Rule(example[5], o[5], o[6], homed)
  <2>1. LoadRule("address", "A", o[5])
    BY Claims DEF LoadRule, exampleOutline, VPage, Register, At
  <2>2. Weaker(o[5], o[6], homed, "-")
    BY Claims DEF Weaker, EntriesKept, Keeps, RegistersKept, DataKept,
       exampleOutline, VPage, Register, At
  <2> HIDE DEF o, homed
  <2>3. Rule(load("address", "A"), o[5], o[6], homed)
    BY <2>1, <2>2, loadRule
  <2> QED BY <2>3, exampleCalls
<1>6. Rule(example[6], o[6], o[7], homed)
  <2>1. CopyRule("old", "vm", o[6], o[7], homed)
    BY Claims DEF CopyRule, RegisterSet, EntriesKept, Keeps, DataKept,
       exampleOutline, VPage, Register, At
  <2> HIDE DEF o, homed
  <2>2. Rule(copy("old", "vm"), o[6], o[7], homed)
    BY <2>1, copyRule
  <2> QED BY <2>2, exampleCalls
<1>7. Rule(example[7], o[7], o[8], homed)
  <2>1. ResolveRule("target_entry", "target", o[7], o[8], homed)
    BY Claims DEF ResolveRule, RegisterSet, EntriesKept, Keeps, DataKept,
       exampleOutline, VPage, Register, At
  <2> HIDE DEF o, homed
  <2>2. Rule(ptedit_resolve("target_entry", "target"), o[7], o[8], homed)
    BY <2>1, ptedit_resolveRule
  <2> QED BY <2>2, exampleCalls
<1>8. Rule(example[8], o[8], o[9], homed)
  <2>1. SetPfnRule("vm", "target_entry", o[8], o[9], homed)
    BY Claims DEF SetPfnRule, RegisterSet, EntriesKept, Keeps, DataKept,
       exampleOutline, VPage, Register, At
  <2> HIDE DEF o, homed
  <2>2. Rule(ptedit_set_pfn("vm", "target_entry"), o[8], o[9], homed)
    BY <2>1, ptedit_set_pfnRule
  <2> QED BY <2>2, exampleCalls
<1>9. Rule(example[9], o[9], o[10], homed)
  <2>1. UpdateRule("address", "vm", o[9], o[10], homed)
    BY Claims DEF UpdateRule, EntrySet, Keeps, RegistersKept, DataKept,
       exampleOutline, VPage, Register, At
  <2> HIDE DEF o, homed
  <2>2. Rule(ptedit_update("address", "vm"), o[9], o[10], homed)
    BY <2>1, ptedit_updateRule
  <2> QED BY <2>2, exampleCalls
<1>10. Rule(example[10], o[10], o[11], homed)
  <2>1. LoadRule("address", "B", o[10])
    BY Claims DEF LoadRule, exampleOutline, VPage, Register, At
  <2>2. Weaker(o[10], o[11], homed, "-")
    BY Claims DEF Weaker, EntriesKept, Keeps, RegistersKept, DataKept,
       exampleOutline, VPage, Register, At
  <2> HIDE DEF o, homed
  <2>3. Rule(load("address", "B"), o[10], o[11], homed)
    BY <2>1, <2>2, loadRule
  <2> QED BY <2>3, exampleCalls
<1>11. Rule(example[11], o[11], o[12], homed)
  <2>1. ReadPageRule("old", "A", o[11])
    BY Claims DEF ReadPageRule, exampleOutline, VPage, Register, At
  <2>2. Weaker(o[11], o[12], homed, "-")
    BY Claims DEF Weaker, EntriesKept, Keeps, RegistersKept, DataKept,
       exampleOutline, VPage, Register, At
  <2> HIDE DEF o, homed
  <2>3. Rule(ptedit_read_physical_page("old", "A"), o[11], o[12], homed)
    BY <2>1, <2>2, ptedit_read_physical_pageRule
  <2> QED BY <2>3, exampleCalls
<1>12. Rule(example[12], o[12], o[13], homed)
  <2>1. PmapRule("new_addr", "old", o[12], o[13], homed)
    BY Claims DEF PmapRule, EntrySet, Keeps, RegistersKept, DataKept,
       exampleOutline, VPage, Register, At
  <2> HIDE DEF o, homed
  <2>2. Rule(ptedit_pmap("new_addr", "old"), o[12], o[13], homed)
    BY <2>1, ptedit_pmapRule
  <2> QED BY <2>2, exampleCalls
<1>13. Rule(example[13], o[13], o[14], homed)
  <2>1. LoadRule("new_addr", "A", o[13])
    BY Claims DEF LoadRule, exampleOutline, VPage, Register, At
  <2>2. Weaker(o[13], o[14], homed, "-")
    BY Claims DEF Weaker, EntriesKept, Keeps, RegistersKept, DataKept,
       exampleOutline, VPage, Register, At
  <2> HIDE DEF o, homed
  <2>3. Rule(load("new_addr", "A"), o[13], o[14], homed)
    BY <2>1, <2>2, loadRule
  <2> QED BY <2>3, exampleCalls
<1>14. Rule(example[14], o[14], o[15], homed)
  <2>1. WritePageRule("target_entry", "C", o[14], o[15], homed)
    BY Claims DEF WritePageRule, EntriesKept, Keeps, RegistersKept, DataSet,
       exampleOutline, VPage, Register, At
  <2> HIDE DEF o, homed
  <2>2. Rule(ptedit_write_physical_page("target_entry", "C"), o[14], o[15], homed)
    BY <2>1, ptedit_write_physical_pageRule DEF Letter
  <2> QED BY <2>2, exampleCalls
<1>15. Rule(example[15], o[15], o[16], homed)
  <2>1. Weaker(o[15], o[16], homed, "-")
    BY Claims DEF Weaker, EntriesKept, Keeps, RegistersKept, DataKept,
       exampleOutline, VPage, Register, At
  <2> HIDE DEF o, homed
  <2>2. Rule(ptedit_full_serializing_barrier, o[15], o[16], homed)
    BY <2>1, ptedit_full_serializing_barrierRule
  <2> QED BY <2>2, exampleCalls
<1>16. Rule(example[16], o[16], o[17], homed)
  <2>1. LoadRule("address", "C", o[16])
    BY Claims DEF LoadRule, exampleOutline, VPage, Register, At
  <2>2. Weaker(o[16], o[17], homed, "-")
    BY Claims DEF Weaker, EntriesKept, Keeps, RegistersKept, DataKept,
       exampleOutline, VPage, Register, At
  <2> HIDE DEF o, homed
  <2>3. Rule(load("address", "C"), o[16], o[17], homed)
    BY <2>1, <2>2, loadRule
  <2> QED BY <2>3, exampleCalls
<1>17. Rule(example[17], o[17], o[18], homed)
  <2>1. o[17].pte["address"] = At("target") /\ o[17].reg["old"] = At("address")
    BY DEF exampleOutline, VPage, Register
  <2>2. /\ EntrySet(o[17], o[18], "address", At("address"), homed, o[17].stale \ {"address"})
        /\ DataKept(o[17], o[18])
    BY Claims DEF EntrySet, Keeps, RegistersKept, DataKept, exampleOutline, VPage,
       Register, At
  <2>3. PteSetPfnRule("address", "old", o[17], o[18], homed)
    BY <2>1, <2>2, Claims DEF PteSetPfnRule, VPage, Register, At
  <2> HIDE DEF o, homed
  <2>4. Rule(ptedit_pte_set_pfn("address", "old"), o[17], o[18], homed)
    BY <2>3, ptedit_pte_set_pfnRule
  <2> QED BY <2>4, exampleCalls
<1>18. Rule(example[18], o[18], o[19], homed)
  <2>1. MunmapRule("address", o[18], o[19], homed)
    BY Claims DEF MunmapRule, EntrySet, Keeps, RegistersKept, DataKept,
       exampleOutline, VPage, Register, At
  <2> HIDE DEF o, homed
  <2>2. Rule(munmap("address"), o[18], o[19], homed)
    BY <2>1, munmapRule
  <2> QED BY <2>2, exampleCalls
<1>19. Rule(example[19], o[19], o[20], homed)
  <2>1. MunmapRule("target", o[19], o[20], homed)
    BY Claims DEF MunmapRule, EntrySet, Keeps, RegistersKept, DataKept,
       exampleOutline, VPage, Register, At
  <2> HIDE DEF o, homed
  <2>2. Rule(munmap("target"), o[19], o[20], homed)
    BY <2>1, munmapRule
  <2> QED BY <2>2, exampleCalls
<1>20. Rule(example[20], o[20], o[21], homed)
  <2>1. Weaker(o[20], o[21], homed, "-")
    BY Claims DEF Weaker, EntriesKept, Keeps, RegistersKept, DataKept,
       exampleOutline, VPage, Register, At
  <2> HIDE DEF o, homed
  <2>2. Rule(ptedit_cleanup, o[20], o[21], homed)
    BY <2>1, ptedit_cleanupRule
  <2> QED BY <2>2, exampleCalls
<1> HIDE DEF o, homed
<1>21. Rule(example[i], o[i], o[i + 1], homed)
  BY <1>1, <1>2, <1>3, <1>4, <1>5, <1>6, <1>7, <1>8, <1>9, <1>10, <1>11, <1>12,
     <1>13, <1>14, <1>15, <1>16, <1>17, <1>18, <1>19, <1>20
<1> QED BY <1>21 DEF o, homed

\* Where example may go on instead, its outline allows it.
LEMMA exampleJumps ==
  ASSUME NEW i \in 1..20
  PROVE  Jumps(example, i, exampleOutline, {"address", "target"})
<1> DEFINE o == exampleOutline
           homed == {"address", "target"}
<1>1. Weaker(o[1], o[21], homed, "-")
  BY Claims DEF Weaker, EntriesKept, Keeps, RegistersKept, DataKept, exampleOutline,
     VPage, Register, At
<1>2. Weaker(o[4], o[18], homed, "-")
  BY Claims DEF Weaker, EntriesKept, Keeps, RegistersKept, DataKept, exampleOutline,
     VPage, Register, At
<1>3. Weaker(o[12], o[21], homed, "killed")
  BY Claims DEF Weaker, EntriesKept, Keeps, RegistersKept, DataKept, exampleOutline,
     VPage, Register, At
<1> HIDE DEF o, homed
<1>4. Jumps(example, i, o, homed)
  <2>1. CASE i = 1
    BY <2>1, <1>1, exampleCalls DEF Jumps, ptedit_init
  <2>2. CASE i = 2
    BY <2>2, exampleCalls DEF Jumps, mmap
  <2>3. CASE i = 3
    BY <2>3, exampleCalls DEF Jumps, mmap
  <2>4. CASE i = 4
    BY <2>4, <1>2, exampleCalls DEF Jumps, resolve_or
  <2>5. CASE i = 5
    BY <2>5, exampleCalls DEF Jumps, load
  <2>6. CASE i = 6
    BY <2>6, exampleCalls DEF Jumps, copy
  <2>7. CASE i = 7
    BY <2>7, exampleCalls DEF Jumps, ptedit_resolve
  <2>8. CASE i = 8
    BY <2>8, exampleCalls DEF Jumps, ptedit_set_pfn
  <2>9. CASE i = 9
    BY <2>9, exampleCalls DEF Jumps, ptedit_update
  <2>10. CASE i = 10
    BY <2>10, exampleCalls DEF Jumps, load
  <2>11. CASE i = 11
    BY <2>11, exampleCalls DEF Jumps, ptedit_read_physical_page
  <2>12. CASE i = 12
    BY <2>12, <1>3, exampleCalls DEF Jumps, ptedit_pmap
  <2>13. CASE i = 13
    BY <2>13, exampleCalls DEF Jumps, load
  <2>14. CASE i = 14
    BY <2>14, exampleCalls DEF Jumps, ptedit_write_physical_page
  <2>15. CASE i = 15
    BY <2>15, exampleCalls DEF Jumps, ptedit_full_serializing_barrier
  <2>16. CASE i = 16
    BY <2>16, exampleCalls DEF Jumps, load
  <2>17. CASE i = 17
    BY <2>17, exampleCalls DEF Jumps, ptedit_pte_set_pfn
  <2>18. CASE i = 18
    BY <2>18, exampleCalls DEF Jumps, munmap
  <2>19. CASE i = 19
    BY <2>19, exampleCalls DEF Jumps, munmap
  <2>20. CASE i = 20
    BY <2>20, exampleCalls DEF Jumps, ptedit_cleanup
  <2> QED BY <2>1, <2>2, <2>3, <2>4, <2>5, <2>6, <2>7, <2>8, <2>9, <2>10, <2>11,
     <2>12, <2>13, <2>14, <2>15, <2>16, <2>17, <2>18, <2>19, <2>20
<1> QED BY <1>4 DEF o, homed

\* The outline of example.
LEMMA exampleOutlined == Outlined(example, exampleOutline, {"address", "target"})
<1>1. Weaker(Start, exampleOutline[1], {"address", "target"}, "-")
  BY Claims DEF Start, Weaker, EntriesKept, Keeps, RegistersKept, DataKept,
     exampleOutline, VPage, Register, At
<1>2. exampleOutline[21].same = {} /\ \A v \in VPage : exampleOutline[21].pte[v] = Own
  BY DEF exampleOutline, VPage
<1> QED BY <1>1, <1>2, exampleCalls, exampleTyped, exampleRules, exampleJumps DEF Outlined

\* The calls of map_pt.
LEMMA map_ptCalls ==
  /\ Len(map_pt) = 12
  /\ map_pt[1] = mmap("target", "B")
  /\ map_pt[2] = mmap("secret", "S")
  /\ map_pt[3] = ptedit_init
  /\ map_pt[4] = ptedit_resolve("secret_entry", "secret")
  /\ map_pt[5] = ptedit_resolve("target_entry", "target")
  /\ map_pt[6] = ptedit_pmap("pt", "pmd")
  /\ map_pt[7] = load_entry("pt", "target", "target_entry")
  /\ map_pt[8] = store_pfn("pt", "target", "secret_entry")
  /\ map_pt[9] = ptedit_invalidate_tlb("target")
  /\ map_pt[10] = load("target", "S")
  /\ map_pt[11] = store_entry("pt", "target", "target_entry")
  /\ map_pt[12] = ptedit_cleanup
BY DEF map_pt

\* The outline of map_pt is one, and what it says of its entries is pinned.
LEMMA map_ptTyped ==
  ASSUME NEW i \in 1..13
  PROVE  map_ptOutline[i] \in Knowledge /\ Pinned(map_ptOutline[i])
<1> DEFINE k == map_ptOutline[i]
<1>1. k.pte \in [VPage -> Claim]
  BY ClaimTypes DEF map_ptOutline, At, VPage
<1>2. k.reg \in [Register -> Claim]
  BY ClaimTypes DEF map_ptOutline, At, VPage
<1>3. k.data \in [VPage -> Letter \cup {"-"}]
  BY DEF map_ptOutline, Letter
<1>4. k.stale \in SUBSET VPage
  BY DEF map_ptOutline, VPage
<1>5. k.same \in SUBSET (Register \X (VPage \ {"child_fn"}))
  BY DEF map_ptOutline, VPage, Register
<1>6. k = [pte |-> k.pte, reg |-> k.reg, data |-> k.data, stale |-> k.stale,
           same |-> k.same]
  BY Zenon DEF map_ptOutline
<1>7. ASSUME NEW v \in VPage
      PROVE  \/ k.pte[v] = Unmapped \/ k.pte[v] = Own \/ k.pte[v] = At(v)
             \/ k.pte[v] = At("table")
             \/ v = "target" /\ k.pte[v] = At("secret") /\ k.reg["secret_entry"] = At("secret")
  <2>1. i \in 9..11 => k.reg["secret_entry"] = At("secret")
    BY DEF map_ptOutline, Register
  <2>2. k.pte["target"] = Unmapped \/ k.pte["target"] = Own \/ k.pte["target"] =
        At("target") \/ (i \in 9..11 /\ k.pte["target"] = At("secret"))
    BY DEF map_ptOutline, VPage
  <2>3. k.pte["secret"] = Unmapped \/ k.pte["secret"] = Own \/ k.pte["secret"] =
        At("secret")
    BY DEF map_ptOutline, VPage
  <2>4. k.pte["pt"] = Unmapped \/ k.pte["pt"] = Own \/ k.pte["pt"] = At("pt") \/
        k.pte["pt"] = At("table")
    BY DEF map_ptOutline, VPage
  <2>5. v \notin {"target", "secret", "pt"} => k.pte[v] = Unmapped \/ k.pte[v] = Own
    BY DEF map_ptOutline, VPage
  <2> HIDE DEF k
  <2> QED BY <2>1, <2>2, <2>3, <2>4, <2>5
<1> HIDE DEF k
<1>8. k \in Knowledge
  BY <1>1, <1>2, <1>3, <1>4, <1>5, <1>6 DEF Knowledge
<1>9. Pinned(k)
  BY <1>7, Claims DEF Pinned, At, VPage, Register
<1> QED BY <1>8, <1>9 DEF k

\* Every call of map_pt keeps to its rule in its outline.
LEMMA map_ptRules ==
  ASSUME NEW i \in 1..12
  PROVE  Rule(map_pt[i], map_ptOutline[i], map_ptOutline[i + 1], {"target", "secret"})
<1> DEFINE o == map_ptOutline
           homed == {"target", "secret"}
<1>1. Rule(map_pt[1], o[1], o[2], homed)
  <2>1. Fresh("target", o[1])
    BY Claims DEF Fresh, VPage, Register, map_ptOutline, At
  <2>2. MmapRule("target", "B", o[1], o[2], homed)
    BY <2>1, Claims DEF MmapRule, EntrySet, Keeps, RegistersKept, DataSet,
       map_ptOutline, VPage, Register, At
  <2> HIDE DEF o, homed
  <2>3. Rule(mmap("target", "B"), o[1], o[2], homed)
    BY <2>2, mmapRule DEF Letter
  <2> QED BY <2>3, map_ptCalls
<1>2. Rule(map_pt[2], o[2], o[3], homed)
  <2>1. Fresh("secret", o[2])
    BY Claims DEF Fresh, VPage, Register, map_ptOutline, At
  <2>2. MmapRule("secret", "S", o[2], o[3], homed)
    BY <2>1, Claims DEF MmapRule, EntrySet, Keeps, RegistersKept, DataSet,
       map_ptOutline, VPage, Register, At
  <2> HIDE DEF o, homed
  <2>3. Rule(mmap("secret", "S"), o[2], o[3], homed)
    BY <2>2, mmapRule DEF Letter
  <2> QED BY <2>3, map_ptCalls
<1>3. Rule(map_pt[3], o[3], o[4], homed)
  <2>1. Weaker(o[3], o[4], homed, "-")
    BY Claims DEF Weaker, EntriesKept, Keeps, RegistersKept, DataKept,
       map_ptOutline, VPage, Register, At
  <2> HIDE DEF o, homed
  <2>2. Rule(ptedit_init, o[3], o[4], homed)
    BY <2>1, ptedit_initRule
  <2> QED BY <2>2, map_ptCalls
<1>4. Rule(map_pt[4], o[4], o[5], homed)
  <2>1. ResolveRule("secret_entry", "secret", o[4], o[5], homed)
    BY Claims DEF ResolveRule, RegisterSet, EntriesKept, Keeps, DataKept,
       map_ptOutline, VPage, Register, At
  <2> HIDE DEF o, homed
  <2>2. Rule(ptedit_resolve("secret_entry", "secret"), o[4], o[5], homed)
    BY <2>1, ptedit_resolveRule
  <2> QED BY <2>2, map_ptCalls
<1>5. Rule(map_pt[5], o[5], o[6], homed)
  <2>1. ResolveRule("target_entry", "target", o[5], o[6], homed)
    BY Claims DEF ResolveRule, RegisterSet, EntriesKept, Keeps, DataKept,
       map_ptOutline, VPage, Register, At
  <2> HIDE DEF o, homed
  <2>2. Rule(ptedit_resolve("target_entry", "target"), o[5], o[6], homed)
    BY <2>1, ptedit_resolveRule
  <2> QED BY <2>2, map_ptCalls
<1>6. Rule(map_pt[6], o[6], o[7], homed)
  <2>1. PmapRule("pt", "pmd", o[6], o[7], homed)
    BY Claims DEF PmapRule, EntrySet, Keeps, RegistersKept, DataKept, map_ptOutline,
       VPage, Register, At
  <2> HIDE DEF o, homed
  <2>2. Rule(ptedit_pmap("pt", "pmd"), o[6], o[7], homed)
    BY <2>1, ptedit_pmapRule
  <2> QED BY <2>2, map_ptCalls
<1>7. Rule(map_pt[7], o[7], o[8], homed)
  <2>1. LoadEntryRule("pt", "target", "target_entry", o[7])
    BY Claims DEF LoadEntryRule, map_ptOutline, VPage, Register, At
  <2>2. Weaker(o[7], o[8], homed, "-")
    BY Claims DEF Weaker, EntriesKept, Keeps, RegistersKept, DataKept,
       map_ptOutline, VPage, Register, At
  <2> HIDE DEF o, homed
  <2>3. Rule(load_entry("pt", "target", "target_entry"), o[7], o[8], homed)
    BY <2>1, <2>2, load_entryRule
  <2> QED BY <2>3, map_ptCalls
<1>8. Rule(map_pt[8], o[8], o[9], homed)
  <2>1. o[8].pte["target"] = At("target") /\ o[8].reg["secret_entry"] = At("secret")
    BY DEF map_ptOutline, VPage, Register
  <2>2. /\ EntrySet(o[8], o[9], "target", At("secret"), homed, o[8].stale \cup {"target"})
        /\ DataKept(o[8], o[9])
    BY DEF EntrySet, Keeps, RegistersKept, DataKept, map_ptOutline, VPage, Register
  <2>3. StorePfnRule("target", "secret_entry", o[8], o[9], homed)
    BY <2>1, <2>2, Claims DEF StorePfnRule, VPage, Register, At
  <2> HIDE DEF o, homed
  <2>4. Rule(store_pfn("pt", "target", "secret_entry"), o[8], o[9], homed)
    BY <2>3, store_pfnRule
  <2> QED BY <2>4, map_ptCalls
<1>9. Rule(map_pt[9], o[9], o[10], homed)
  <2>1. InvalidateRule("target", o[9], o[10], homed)
    BY Claims DEF InvalidateRule, EntriesKept, Keeps, RegistersKept, DataKept,
       map_ptOutline, VPage, Register, At
  <2> HIDE DEF o, homed
  <2>2. Rule(ptedit_invalidate_tlb("target"), o[9], o[10], homed)
    BY <2>1, ptedit_invalidate_tlbRule
  <2> QED BY <2>2, map_ptCalls
<1>10. Rule(map_pt[10], o[10], o[11], homed)
  <2>1. LoadRule("target", "S", o[10])
    BY Claims DEF LoadRule, map_ptOutline, VPage, Register, At
  <2>2. Weaker(o[10], o[11], homed, "-")
    BY Claims DEF Weaker, EntriesKept, Keeps, RegistersKept, DataKept,
       map_ptOutline, VPage, Register, At
  <2> HIDE DEF o, homed
  <2>3. Rule(load("target", "S"), o[10], o[11], homed)
    BY <2>1, <2>2, loadRule
  <2> QED BY <2>3, map_ptCalls
<1>11. Rule(map_pt[11], o[11], o[12], homed)
  <2>1. StoreEntryRule("target", "target_entry", o[11], o[12], homed)
    BY Claims DEF StoreEntryRule, EntrySet, Keeps, RegistersKept, DataKept,
       map_ptOutline, VPage, Register, At
  <2> HIDE DEF o, homed
  <2>2. Rule(store_entry("pt", "target", "target_entry"), o[11], o[12], homed)
    BY <2>1, store_entryRule
  <2> QED BY <2>2, map_ptCalls
<1>12. Rule(map_pt[12], o[12], o[13], homed)
  <2>1. Weaker(o[12], o[13], homed, "-")
    BY Claims DEF Weaker, EntriesKept, Keeps, RegistersKept, DataKept,
       map_ptOutline, VPage, Register, At
  <2> HIDE DEF o, homed
  <2>2. Rule(ptedit_cleanup, o[12], o[13], homed)
    BY <2>1, ptedit_cleanupRule
  <2> QED BY <2>2, map_ptCalls
<1> HIDE DEF o, homed
<1>13. Rule(map_pt[i], o[i], o[i + 1], homed)
  BY <1>1, <1>2, <1>3, <1>4, <1>5, <1>6, <1>7, <1>8, <1>9, <1>10, <1>11, <1>12
<1> QED BY <1>13 DEF o, homed

\* Where map_pt may go on instead, its outline allows it.
LEMMA map_ptJumps ==
  ASSUME NEW i \in 1..12
  PROVE  Jumps(map_pt, i, map_ptOutline, {"target", "secret"})
<1> DEFINE o == map_ptOutline
           homed == {"target", "secret"}
<1>1. Weaker(o[3], o[13], homed, "-")
  BY Claims DEF Weaker, EntriesKept, Keeps, RegistersKept, DataKept, map_ptOutline,
     VPage, Register, At
<1>2. Weaker(o[6], o[13], homed, "killed")
  BY Claims DEF Weaker, EntriesKept, Keeps, RegistersKept, DataKept, map_ptOutline,
     VPage, Register, At
<1> HIDE DEF o, homed
<1>3. Jumps(map_pt, i, o, homed)
  <2>1. CASE i = 1
    BY <2>1, map_ptCalls DEF Jumps, mmap
  <2>2. CASE i = 2
    BY <2>2, map_ptCalls DEF Jumps, mmap
  <2>3. CASE i = 3
    BY <2>3, <1>1, map_ptCalls DEF Jumps, ptedit_init
  <2>4. CASE i = 4
    BY <2>4, map_ptCalls DEF Jumps, ptedit_resolve
  <2>5. CASE i = 5
    BY <2>5, map_ptCalls DEF Jumps, ptedit_resolve
  <2>6. CASE i = 6
    BY <2>6, <1>2, map_ptCalls DEF Jumps, ptedit_pmap
  <2>7. CASE i = 7
    BY <2>7, map_ptCalls DEF Jumps, load_entry
  <2>8. CASE i = 8
    BY <2>8, map_ptCalls DEF Jumps, store_pfn
  <2>9. CASE i = 9
    BY <2>9, map_ptCalls DEF Jumps, ptedit_invalidate_tlb
  <2>10. CASE i = 10
    BY <2>10, map_ptCalls DEF Jumps, load
  <2>11. CASE i = 11
    BY <2>11, map_ptCalls DEF Jumps, store_entry
  <2>12. CASE i = 12
    BY <2>12, map_ptCalls DEF Jumps, ptedit_cleanup
  <2> QED BY <2>1, <2>2, <2>3, <2>4, <2>5, <2>6, <2>7, <2>8, <2>9, <2>10, <2>11,
     <2>12
<1> QED BY <1>3 DEF o, homed

\* The outline of map_pt.
LEMMA map_ptOutlined == Outlined(map_pt, map_ptOutline, {"target", "secret"})
<1>1. Weaker(Start, map_ptOutline[1], {"target", "secret"}, "-")
  BY Claims DEF Start, Weaker, EntriesKept, Keeps, RegistersKept, DataKept,
     map_ptOutline, VPage, Register, At
<1>2. map_ptOutline[13].same = {} /\ \A v \in VPage : map_ptOutline[13].pte[v] = Own
  BY DEF map_ptOutline, VPage
<1> QED BY <1>1, <1>2, map_ptCalls, map_ptTyped, map_ptRules, map_ptJumps DEF Outlined

\* The calls of map_pt_manual.
LEMMA map_pt_manualCalls ==
  /\ Len(map_pt_manual) = 17
  /\ map_pt_manual[1] = mmap("pt", "A")
  /\ map_pt_manual[2] = mmap("target", "B")
  /\ map_pt_manual[3] = mmap("secret", "S")
  /\ map_pt_manual[4] = ptedit_init
  /\ map_pt_manual[5] = ptedit_resolve("secret_entry", "secret")
  /\ map_pt_manual[6] = ptedit_resolve("target_entry", "target")
  /\ map_pt_manual[7] = ptedit_resolve("pt_entry", "pt")
  /\ map_pt_manual[8] = copy("old", "pt_entry")
  /\ map_pt_manual[9] = ptedit_set_pfn("pt_entry", "pmd")
  /\ map_pt_manual[10] = ptedit_update("pt", "pt_entry")
  /\ map_pt_manual[11] = load_entry("pt", "target", "target_entry")
  /\ map_pt_manual[12] = store_pfn("pt", "target", "secret_entry")
  /\ map_pt_manual[13] = ptedit_invalidate_tlb("target")
  /\ map_pt_manual[14] = load("target", "S")
  /\ map_pt_manual[15] = store_entry("pt", "target", "target_entry")
  /\ map_pt_manual[16] = ptedit_update("pt", "old")
  /\ map_pt_manual[17] = ptedit_cleanup
BY DEF map_pt_manual

\* The outline of map_pt_manual is one, and what it says of its entries is pinned.
LEMMA map_pt_manualTyped ==
  ASSUME NEW i \in 1..18
  PROVE  map_pt_manualOutline[i] \in Knowledge /\ Pinned(map_pt_manualOutline[i])
<1> DEFINE k == map_pt_manualOutline[i]
<1>1. k.pte \in [VPage -> Claim]
  BY ClaimTypes DEF map_pt_manualOutline, At, VPage
<1>2. k.reg \in [Register -> Claim]
  BY ClaimTypes DEF map_pt_manualOutline, At, VPage
<1>3. k.data \in [VPage -> Letter \cup {"-"}]
  BY DEF map_pt_manualOutline, Letter
<1>4. k.stale \in SUBSET VPage
  BY DEF map_pt_manualOutline, VPage
<1>5. k.same \in SUBSET (Register \X (VPage \ {"child_fn"}))
  BY DEF map_pt_manualOutline, VPage, Register
<1>6. k = [pte |-> k.pte, reg |-> k.reg, data |-> k.data, stale |-> k.stale,
           same |-> k.same]
  BY Zenon DEF map_pt_manualOutline
<1>7. ASSUME NEW v \in VPage
      PROVE  \/ k.pte[v] = Unmapped \/ k.pte[v] = Own \/ k.pte[v] = At(v)
             \/ k.pte[v] = At("table")
             \/ v = "target" /\ k.pte[v] = At("secret") /\ k.reg["secret_entry"] = At("secret")
  <2>1. i \in 13..15 => k.reg["secret_entry"] = At("secret")
    BY DEF map_pt_manualOutline, Register
  <2>2. k.pte["pt"] = Unmapped \/ k.pte["pt"] = Own \/ k.pte["pt"] = At("pt") \/
        k.pte["pt"] = At("table")
    BY DEF map_pt_manualOutline, VPage
  <2>3. k.pte["target"] = Unmapped \/ k.pte["target"] = Own \/ k.pte["target"] =
        At("target") \/ (i \in 13..15 /\ k.pte["target"] = At("secret"))
    BY DEF map_pt_manualOutline, VPage
  <2>4. k.pte["secret"] = Unmapped \/ k.pte["secret"] = Own \/ k.pte["secret"] =
        At("secret")
    BY DEF map_pt_manualOutline, VPage
  <2>5. v \notin {"pt", "target", "secret"} => k.pte[v] = Unmapped \/ k.pte[v] = Own
    BY DEF map_pt_manualOutline, VPage
  <2> HIDE DEF k
  <2> QED BY <2>1, <2>2, <2>3, <2>4, <2>5
<1> HIDE DEF k
<1>8. k \in Knowledge
  BY <1>1, <1>2, <1>3, <1>4, <1>5, <1>6 DEF Knowledge
<1>9. Pinned(k)
  BY <1>7, Claims DEF Pinned, At, VPage, Register
<1> QED BY <1>8, <1>9 DEF k

\* Every call of map_pt_manual keeps to its rule in its outline.
LEMMA map_pt_manualRules ==
  ASSUME NEW i \in 1..17
  PROVE  Rule(map_pt_manual[i], map_pt_manualOutline[i], map_pt_manualOutline[i + 1],
              {"pt", "target", "secret"})
<1> DEFINE o == map_pt_manualOutline
           homed == {"pt", "target", "secret"}
<1>1. Rule(map_pt_manual[1], o[1], o[2], homed)
  <2>1. Fresh("pt", o[1])
    BY Claims DEF Fresh, VPage, Register, map_pt_manualOutline, At
  <2>2. MmapRule("pt", "A", o[1], o[2], homed)
    BY <2>1, Claims DEF MmapRule, EntrySet, Keeps, RegistersKept, DataSet,
       map_pt_manualOutline, VPage, Register, At
  <2> HIDE DEF o, homed
  <2>3. Rule(mmap("pt", "A"), o[1], o[2], homed)
    BY <2>2, mmapRule DEF Letter
  <2> QED BY <2>3, map_pt_manualCalls
<1>2. Rule(map_pt_manual[2], o[2], o[3], homed)
  <2>1. Fresh("target", o[2])
    BY Claims DEF Fresh, VPage, Register, map_pt_manualOutline, At
  <2>2. MmapRule("target", "B", o[2], o[3], homed)
    BY <2>1, Claims DEF MmapRule, EntrySet, Keeps, RegistersKept, DataSet,
       map_pt_manualOutline, VPage, Register, At
  <2> HIDE DEF o, homed
  <2>3. Rule(mmap("target", "B"), o[2], o[3], homed)
    BY <2>2, mmapRule DEF Letter
  <2> QED BY <2>3, map_pt_manualCalls
<1>3. Rule(map_pt_manual[3], o[3], o[4], homed)
  <2>1. Fresh("secret", o[3])
    BY Claims DEF Fresh, VPage, Register, map_pt_manualOutline, At
  <2>2. MmapRule("secret", "S", o[3], o[4], homed)
    BY <2>1, Claims DEF MmapRule, EntrySet, Keeps, RegistersKept, DataSet,
       map_pt_manualOutline, VPage, Register, At
  <2> HIDE DEF o, homed
  <2>3. Rule(mmap("secret", "S"), o[3], o[4], homed)
    BY <2>2, mmapRule DEF Letter
  <2> QED BY <2>3, map_pt_manualCalls
<1>4. Rule(map_pt_manual[4], o[4], o[5], homed)
  <2>1. Weaker(o[4], o[5], homed, "-")
    BY Claims DEF Weaker, EntriesKept, Keeps, RegistersKept, DataKept,
       map_pt_manualOutline, VPage, Register, At
  <2> HIDE DEF o, homed
  <2>2. Rule(ptedit_init, o[4], o[5], homed)
    BY <2>1, ptedit_initRule
  <2> QED BY <2>2, map_pt_manualCalls
<1>5. Rule(map_pt_manual[5], o[5], o[6], homed)
  <2>1. ResolveRule("secret_entry", "secret", o[5], o[6], homed)
    BY Claims DEF ResolveRule, RegisterSet, EntriesKept, Keeps, DataKept,
       map_pt_manualOutline, VPage, Register, At
  <2> HIDE DEF o, homed
  <2>2. Rule(ptedit_resolve("secret_entry", "secret"), o[5], o[6], homed)
    BY <2>1, ptedit_resolveRule
  <2> QED BY <2>2, map_pt_manualCalls
<1>6. Rule(map_pt_manual[6], o[6], o[7], homed)
  <2>1. ResolveRule("target_entry", "target", o[6], o[7], homed)
    BY Claims DEF ResolveRule, RegisterSet, EntriesKept, Keeps, DataKept,
       map_pt_manualOutline, VPage, Register, At
  <2> HIDE DEF o, homed
  <2>2. Rule(ptedit_resolve("target_entry", "target"), o[6], o[7], homed)
    BY <2>1, ptedit_resolveRule
  <2> QED BY <2>2, map_pt_manualCalls
<1>7. Rule(map_pt_manual[7], o[7], o[8], homed)
  <2>1. ResolveRule("pt_entry", "pt", o[7], o[8], homed)
    BY Claims DEF ResolveRule, RegisterSet, EntriesKept, Keeps, DataKept,
       map_pt_manualOutline, VPage, Register, At
  <2> HIDE DEF o, homed
  <2>2. Rule(ptedit_resolve("pt_entry", "pt"), o[7], o[8], homed)
    BY <2>1, ptedit_resolveRule
  <2> QED BY <2>2, map_pt_manualCalls
<1>8. Rule(map_pt_manual[8], o[8], o[9], homed)
  <2>1. CopyRule("old", "pt_entry", o[8], o[9], homed)
    BY Claims DEF CopyRule, RegisterSet, EntriesKept, Keeps, DataKept,
       map_pt_manualOutline, VPage, Register, At
  <2> HIDE DEF o, homed
  <2>2. Rule(copy("old", "pt_entry"), o[8], o[9], homed)
    BY <2>1, copyRule
  <2> QED BY <2>2, map_pt_manualCalls
<1>9. Rule(map_pt_manual[9], o[9], o[10], homed)
  <2>1. SetPfnRule("pt_entry", "pmd", o[9], o[10], homed)
    BY Claims DEF SetPfnRule, RegisterSet, EntriesKept, Keeps, DataKept,
       map_pt_manualOutline, VPage, Register, At
  <2> HIDE DEF o, homed
  <2>2. Rule(ptedit_set_pfn("pt_entry", "pmd"), o[9], o[10], homed)
    BY <2>1, ptedit_set_pfnRule
  <2> QED BY <2>2, map_pt_manualCalls
<1>10. Rule(map_pt_manual[10], o[10], o[11], homed)
  <2>1. UpdateRule("pt", "pt_entry", o[10], o[11], homed)
    BY Claims DEF UpdateRule, EntrySet, Keeps, RegistersKept, DataKept,
       map_pt_manualOutline, VPage, Register, At
  <2> HIDE DEF o, homed
  <2>2. Rule(ptedit_update("pt", "pt_entry"), o[10], o[11], homed)
    BY <2>1, ptedit_updateRule
  <2> QED BY <2>2, map_pt_manualCalls
<1>11. Rule(map_pt_manual[11], o[11], o[12], homed)
  <2>1. LoadEntryRule("pt", "target", "target_entry", o[11])
    BY Claims DEF LoadEntryRule, map_pt_manualOutline, VPage, Register, At
  <2>2. Weaker(o[11], o[12], homed, "-")
    BY Claims DEF Weaker, EntriesKept, Keeps, RegistersKept, DataKept,
       map_pt_manualOutline, VPage, Register, At
  <2> HIDE DEF o, homed
  <2>3. Rule(load_entry("pt", "target", "target_entry"), o[11], o[12], homed)
    BY <2>1, <2>2, load_entryRule
  <2> QED BY <2>3, map_pt_manualCalls
<1>12. Rule(map_pt_manual[12], o[12], o[13], homed)
  <2>1. o[12].pte["target"] = At("target") /\ o[12].reg["secret_entry"] = At("secret")
    BY DEF map_pt_manualOutline, VPage, Register
  <2>2. /\ EntrySet(o[12], o[13], "target", At("secret"), homed, o[12].stale \cup {"target"})
        /\ DataKept(o[12], o[13])
    BY DEF EntrySet, Keeps, RegistersKept, DataKept, map_pt_manualOutline, VPage,
       Register
  <2>3. StorePfnRule("target", "secret_entry", o[12], o[13], homed)
    BY <2>1, <2>2, Claims DEF StorePfnRule, VPage, Register, At
  <2> HIDE DEF o, homed
  <2>4. Rule(store_pfn("pt", "target", "secret_entry"), o[12], o[13], homed)
    BY <2>3, store_pfnRule
  <2> QED BY <2>4, map_pt_manualCalls
<1>13. Rule(map_pt_manual[13], o[13], o[14], homed)
  <2>1. InvalidateRule("target", o[13], o[14], homed)
    BY Claims DEF InvalidateRule, EntriesKept, Keeps, RegistersKept, DataKept,
       map_pt_manualOutline, VPage, Register, At
  <2> HIDE DEF o, homed
  <2>2. Rule(ptedit_invalidate_tlb("target"), o[13], o[14], homed)
    BY <2>1, ptedit_invalidate_tlbRule
  <2> QED BY <2>2, map_pt_manualCalls
<1>14. Rule(map_pt_manual[14], o[14], o[15], homed)
  <2>1. LoadRule("target", "S", o[14])
    BY Claims DEF LoadRule, map_pt_manualOutline, VPage, Register, At
  <2>2. Weaker(o[14], o[15], homed, "-")
    BY Claims DEF Weaker, EntriesKept, Keeps, RegistersKept, DataKept,
       map_pt_manualOutline, VPage, Register, At
  <2> HIDE DEF o, homed
  <2>3. Rule(load("target", "S"), o[14], o[15], homed)
    BY <2>1, <2>2, loadRule
  <2> QED BY <2>3, map_pt_manualCalls
<1>15. Rule(map_pt_manual[15], o[15], o[16], homed)
  <2>1. StoreEntryRule("target", "target_entry", o[15], o[16], homed)
    BY Claims DEF StoreEntryRule, EntrySet, Keeps, RegistersKept, DataKept,
       map_pt_manualOutline, VPage, Register, At
  <2> HIDE DEF o, homed
  <2>2. Rule(store_entry("pt", "target", "target_entry"), o[15], o[16], homed)
    BY <2>1, store_entryRule
  <2> QED BY <2>2, map_pt_manualCalls
<1>16. Rule(map_pt_manual[16], o[16], o[17], homed)
  <2>1. UpdateRule("pt", "old", o[16], o[17], homed)
    BY Claims DEF UpdateRule, EntrySet, Keeps, RegistersKept, DataKept,
       map_pt_manualOutline, VPage, Register, At
  <2> HIDE DEF o, homed
  <2>2. Rule(ptedit_update("pt", "old"), o[16], o[17], homed)
    BY <2>1, ptedit_updateRule
  <2> QED BY <2>2, map_pt_manualCalls
<1>17. Rule(map_pt_manual[17], o[17], o[18], homed)
  <2>1. Weaker(o[17], o[18], homed, "-")
    BY Claims DEF Weaker, EntriesKept, Keeps, RegistersKept, DataKept,
       map_pt_manualOutline, VPage, Register, At
  <2> HIDE DEF o, homed
  <2>2. Rule(ptedit_cleanup, o[17], o[18], homed)
    BY <2>1, ptedit_cleanupRule
  <2> QED BY <2>2, map_pt_manualCalls
<1> HIDE DEF o, homed
<1>18. Rule(map_pt_manual[i], o[i], o[i + 1], homed)
  BY <1>1, <1>2, <1>3, <1>4, <1>5, <1>6, <1>7, <1>8, <1>9, <1>10, <1>11, <1>12,
     <1>13, <1>14, <1>15, <1>16, <1>17
<1> QED BY <1>18 DEF o, homed

\* Where map_pt_manual may go on instead, its outline allows it.
LEMMA map_pt_manualJumps ==
  ASSUME NEW i \in 1..17
  PROVE  Jumps(map_pt_manual, i, map_pt_manualOutline, {"pt", "target", "secret"})
<1> DEFINE o == map_pt_manualOutline
           homed == {"pt", "target", "secret"}
<1>1. Weaker(o[4], o[18], homed, "-")
  BY Claims DEF Weaker, EntriesKept, Keeps, RegistersKept, DataKept,
     map_pt_manualOutline, VPage, Register, At
<1> HIDE DEF o, homed
<1>2. Jumps(map_pt_manual, i, o, homed)
  <2>1. CASE i = 1
    BY <2>1, map_pt_manualCalls DEF Jumps, mmap
  <2>2. CASE i = 2
    BY <2>2, map_pt_manualCalls DEF Jumps, mmap
  <2>3. CASE i = 3
    BY <2>3, map_pt_manualCalls DEF Jumps, mmap
  <2>4. CASE i = 4
    BY <2>4, <1>1, map_pt_manualCalls DEF Jumps, ptedit_init
  <2>5. CASE i = 5
    BY <2>5, map_pt_manualCalls DEF Jumps, ptedit_resolve
  <2>6. CASE i = 6
    BY <2>6, map_pt_manualCalls DEF Jumps, ptedit_resolve
  <2>7. CASE i = 7
    BY <2>7, map_pt_manualCalls DEF Jumps, ptedit_resolve
  <2>8. CASE i = 8
    BY <2>8, map_pt_manualCalls DEF Jumps, copy
  <2>9. CASE i = 9
    BY <2>9, map_pt_manualCalls DEF Jumps, ptedit_set_pfn
  <2>10. CASE i = 10
    BY <2>10, map_pt_manualCalls DEF Jumps, ptedit_update
  <2>11. CASE i = 11
    BY <2>11, map_pt_manualCalls DEF Jumps, load_entry
  <2>12. CASE i = 12
    BY <2>12, map_pt_manualCalls DEF Jumps, store_pfn
  <2>13. CASE i = 13
    BY <2>13, map_pt_manualCalls DEF Jumps, ptedit_invalidate_tlb
  <2>14. CASE i = 14
    BY <2>14, map_pt_manualCalls DEF Jumps, load
  <2>15. CASE i = 15
    BY <2>15, map_pt_manualCalls DEF Jumps, store_entry
  <2>16. CASE i = 16
    BY <2>16, map_pt_manualCalls DEF Jumps, ptedit_update
  <2>17. CASE i = 17
    BY <2>17, map_pt_manualCalls DEF Jumps, ptedit_cleanup
  <2> QED BY <2>1, <2>2, <2>3, <2>4, <2>5, <2>6, <2>7, <2>8, <2>9, <2>10, <2>11,
     <2>12, <2>13, <2>14, <2>15, <2>16, <2>17
<1> QED BY <1>2 DEF o, homed

\* The outline of map_pt_manual.
LEMMA map_pt_manualOutlined ==
  Outlined(map_pt_manual, map_pt_manualOutline, {"pt", "target", "secret"})
<1>1. Weaker(Start, map_pt_manualOutline[1], {"pt", "target", "secret"}, "-")
  BY Claims DEF Start, Weaker, EntriesKept, Keeps, RegistersKept, DataKept,
     map_pt_manualOutline, VPage, Register, At
<1>2. /\ map_pt_manualOutline[18].same = {}
      /\ \A v \in VPage : map_pt_manualOutline[18].pte[v] = Own
  BY DEF map_pt_manualOutline, VPage
<1> QED BY <1>1, <1>2, map_pt_manualCalls, map_pt_manualTyped, map_pt_manualRules, map_pt_manualJumps
  DEF Outlined

\* The calls of uncachable.
LEMMA uncachableCalls ==
  /\ Len(uncachable) = 21
  /\ uncachable[1] = mmap("pt", "A")
  /\ uncachable[2] = ptedit_init
  /\ uncachable[3] = ptedit_resolve("vm", "pt")
  /\ uncachable[4] = find_mt("uc", 21)
  /\ uncachable[5] = ptedit_apply_mt("vm", "uc")
  /\ uncachable[6] = ptedit_update("pt", "vm")
  /\ uncachable[7] = behaves("pt", "uc", TRUE)
  /\ uncachable[8] = find_mt("wb", 21)
  /\ uncachable[9] = ptedit_apply_mt("vm", "wb")
  /\ uncachable[10] = ptedit_update("pt", "vm")
  /\ uncachable[11] = behaves("pt", "uc", FALSE)
  /\ uncachable[12] = mmap_huge("huge_page", 21)
  /\ uncachable[13] = ptedit_resolve("vm", "huge_page")
  /\ uncachable[14] = copy("old", "vm")
  /\ uncachable[15] = ptedit_apply_mt("vm", "uc")
  /\ uncachable[16] = ptedit_update("huge_page", "vm")
  /\ uncachable[17] = behaves("huge_page", "uc", TRUE)
  /\ uncachable[18] = ptedit_update("huge_page", "old")
  /\ uncachable[19] = behaves("huge_page", "uc", FALSE)
  /\ uncachable[20] = munmap("huge_page")
  /\ uncachable[21] = ptedit_cleanup
BY DEF uncachable

\* The outline of uncachable is one, and what it says of its entries is pinned.
LEMMA uncachableTyped ==
  ASSUME NEW i \in 1..22
  PROVE  uncachableOutline[i] \in Knowledge /\ Pinned(uncachableOutline[i])
<1> DEFINE k == uncachableOutline[i]
<1>1. k.pte \in [VPage -> Claim]
  BY ClaimTypes DEF uncachableOutline, At, VPage
<1>2. k.reg \in [Register -> Claim]
  BY ClaimTypes DEF uncachableOutline, At, VPage
<1>3. k.data \in [VPage -> Letter \cup {"-"}]
  BY DEF uncachableOutline, Letter
<1>4. k.stale \in SUBSET VPage
  BY DEF uncachableOutline, VPage
<1>5. k.same \in SUBSET (Register \X (VPage \ {"child_fn"}))
  BY DEF uncachableOutline, VPage, Register
<1>6. k = [pte |-> k.pte, reg |-> k.reg, data |-> k.data, stale |-> k.stale,
           same |-> k.same]
  BY Zenon DEF uncachableOutline
<1>7. ASSUME NEW v \in VPage
      PROVE  \/ k.pte[v] = Unmapped \/ k.pte[v] = Own \/ k.pte[v] = At(v)
             \/ k.pte[v] = Maps(v, {"uc"})
  <2>1. k.pte["pt"] = Unmapped \/ k.pte["pt"] = Own \/ k.pte["pt"] = At("pt") \/
        k.pte["pt"] = Maps("pt", {"uc"})
    BY DEF uncachableOutline, VPage
  <2>2. k.pte["huge_page"] = Unmapped \/ k.pte["huge_page"] = Own \/
        k.pte["huge_page"] = At("huge_page") \/ k.pte["huge_page"] =
        Maps("huge_page", {"uc"})
    BY DEF uncachableOutline, VPage
  <2>3. v \notin {"pt", "huge_page"} => k.pte[v] = Unmapped \/ k.pte[v] = Own
    BY DEF uncachableOutline, VPage
  <2> HIDE DEF k
  <2> QED BY <2>1, <2>2, <2>3
<1> HIDE DEF k
<1>8. k \in Knowledge
  BY <1>1, <1>2, <1>3, <1>4, <1>5, <1>6 DEF Knowledge
<1>9. Pinned(k)
  BY <1>7, Claims DEF Pinned, At, VPage, Register
<1> QED BY <1>8, <1>9 DEF k

\* Every call of uncachable keeps to its rule in its outline.
LEMMA uncachableRules ==
  ASSUME NEW i \in 1..21
  PROVE  Rule(uncachable[i], uncachableOutline[i], uncachableOutline[i + 1],
              {"pt", "huge_page"})
<1> DEFINE o == uncachableOutline
           homed == {"pt", "huge_page"}
<1>1. Rule(uncachable[1], o[1], o[2], homed)
  <2>1. Fresh("pt", o[1])
    BY Claims DEF Fresh, VPage, Register, uncachableOutline, At
  <2>2. MmapRule("pt", "A", o[1], o[2], homed)
    BY <2>1, Claims DEF MmapRule, EntrySet, Keeps, RegistersKept, DataSet,
       uncachableOutline, VPage, Register, At
  <2> HIDE DEF o, homed
  <2>3. Rule(mmap("pt", "A"), o[1], o[2], homed)
    BY <2>2, mmapRule DEF Letter
  <2> QED BY <2>3, uncachableCalls
<1>2. Rule(uncachable[2], o[2], o[3], homed)
  <2>1. Weaker(o[2], o[3], homed, "-")
    BY Claims DEF Weaker, EntriesKept, Keeps, RegistersKept, DataKept,
       uncachableOutline, VPage, Register, At
  <2> HIDE DEF o, homed
  <2>2. Rule(ptedit_init, o[2], o[3], homed)
    BY <2>1, ptedit_initRule
  <2> QED BY <2>2, uncachableCalls
<1>3. Rule(uncachable[3], o[3], o[4], homed)
  <2>1. ResolveRule("vm", "pt", o[3], o[4], homed)
    BY Claims DEF ResolveRule, RegisterSet, EntriesKept, Keeps, DataKept,
       uncachableOutline, VPage, Register, At
  <2> HIDE DEF o, homed
  <2>2. Rule(ptedit_resolve("vm", "pt"), o[3], o[4], homed)
    BY <2>1, ptedit_resolveRule
  <2> QED BY <2>2, uncachableCalls
<1>4. Rule(uncachable[4], o[4], o[5], homed)
  <2>1. Weaker(o[4], o[5], homed, "-")
    BY Claims DEF Weaker, EntriesKept, Keeps, RegistersKept, DataKept,
       uncachableOutline, VPage, Register, At
  <2> HIDE DEF o, homed
  <2>2. Rule(find_mt("uc", 21), o[4], o[5], homed)
    BY <2>1, find_mtRule
  <2> QED BY <2>2, uncachableCalls
<1>5. Rule(uncachable[5], o[5], o[6], homed)
  <2>1. ApplyMtRule("vm", "uc", o[5], o[6], homed)
    BY Bits, Claims DEF ApplyMtRule, RegisterSet, EntriesKept, Keeps, DataKept,
       uncachableOutline, VPage, Register, At
  <2> HIDE DEF o, homed
  <2>2. Rule(ptedit_apply_mt("vm", "uc"), o[5], o[6], homed)
    BY <2>1, ptedit_apply_mtRule
  <2> QED BY <2>2, uncachableCalls
<1>6. Rule(uncachable[6], o[6], o[7], homed)
  <2>1. UpdateRule("pt", "vm", o[6], o[7], homed)
    BY Claims DEF UpdateRule, EntrySet, Keeps, RegistersKept, DataKept,
       uncachableOutline, VPage, Register, At
  <2> HIDE DEF o, homed
  <2>2. Rule(ptedit_update("pt", "vm"), o[6], o[7], homed)
    BY <2>1, ptedit_updateRule
  <2> QED BY <2>2, uncachableCalls
<1>7. Rule(uncachable[7], o[7], o[8], homed)
  <2>1. GetBitRule("pt", "uc", o[7]) /\ "uc" \in o[7].pte["pt"].bits
        /\ "pt" \notin o[7].stale /\ Known(o[7].pte["pt"])
    BY Claims DEF GetBitRule, uncachableOutline, VPage, Register, At
  <2>2. Weaker(o[7], o[8], homed, "-")
    BY Claims DEF Weaker, EntriesKept, Keeps, RegistersKept, DataKept,
       uncachableOutline, VPage, Register, At
  <2> HIDE DEF o, homed
  <2>3. Rule(behaves("pt", "uc", TRUE), o[7], o[8], homed)
    BY <2>1, <2>2, behavesRuleOn
  <2> QED BY <2>3, uncachableCalls
<1>8. Rule(uncachable[8], o[8], o[9], homed)
  <2>1. Weaker(o[8], o[9], homed, "-")
    BY Claims DEF Weaker, EntriesKept, Keeps, RegistersKept, DataKept,
       uncachableOutline, VPage, Register, At
  <2> HIDE DEF o, homed
  <2>2. Rule(find_mt("wb", 21), o[8], o[9], homed)
    BY <2>1, find_mtRule
  <2> QED BY <2>2, uncachableCalls
<1>9. Rule(uncachable[9], o[9], o[10], homed)
  <2>1. ApplyMtRule("vm", "wb", o[9], o[10], homed)
    BY Bits, Claims DEF ApplyMtRule, RegisterSet, EntriesKept, Keeps, DataKept,
       uncachableOutline, VPage, Register, At
  <2> HIDE DEF o, homed
  <2>2. Rule(ptedit_apply_mt("vm", "wb"), o[9], o[10], homed)
    BY <2>1, ptedit_apply_mtRule
  <2> QED BY <2>2, uncachableCalls
<1>10. Rule(uncachable[10], o[10], o[11], homed)
  <2>1. UpdateRule("pt", "vm", o[10], o[11], homed)
    BY Claims DEF UpdateRule, EntrySet, Keeps, RegistersKept, DataKept,
       uncachableOutline, VPage, Register, At
  <2> HIDE DEF o, homed
  <2>2. Rule(ptedit_update("pt", "vm"), o[10], o[11], homed)
    BY <2>1, ptedit_updateRule
  <2> QED BY <2>2, uncachableCalls
<1>11. Rule(uncachable[11], o[11], o[12], homed)
  <2>1. GetBitRule("pt", "uc", o[11]) /\ "uc" \notin o[11].pte["pt"].bits
        /\ "pt" \notin o[11].stale /\ Known(o[11].pte["pt"])
    BY Claims DEF GetBitRule, uncachableOutline, VPage, Register, At
  <2>2. Weaker(o[11], o[12], homed, "-")
    BY Claims DEF Weaker, EntriesKept, Keeps, RegistersKept, DataKept,
       uncachableOutline, VPage, Register, At
  <2> HIDE DEF o, homed
  <2>3. Rule(behaves("pt", "uc", FALSE), o[11], o[12], homed)
    BY <2>1, <2>2, behavesRuleOff
  <2> QED BY <2>3, uncachableCalls
<1>12. Rule(uncachable[12], o[12], o[13], homed)
  <2>1. Fresh("huge_page", o[12])
    BY Claims DEF Fresh, VPage, Register, uncachableOutline, At
  <2>2. MmapRule("huge_page", "-", o[12], o[13], homed)
    BY <2>1, Claims DEF MmapRule, EntrySet, Keeps, RegistersKept, DataSet,
       uncachableOutline, VPage, Register, At
  <2> HIDE DEF o, homed
  <2>3. Rule(mmap_huge("huge_page", 21), o[12], o[13], homed)
    BY <2>2, mmap_hugeRule
  <2> QED BY <2>3, uncachableCalls
<1>13. Rule(uncachable[13], o[13], o[14], homed)
  <2>1. ResolveRule("vm", "huge_page", o[13], o[14], homed)
    BY Claims DEF ResolveRule, RegisterSet, EntriesKept, Keeps, DataKept,
       uncachableOutline, VPage, Register, At
  <2> HIDE DEF o, homed
  <2>2. Rule(ptedit_resolve("vm", "huge_page"), o[13], o[14], homed)
    BY <2>1, ptedit_resolveRule
  <2> QED BY <2>2, uncachableCalls
<1>14. Rule(uncachable[14], o[14], o[15], homed)
  <2>1. CopyRule("old", "vm", o[14], o[15], homed)
    BY Claims DEF CopyRule, RegisterSet, EntriesKept, Keeps, DataKept,
       uncachableOutline, VPage, Register, At
  <2> HIDE DEF o, homed
  <2>2. Rule(copy("old", "vm"), o[14], o[15], homed)
    BY <2>1, copyRule
  <2> QED BY <2>2, uncachableCalls
<1>15. Rule(uncachable[15], o[15], o[16], homed)
  <2>1. ApplyMtRule("vm", "uc", o[15], o[16], homed)
    BY Bits, Claims DEF ApplyMtRule, RegisterSet, EntriesKept, Keeps, DataKept,
       uncachableOutline, VPage, Register, At
  <2> HIDE DEF o, homed
  <2>2. Rule(ptedit_apply_mt("vm", "uc"), o[15], o[16], homed)
    BY <2>1, ptedit_apply_mtRule
  <2> QED BY <2>2, uncachableCalls
<1>16. Rule(uncachable[16], o[16], o[17], homed)
  <2>1. UpdateRule("huge_page", "vm", o[16], o[17], homed)
    BY Claims DEF UpdateRule, EntrySet, Keeps, RegistersKept, DataKept,
       uncachableOutline, VPage, Register, At
  <2> HIDE DEF o, homed
  <2>2. Rule(ptedit_update("huge_page", "vm"), o[16], o[17], homed)
    BY <2>1, ptedit_updateRule
  <2> QED BY <2>2, uncachableCalls
<1>17. Rule(uncachable[17], o[17], o[18], homed)
  <2>1. GetBitRule("huge_page", "uc", o[17]) /\ "uc" \in o[17].pte["huge_page"].bits
        /\ "huge_page" \notin o[17].stale /\ Known(o[17].pte["huge_page"])
    BY Claims DEF GetBitRule, uncachableOutline, VPage, Register, At
  <2>2. Weaker(o[17], o[18], homed, "-")
    BY Claims DEF Weaker, EntriesKept, Keeps, RegistersKept, DataKept,
       uncachableOutline, VPage, Register, At
  <2> HIDE DEF o, homed
  <2>3. Rule(behaves("huge_page", "uc", TRUE), o[17], o[18], homed)
    BY <2>1, <2>2, behavesRuleOn
  <2> QED BY <2>3, uncachableCalls
<1>18. Rule(uncachable[18], o[18], o[19], homed)
  <2>1. UpdateRule("huge_page", "old", o[18], o[19], homed)
    BY Claims DEF UpdateRule, EntrySet, Keeps, RegistersKept, DataKept,
       uncachableOutline, VPage, Register, At
  <2> HIDE DEF o, homed
  <2>2. Rule(ptedit_update("huge_page", "old"), o[18], o[19], homed)
    BY <2>1, ptedit_updateRule
  <2> QED BY <2>2, uncachableCalls
<1>19. Rule(uncachable[19], o[19], o[20], homed)
  <2>1. GetBitRule("huge_page", "uc", o[19]) /\ "uc" \notin o[19].pte["huge_page"].bits
        /\ "huge_page" \notin o[19].stale /\ Known(o[19].pte["huge_page"])
    BY Claims DEF GetBitRule, uncachableOutline, VPage, Register, At
  <2>2. Weaker(o[19], o[20], homed, "-")
    BY Claims DEF Weaker, EntriesKept, Keeps, RegistersKept, DataKept,
       uncachableOutline, VPage, Register, At
  <2> HIDE DEF o, homed
  <2>3. Rule(behaves("huge_page", "uc", FALSE), o[19], o[20], homed)
    BY <2>1, <2>2, behavesRuleOff
  <2> QED BY <2>3, uncachableCalls
<1>20. Rule(uncachable[20], o[20], o[21], homed)
  <2>1. MunmapRule("huge_page", o[20], o[21], homed)
    BY Claims DEF MunmapRule, EntrySet, Keeps, RegistersKept, DataKept,
       uncachableOutline, VPage, Register, At
  <2> HIDE DEF o, homed
  <2>2. Rule(munmap("huge_page"), o[20], o[21], homed)
    BY <2>1, munmapRule
  <2> QED BY <2>2, uncachableCalls
<1>21. Rule(uncachable[21], o[21], o[22], homed)
  <2>1. Weaker(o[21], o[22], homed, "-")
    BY Claims DEF Weaker, EntriesKept, Keeps, RegistersKept, DataKept,
       uncachableOutline, VPage, Register, At
  <2> HIDE DEF o, homed
  <2>2. Rule(ptedit_cleanup, o[21], o[22], homed)
    BY <2>1, ptedit_cleanupRule
  <2> QED BY <2>2, uncachableCalls
<1> HIDE DEF o, homed
<1>22. Rule(uncachable[i], o[i], o[i + 1], homed)
  BY <1>1, <1>2, <1>3, <1>4, <1>5, <1>6, <1>7, <1>8, <1>9, <1>10, <1>11, <1>12,
     <1>13, <1>14, <1>15, <1>16, <1>17, <1>18, <1>19, <1>20, <1>21
<1> QED BY <1>22 DEF o, homed

\* Where uncachable may go on instead, its outline allows it.
LEMMA uncachableJumps ==
  ASSUME NEW i \in 1..21
  PROVE  Jumps(uncachable, i, uncachableOutline, {"pt", "huge_page"})
<1> DEFINE o == uncachableOutline
           homed == {"pt", "huge_page"}
<1>1. Weaker(o[2], o[22], homed, "-")
  BY Claims DEF Weaker, EntriesKept, Keeps, RegistersKept, DataKept,
     uncachableOutline, VPage, Register, At
<1>2. Weaker(o[4], o[21], homed, "uc")
  BY Claims DEF Weaker, EntriesKept, Keeps, RegistersKept, DataKept,
     uncachableOutline, VPage, Register, At
<1>3. Weaker(o[8], o[21], homed, "wb")
  BY Claims DEF Weaker, EntriesKept, Keeps, RegistersKept, DataKept,
     uncachableOutline, VPage, Register, At
<1>4. Weaker(o[12], o[21], homed, "-")
  BY Claims DEF Weaker, EntriesKept, Keeps, RegistersKept, DataKept,
     uncachableOutline, VPage, Register, At
<1> HIDE DEF o, homed
<1>5. Jumps(uncachable, i, o, homed)
  <2>1. CASE i = 1
    BY <2>1, uncachableCalls DEF Jumps, mmap
  <2>2. CASE i = 2
    BY <2>2, <1>1, uncachableCalls DEF Jumps, ptedit_init
  <2>3. CASE i = 3
    BY <2>3, uncachableCalls DEF Jumps, ptedit_resolve
  <2>4. CASE i = 4
    BY <2>4, <1>2, uncachableCalls DEF Jumps, find_mt
  <2>5. CASE i = 5
    BY <2>5, uncachableCalls DEF Jumps, ptedit_apply_mt
  <2>6. CASE i = 6
    BY <2>6, uncachableCalls DEF Jumps, ptedit_update
  <2>7. CASE i = 7
    BY <2>7, uncachableCalls DEF Jumps, behaves
  <2>8. CASE i = 8
    BY <2>8, <1>3, uncachableCalls DEF Jumps, find_mt
  <2>9. CASE i = 9
    BY <2>9, uncachableCalls DEF Jumps, ptedit_apply_mt
  <2>10. CASE i = 10
    BY <2>10, uncachableCalls DEF Jumps, ptedit_update
  <2>11. CASE i = 11
    BY <2>11, uncachableCalls DEF Jumps, behaves
  <2>12. CASE i = 12
    BY <2>12, <1>4, uncachableCalls DEF Jumps, mmap_huge
  <2>13. CASE i = 13
    BY <2>13, uncachableCalls DEF Jumps, ptedit_resolve
  <2>14. CASE i = 14
    BY <2>14, uncachableCalls DEF Jumps, copy
  <2>15. CASE i = 15
    BY <2>15, uncachableCalls DEF Jumps, ptedit_apply_mt
  <2>16. CASE i = 16
    BY <2>16, uncachableCalls DEF Jumps, ptedit_update
  <2>17. CASE i = 17
    BY <2>17, uncachableCalls DEF Jumps, behaves
  <2>18. CASE i = 18
    BY <2>18, uncachableCalls DEF Jumps, ptedit_update
  <2>19. CASE i = 19
    BY <2>19, uncachableCalls DEF Jumps, behaves
  <2>20. CASE i = 20
    BY <2>20, uncachableCalls DEF Jumps, munmap
  <2>21. CASE i = 21
    BY <2>21, uncachableCalls DEF Jumps, ptedit_cleanup
  <2> QED BY <2>1, <2>2, <2>3, <2>4, <2>5, <2>6, <2>7, <2>8, <2>9, <2>10, <2>11,
     <2>12, <2>13, <2>14, <2>15, <2>16, <2>17, <2>18, <2>19, <2>20, <2>21
<1> QED BY <1>5 DEF o, homed

\* The outline of uncachable.
LEMMA uncachableOutlined == Outlined(uncachable, uncachableOutline, {"pt", "huge_page"})
<1>1. Weaker(Start, uncachableOutline[1], {"pt", "huge_page"}, "-")
  BY Claims DEF Start, Weaker, EntriesKept, Keeps, RegistersKept, DataKept,
     uncachableOutline, VPage, Register, At
<1>2. uncachableOutline[22].same = {} /\ \A v \in VPage : uncachableOutline[22].pte[v] = Own
  BY DEF uncachableOutline, VPage
<1> QED BY <1>1, <1>2, uncachableCalls, uncachableTyped, uncachableRules, uncachableJumps
  DEF Outlined

\* The calls of nx.
LEMMA nxCalls ==
  /\ Len(nx) = 9
  /\ nx[1] = mmap("fn", "A")
  /\ nx[2] = mprotect_read("fn")
  /\ nx[3] = fork
  /\ nx[4] = ptedit_init
  /\ nx[5] = ptedit_pte_get_bit("child_fn", "nx", TRUE)
  /\ nx[6] = ptedit_pte_clear_bit("child_fn", "nx")
  /\ nx[7] = ptedit_pte_get_bit("child_fn", "nx", FALSE)
  /\ nx[8] = ptedit_pte_get_bit("fn", "nx", TRUE)
  /\ nx[9] = ptedit_cleanup
BY DEF nx

\* The outline of nx is one, and what it says of its entries is pinned.
LEMMA nxTyped ==
  ASSUME NEW i \in 1..10
  PROVE  nxOutline[i] \in Knowledge /\ Pinned(nxOutline[i])
<1> DEFINE k == nxOutline[i]
<1>1. k.pte \in [VPage -> Claim]
  BY ClaimTypes DEF nxOutline, At, VPage
<1>2. k.reg \in [Register -> Claim]
  BY ClaimTypes DEF nxOutline, At, VPage
<1>3. k.data \in [VPage -> Letter \cup {"-"}]
  BY DEF nxOutline, Letter
<1>4. k.stale \in SUBSET VPage
  BY DEF nxOutline, VPage
<1>5. k.same \in SUBSET (Register \X (VPage \ {"child_fn"}))
  BY DEF nxOutline, VPage, Register
<1>6. k = [pte |-> k.pte, reg |-> k.reg, data |-> k.data, stale |-> k.stale,
           same |-> k.same]
  BY Zenon DEF nxOutline
<1>7. ASSUME NEW v \in VPage
      PROVE  \/ k.pte[v] = Unmapped \/ k.pte[v] = Own \/ k.pte[v] = At(v)
             \/ k.pte[v] = Maps(v, {"nx"})
             \/ k.pte[v] = Childs({"nx"}) \/ k.pte[v] = Childs({})
  <2>1. k.pte["fn"] = Unmapped \/ k.pte["fn"] = Own \/ k.pte["fn"] = At("fn") \/
        k.pte["fn"] = Maps("fn", {"nx"})              \/ k.pte["fn"] =
        Childs({"nx"}) \/ k.pte["fn"] = Childs({})
    BY DEF nxOutline, VPage
  <2>2. k.pte["child_fn"] = Unmapped \/ k.pte["child_fn"] = Own \/ k.pte["child_fn"]
        = At("child_fn") \/ k.pte["child_fn"] = Maps("child_fn", {"nx"})
        \/ k.pte["child_fn"] = Childs({"nx"}) \/ k.pte["child_fn"] = Childs({})
    BY DEF nxOutline, VPage
  <2>3. v \notin {"fn", "child_fn"} => k.pte[v] = Unmapped \/ k.pte[v] = Own
    BY DEF nxOutline, VPage
  <2> HIDE DEF k
  <2> QED BY <2>1, <2>2, <2>3
<1> HIDE DEF k
<1>8. k \in Knowledge
  BY <1>1, <1>2, <1>3, <1>4, <1>5, <1>6 DEF Knowledge
<1>9. Pinned(k)
  BY <1>7, Claims DEF Pinned, At, VPage, Register
<1> QED BY <1>8, <1>9 DEF k

\* Every call of nx keeps to its rule in its outline.
LEMMA nxRules ==
  ASSUME NEW i \in 1..9
  PROVE  Rule(nx[i], nxOutline[i], nxOutline[i + 1], {"fn", "child_fn"})
<1> DEFINE o == nxOutline
           homed == {"fn", "child_fn"}
<1>1. Rule(nx[1], o[1], o[2], homed)
  <2>1. Fresh("fn", o[1])
    BY Claims DEF Fresh, VPage, Register, nxOutline, At
  <2>2. MmapRule("fn", "A", o[1], o[2], homed)
    BY <2>1, Claims DEF MmapRule, EntrySet, Keeps, RegistersKept, DataSet,
       nxOutline, VPage, Register, At
  <2> HIDE DEF o, homed
  <2>3. Rule(mmap("fn", "A"), o[1], o[2], homed)
    BY <2>2, mmapRule DEF Letter
  <2> QED BY <2>3, nxCalls
<1>2. Rule(nx[2], o[2], o[3], homed)
  <2>1. SetBitRule("fn", "nx", o[2], o[3], homed)
    BY Bits, Claims DEF SetBitRule, EntrySet, Keeps, RegistersKept, DataKept, Bit,
       nxOutline, VPage, Register, At
  <2> HIDE DEF o, homed
  <2>2. Rule(mprotect_read("fn"), o[2], o[3], homed)
    BY <2>1, mprotect_readRule
  <2> QED BY <2>2, nxCalls
<1>3. Rule(nx[3], o[3], o[4], homed)
  <2>1. ForkRule(o[3], o[4], homed)
    BY Claims DEF ForkRule, EntrySet, Keeps, RegistersKept, DataKept, nxOutline,
       VPage, Register, At
  <2> HIDE DEF o, homed
  <2>2. Rule(fork, o[3], o[4], homed)
    BY <2>1, forkRule
  <2> QED BY <2>2, nxCalls
<1>4. Rule(nx[4], o[4], o[5], homed)
  <2>1. Weaker(o[4], o[5], homed, "-")
    BY Claims DEF Weaker, EntriesKept, Keeps, RegistersKept, DataKept, nxOutline,
       VPage, Register, At
  <2> HIDE DEF o, homed
  <2>2. Rule(ptedit_init, o[4], o[5], homed)
    BY <2>1, ptedit_initRule
  <2> QED BY <2>2, nxCalls
<1>5. Rule(nx[5], o[5], o[6], homed)
  <2>1. GetBitRule("child_fn", "nx", o[5]) /\ "nx" \in o[5].pte["child_fn"].bits
    BY Claims DEF GetBitRule, nxOutline, VPage, Register, At
  <2>2. Weaker(o[5], o[6], homed, "-")
    BY Claims DEF Weaker, EntriesKept, Keeps, RegistersKept, DataKept, nxOutline,
       VPage, Register, At
  <2> HIDE DEF o, homed
  <2>3. Rule(ptedit_pte_get_bit("child_fn", "nx", TRUE), o[5], o[6], homed)
    BY <2>1, <2>2, ptedit_pte_get_bitRuleOn
  <2> QED BY <2>3, nxCalls
<1>6. Rule(nx[6], o[6], o[7], homed)
  <2>1. o[6].pte["child_fn"] = Childs({"nx"})
    BY DEF nxOutline, VPage
  <2>2. /\ EntrySet(o[6], o[7], "child_fn", Childs({}), homed, o[6].stale \ {"child_fn"})
        /\ DataKept(o[6], o[7])
    BY Claims DEF EntrySet, Keeps, RegistersKept, DataKept, Bit, nxOutline, VPage,
       Register, At
  <2>3. ClearChildBitRule("nx", o[6], o[7], homed)
    BY <2>1, <2>2, Bits, Claims DEF ClearChildBitRule, Bit
  <2> HIDE DEF o, homed
  <2>4. Rule(ptedit_pte_clear_bit("child_fn", "nx"), o[6], o[7], homed)
    BY <2>3, ptedit_pte_clear_bitChildRule
  <2> QED BY <2>4, nxCalls
<1>7. Rule(nx[7], o[7], o[8], homed)
  <2>1. GetBitRule("child_fn", "nx", o[7]) /\ "nx" \notin o[7].pte["child_fn"].bits
    BY Claims DEF GetBitRule, nxOutline, VPage, Register, At
  <2>2. Weaker(o[7], o[8], homed, "-")
    BY Claims DEF Weaker, EntriesKept, Keeps, RegistersKept, DataKept, nxOutline,
       VPage, Register, At
  <2> HIDE DEF o, homed
  <2>3. Rule(ptedit_pte_get_bit("child_fn", "nx", FALSE), o[7], o[8], homed)
    BY <2>1, <2>2, ptedit_pte_get_bitRuleOff
  <2> QED BY <2>3, nxCalls
<1>8. Rule(nx[8], o[8], o[9], homed)
  <2>1. GetBitRule("fn", "nx", o[8]) /\ "nx" \in o[8].pte["fn"].bits
    BY Claims DEF GetBitRule, nxOutline, VPage, Register, At
  <2>2. Weaker(o[8], o[9], homed, "-")
    BY Claims DEF Weaker, EntriesKept, Keeps, RegistersKept, DataKept, nxOutline,
       VPage, Register, At
  <2> HIDE DEF o, homed
  <2>3. Rule(ptedit_pte_get_bit("fn", "nx", TRUE), o[8], o[9], homed)
    BY <2>1, <2>2, ptedit_pte_get_bitRuleOn
  <2> QED BY <2>3, nxCalls
<1>9. Rule(nx[9], o[9], o[10], homed)
  <2>1. Weaker(o[9], o[10], homed, "-")
    BY Claims DEF Weaker, EntriesKept, Keeps, RegistersKept, DataKept, nxOutline,
       VPage, Register, At
  <2> HIDE DEF o, homed
  <2>2. Rule(ptedit_cleanup, o[9], o[10], homed)
    BY <2>1, ptedit_cleanupRule
  <2> QED BY <2>2, nxCalls
<1> HIDE DEF o, homed
<1>10. Rule(nx[i], o[i], o[i + 1], homed)
  BY <1>1, <1>2, <1>3, <1>4, <1>5, <1>6, <1>7, <1>8, <1>9
<1> QED BY <1>10 DEF o, homed

\* Where nx may go on instead, its outline allows it.
LEMMA nxJumps ==
  ASSUME NEW i \in 1..9
  PROVE  Jumps(nx, i, nxOutline, {"fn", "child_fn"})
<1> DEFINE o == nxOutline
           homed == {"fn", "child_fn"}
<1>1. Weaker(o[4], o[10], homed, "-")
  BY Claims DEF Weaker, EntriesKept, Keeps, RegistersKept, DataKept, nxOutline,
     VPage, Register, At
<1> HIDE DEF o, homed
<1>2. Jumps(nx, i, o, homed)
  <2>1. CASE i = 1
    BY <2>1, nxCalls DEF Jumps, mmap
  <2>2. CASE i = 2
    BY <2>2, nxCalls DEF Jumps, mprotect_read
  <2>3. CASE i = 3
    BY <2>3, nxCalls DEF Jumps, fork
  <2>4. CASE i = 4
    BY <2>4, <1>1, nxCalls DEF Jumps, ptedit_init
  <2>5. CASE i = 5
    BY <2>5, nxCalls DEF Jumps, ptedit_pte_get_bit
  <2>6. CASE i = 6
    BY <2>6, nxCalls DEF Jumps, ptedit_pte_clear_bit
  <2>7. CASE i = 7
    BY <2>7, nxCalls DEF Jumps, ptedit_pte_get_bit
  <2>8. CASE i = 8
    BY <2>8, nxCalls DEF Jumps, ptedit_pte_get_bit
  <2>9. CASE i = 9
    BY <2>9, nxCalls DEF Jumps, ptedit_cleanup
  <2> QED BY <2>1, <2>2, <2>3, <2>4, <2>5, <2>6, <2>7, <2>8, <2>9
<1> QED BY <1>2 DEF o, homed

\* The outline of nx.
LEMMA nxOutlined == Outlined(nx, nxOutline, {"fn", "child_fn"})
<1>1. Weaker(Start, nxOutline[1], {"fn", "child_fn"}, "-")
  BY Claims DEF Start, Weaker, EntriesKept, Keeps, RegistersKept, DataKept,
     nxOutline, VPage, Register, At
<1>2. nxOutline[10].same = {} /\ \A v \in VPage : nxOutline[10].pte[v] = Own
  BY DEF nxOutline, VPage
<1> QED BY <1>1, <1>2, nxCalls, nxTyped, nxRules, nxJumps DEF Outlined

\* The calls of clear_bits.
LEMMA clear_bitsCalls ==
  /\ Len(clear_bits) = 10
  /\ clear_bits[1] = ptedit_init
  /\ clear_bits[2] = mmap("address", "B")
  /\ clear_bits[3] = ptedit_resolve("vm", "address")
  /\ clear_bits[4] = ptedit_pte_clear_bit("address", "accessed")
  /\ clear_bits[5] = ptedit_resolve("vm", "address")
  /\ clear_bits[6] = ptedit_pte_set_bit("address", "accessed")
  /\ clear_bits[7] = ptedit_resolve("vm", "address")
  /\ clear_bits[8] = ptedit_pte_set_bit("address", "accessed")
  /\ clear_bits[9] = munmap("address")
  /\ clear_bits[10] = ptedit_cleanup
BY DEF clear_bits

\* The outline of clear_bits is one, and what it says of its entries is pinned.
LEMMA clear_bitsTyped ==
  ASSUME NEW i \in 1..11
  PROVE  clear_bitsOutline[i] \in Knowledge /\ Pinned(clear_bitsOutline[i])
<1> DEFINE k == clear_bitsOutline[i]
<1>1. k.pte \in [VPage -> Claim]
  BY ClaimTypes DEF clear_bitsOutline, At, VPage
<1>2. k.reg \in [Register -> Claim]
  BY ClaimTypes DEF clear_bitsOutline, At, VPage
<1>3. k.data \in [VPage -> Letter \cup {"-"}]
  BY DEF clear_bitsOutline, Letter
<1>4. k.stale \in SUBSET VPage
  BY DEF clear_bitsOutline, VPage
<1>5. k.same \in SUBSET (Register \X (VPage \ {"child_fn"}))
  BY DEF clear_bitsOutline, VPage, Register
<1>6. k = [pte |-> k.pte, reg |-> k.reg, data |-> k.data, stale |-> k.stale,
           same |-> k.same]
  BY Zenon DEF clear_bitsOutline
<1>7. ASSUME NEW v \in VPage
      PROVE  \/ k.pte[v] = Unmapped \/ k.pte[v] = Own \/ k.pte[v] = At(v)
  <2>1. k.pte["address"] = Unmapped \/ k.pte["address"] = Own \/ k.pte["address"] =
        At("address")
    BY DEF clear_bitsOutline, VPage
  <2>2. v \notin {"address"} => k.pte[v] = Unmapped \/ k.pte[v] = Own
    BY DEF clear_bitsOutline, VPage
  <2> HIDE DEF k
  <2> QED BY <2>1, <2>2
<1> HIDE DEF k
<1>8. k \in Knowledge
  BY <1>1, <1>2, <1>3, <1>4, <1>5, <1>6 DEF Knowledge
<1>9. Pinned(k)
  BY <1>7, Claims DEF Pinned, At, VPage, Register
<1> QED BY <1>8, <1>9 DEF k

\* Every call of clear_bits keeps to its rule in its outline.
LEMMA clear_bitsRules ==
  ASSUME NEW i \in 1..10
  PROVE  Rule(clear_bits[i], clear_bitsOutline[i], clear_bitsOutline[i + 1], {"address"})
<1> DEFINE o == clear_bitsOutline
           homed == {"address"}
<1>1. Rule(clear_bits[1], o[1], o[2], homed)
  <2>1. Weaker(o[1], o[2], homed, "-")
    BY Claims DEF Weaker, EntriesKept, Keeps, RegistersKept, DataKept,
       clear_bitsOutline, VPage, Register, At
  <2> HIDE DEF o, homed
  <2>2. Rule(ptedit_init, o[1], o[2], homed)
    BY <2>1, ptedit_initRule
  <2> QED BY <2>2, clear_bitsCalls
<1>2. Rule(clear_bits[2], o[2], o[3], homed)
  <2>1. Fresh("address", o[2])
    BY Claims DEF Fresh, VPage, Register, clear_bitsOutline, At
  <2>2. MmapRule("address", "B", o[2], o[3], homed)
    BY <2>1, Claims DEF MmapRule, EntrySet, Keeps, RegistersKept, DataSet,
       clear_bitsOutline, VPage, Register, At
  <2> HIDE DEF o, homed
  <2>3. Rule(mmap("address", "B"), o[2], o[3], homed)
    BY <2>2, mmapRule DEF Letter
  <2> QED BY <2>3, clear_bitsCalls
<1>3. Rule(clear_bits[3], o[3], o[4], homed)
  <2>1. ResolveRule("vm", "address", o[3], o[4], homed)
    BY Claims DEF ResolveRule, RegisterSet, EntriesKept, Keeps, DataKept,
       clear_bitsOutline, VPage, Register, At
  <2> HIDE DEF o, homed
  <2>2. Rule(ptedit_resolve("vm", "address"), o[3], o[4], homed)
    BY <2>1, ptedit_resolveRule
  <2> QED BY <2>2, clear_bitsCalls
<1>4. Rule(clear_bits[4], o[4], o[5], homed)
  <2>1. ClearBitRule("address", "accessed", o[4], o[5], homed)
    BY Bits, Claims DEF ClearBitRule, EntrySet, Keeps, RegistersKept, DataKept, Bit,
       clear_bitsOutline, VPage, Register, At
  <2> HIDE DEF o, homed
  <2>2. Rule(ptedit_pte_clear_bit("address", "accessed"), o[4], o[5], homed)
    BY <2>1, ptedit_pte_clear_bitRule
  <2> QED BY <2>2, clear_bitsCalls
<1>5. Rule(clear_bits[5], o[5], o[6], homed)
  <2>1. ResolveRule("vm", "address", o[5], o[6], homed)
    BY Claims DEF ResolveRule, RegisterSet, EntriesKept, Keeps, DataKept,
       clear_bitsOutline, VPage, Register, At
  <2> HIDE DEF o, homed
  <2>2. Rule(ptedit_resolve("vm", "address"), o[5], o[6], homed)
    BY <2>1, ptedit_resolveRule
  <2> QED BY <2>2, clear_bitsCalls
<1>6. Rule(clear_bits[6], o[6], o[7], homed)
  <2>1. SetBitRule("address", "accessed", o[6], o[7], homed)
    BY Bits, Claims DEF SetBitRule, EntrySet, Keeps, RegistersKept, DataKept, Bit,
       clear_bitsOutline, VPage, Register, At
  <2> HIDE DEF o, homed
  <2>2. Rule(ptedit_pte_set_bit("address", "accessed"), o[6], o[7], homed)
    BY <2>1, ptedit_pte_set_bitRule
  <2> QED BY <2>2, clear_bitsCalls
<1>7. Rule(clear_bits[7], o[7], o[8], homed)
  <2>1. ResolveRule("vm", "address", o[7], o[8], homed)
    BY Claims DEF ResolveRule, RegisterSet, EntriesKept, Keeps, DataKept,
       clear_bitsOutline, VPage, Register, At
  <2> HIDE DEF o, homed
  <2>2. Rule(ptedit_resolve("vm", "address"), o[7], o[8], homed)
    BY <2>1, ptedit_resolveRule
  <2> QED BY <2>2, clear_bitsCalls
<1>8. Rule(clear_bits[8], o[8], o[9], homed)
  <2>1. SetBitRule("address", "accessed", o[8], o[9], homed)
    BY Bits, Claims DEF SetBitRule, EntrySet, Keeps, RegistersKept, DataKept, Bit,
       clear_bitsOutline, VPage, Register, At
  <2> HIDE DEF o, homed
  <2>2. Rule(ptedit_pte_set_bit("address", "accessed"), o[8], o[9], homed)
    BY <2>1, ptedit_pte_set_bitRule
  <2> QED BY <2>2, clear_bitsCalls
<1>9. Rule(clear_bits[9], o[9], o[10], homed)
  <2>1. MunmapRule("address", o[9], o[10], homed)
    BY Claims DEF MunmapRule, EntrySet, Keeps, RegistersKept, DataKept,
       clear_bitsOutline, VPage, Register, At
  <2> HIDE DEF o, homed
  <2>2. Rule(munmap("address"), o[9], o[10], homed)
    BY <2>1, munmapRule
  <2> QED BY <2>2, clear_bitsCalls
<1>10. Rule(clear_bits[10], o[10], o[11], homed)
  <2>1. Weaker(o[10], o[11], homed, "-")
    BY Claims DEF Weaker, EntriesKept, Keeps, RegistersKept, DataKept,
       clear_bitsOutline, VPage, Register, At
  <2> HIDE DEF o, homed
  <2>2. Rule(ptedit_cleanup, o[10], o[11], homed)
    BY <2>1, ptedit_cleanupRule
  <2> QED BY <2>2, clear_bitsCalls
<1> HIDE DEF o, homed
<1>11. Rule(clear_bits[i], o[i], o[i + 1], homed)
  BY <1>1, <1>2, <1>3, <1>4, <1>5, <1>6, <1>7, <1>8, <1>9, <1>10
<1> QED BY <1>11 DEF o, homed

\* Where clear_bits may go on instead, its outline allows it.
LEMMA clear_bitsJumps ==
  ASSUME NEW i \in 1..10
  PROVE  Jumps(clear_bits, i, clear_bitsOutline, {"address"})
<1> DEFINE o == clear_bitsOutline
           homed == {"address"}
<1>1. Weaker(o[1], o[11], homed, "-")
  BY Claims DEF Weaker, EntriesKept, Keeps, RegistersKept, DataKept,
     clear_bitsOutline, VPage, Register, At
<1> HIDE DEF o, homed
<1>2. Jumps(clear_bits, i, o, homed)
  <2>1. CASE i = 1
    BY <2>1, <1>1, clear_bitsCalls DEF Jumps, ptedit_init
  <2>2. CASE i = 2
    BY <2>2, clear_bitsCalls DEF Jumps, mmap
  <2>3. CASE i = 3
    BY <2>3, clear_bitsCalls DEF Jumps, ptedit_resolve
  <2>4. CASE i = 4
    BY <2>4, clear_bitsCalls DEF Jumps, ptedit_pte_clear_bit
  <2>5. CASE i = 5
    BY <2>5, clear_bitsCalls DEF Jumps, ptedit_resolve
  <2>6. CASE i = 6
    BY <2>6, clear_bitsCalls DEF Jumps, ptedit_pte_set_bit
  <2>7. CASE i = 7
    BY <2>7, clear_bitsCalls DEF Jumps, ptedit_resolve
  <2>8. CASE i = 8
    BY <2>8, clear_bitsCalls DEF Jumps, ptedit_pte_set_bit
  <2>9. CASE i = 9
    BY <2>9, clear_bitsCalls DEF Jumps, munmap
  <2>10. CASE i = 10
    BY <2>10, clear_bitsCalls DEF Jumps, ptedit_cleanup
  <2> QED BY <2>1, <2>2, <2>3, <2>4, <2>5, <2>6, <2>7, <2>8, <2>9, <2>10
<1> QED BY <1>2 DEF o, homed

\* The outline of clear_bits.
LEMMA clear_bitsOutlined == Outlined(clear_bits, clear_bitsOutline, {"address"})
<1>1. Weaker(Start, clear_bitsOutline[1], {"address"}, "-")
  BY Claims DEF Start, Weaker, EntriesKept, Keeps, RegistersKept, DataKept,
     clear_bitsOutline, VPage, Register, At
<1>2. clear_bitsOutline[11].same = {} /\ \A v \in VPage : clear_bitsOutline[11].pte[v] = Own
  BY DEF clear_bitsOutline, VPage
<1> QED BY <1>1, <1>2, clear_bitsCalls, clear_bitsTyped, clear_bitsRules, clear_bitsJumps
  DEF Outlined

-----------------------------------------------------------------------------
(* Every program has an outline                                            *)

LEMMA EveryProgramOutlined ==
  ASSUME NEW p \in Programs
  PROVE  \E o, homed : Outlined(p, o, homed)
BY exampleOutlined, map_ptOutlined, map_pt_manualOutlined, uncachableOutlined,
   nxOutlined, clear_bitsOutlined
   DEF Programs

\* Nothing but the variable for the page table is known at the start.
LEMMA HoldsAtStart ==
  ASSUME Init, NEW homed
  PROVE  Holds(Start) /\ Steady(homed)
<1>1. /\ \A v \in VPage : pte[v] = None /\ tlb[v] = None /\ home[v] = None
      /\ reg["pmd"] = [pfn |-> PT, bits |-> {}] /\ child = "none"
  BY DEF Init, Register
<1>2. /\ \A v \in VPage : Start.pte[v] = Unmapped /\ Start.data[v] = "-"
      /\ \A r \in Register : Start.reg[r] = IF r = "pmd" THEN Maps("table", {}) ELSE Unknown
      /\ Start.same = {}
  BY DEF Start
<1>3. Is(reg["pmd"], Maps("table", {}))
  BY <1>1, DemosAssumption DEF Is, Maps, FrameOf, Entry, Bit
<1>4. \A v \in VPage : EntryIs(v, Start.pte[v])
  BY <1>1, <1>2 DEF EntryIs, Unmapped
<1>5. \A r \in Register : RegisterIs(r, Start.reg[r])
  BY <1>2, <1>3 DEF RegisterIs, Unknown
<1>6. \A v \in VPage : DataIs(v, Start.data[v]) /\ Coherent(v)
  BY <1>1, <1>2 DEF DataIs, Coherent
<1>7. Steady(homed)
  BY <1>1 DEF Steady, FramesApart, CachedMapped, OnlyHomed, ChildWaits, ChildReady, VPage
<1> QED BY <1>2, <1>4, <1>5, <1>6, <1>7 DEF Holds

LEMMA InvInit ==
  ASSUME Init
  PROVE  Inv
<1>1. TypeOK
  <2>1. Len(program) \in Nat
    BY EveryProgramOutlined DEF Init, Outlined
  <2>2. [pfn |-> PT, bits |-> {}] \in Entry
    BY DEF Entry
  <2>3. /\ reg \in [Register -> Entry \cup {None}] /\ pte \in [VPage -> Entry \cup {None}]
        /\ tlb \in [VPage -> Entry \cup {None}] /\ home \in [VPage -> Frame \cup {None}]
        /\ data \in [Frame -> Letter]
    BY <2>2 DEF Init, Letter
  <2> QED BY <2>1, <2>3, DemosAssumption DEF Init, TypeOK, Ended
<1>2. SelfChecksPass /\ EditsUndone
  BY DEF Init, SelfChecksPass, EditsUndone
<1>3. PICK o, homed : Outlined(program, o, homed)
  BY <1>1, EveryProgramOutlined DEF TypeOK
<1>4. Weaker(Start, o[1], homed, "-") /\ ip = 1
  BY <1>3 DEF Outlined, Init
<1>5. Holds(o[1])
  <2>1. Holds(Start) /\ OnlyHomed(homed)
    BY HoldsAtStart DEF Steady
  <2>2. \A v \in VPage : EntryIs(v, o[1].pte[v])
    <3>1. ASSUME NEW v \in VPage
          PROVE  pte[v] = None
      BY DEF Init
    <3>2. \A v \in VPage : o[1].pte[v] = Unmapped \/ o[1].pte[v] = Own
      BY <1>4 DEF Weaker, EntriesKept, Keeps, Start
    <3> QED BY <3>1, <3>2 DEF EntryIs, Unmapped, Own, Undone, Init
  <2>3. \A r \in Register : RegisterIs(r, o[1].reg[r])
    BY <1>4, <2>1 DEF Weaker, RegistersKept, Holds, RegisterIs, Unknown
  <2>4. \A v \in VPage : DataIs(v, o[1].data[v])
    BY <1>4, <2>1 DEF Weaker, DataKept, Holds, DataIs
  <2>5. \A v \in VPage : Coherent(v)
    BY DEF Init, Coherent
  <2>6. \A r \in Register, v \in VPage : <<r, v>> \in o[1].same => Same(r, v)
    BY <1>4, <2>1 DEF Weaker, Holds
  <2> QED BY <2>2, <2>3, <2>4, <2>5, <2>6 DEF Holds
<1>6. Follows(o, homed)
  BY <1>3, <1>4, <1>5, HoldsAtStart DEF Follows
<1> QED BY <1>1, <1>2, <1>6 DEF Inv

LEMMA InvNext ==
  ASSUME Inv, [Next]_vars
  PROVE  Inv'
<1>1. PICK o, homed : InvOf(o, homed)
  BY DEF Inv, InvOf
<1>2. CASE Step
  BY <1>1, <1>2, InitializeStep, MmapStep, GoesToLabelStep, MunmapStep, CleanupStep,
     ExitStep, ForkStep, ResolveStep, CopyStep, SetPfnStep, FindMtStep, ApplyMtStep,
     UpdateStep, PteSetPfnStep, PteBitStep, PmapStep, InvalidateTlbStep, BarrierStep,
     WritePhysicalPageStep, WritePhysicalPageFailsStep, StoreEntryStep, LoadStep,
     ReadPhysicalPageStep, ReadPhysicalPageFailsStep, LoadEntryStep, PteGetBitStep,
     BehavesStep, NoEntryStep, PmapFailsStep
     DEF Step, Inv, InvOf
<1>3. CASE ChildAccess \/ ChildExec
  BY <1>1, <1>3, ChildAccessStep, ChildExecStep DEF Inv, InvOf
<1>4. CASE \E v \in VPage : TlbFill(v) \/ Age(v) \/ \E f \in Frame : Move(v, f)
  BY <1>1, <1>4, TlbFillStep, AgeStep, MoveStep DEF Inv, InvOf
<1>5. CASE UNCHANGED vars
  <2>1. PICK k : k = o[ip]
    OBVIOUS
  <2>2. TypeOK' /\ SelfChecksPass' /\ EditsUndone'
    BY <1>1, <1>5 DEF vars, InvOf, TypeOK, SelfChecksPass, Excused, EditsUndone, Ended
  <2>3. Holds(k)' /\ Steady(homed)'
    BY <1>1, <1>5, <2>1, Untouched, StaysSteady DEF vars, InvOf, Follows
  <2>4. program' = program /\ k = o[ip']
    BY <1>5, <2>1 DEF vars
  <2>5. InvOf(o, homed)'
    BY <1>1, <2>2, <2>3, <2>4, Arrive
  <2> QED BY <2>5 DEF Inv, InvOf
<1> QED BY <1>2, <1>3, <1>4, <1>5 DEF Next

-----------------------------------------------------------------------------
(* The theorems                                                            *)

LEMMA InvAlways == Spec => []Inv
BY InvInit, InvNext, PTL DEF Spec

\* The variables of the programs' model keep to their types.
THEOREM DemosTypeCorrect == Spec => []TypeOK
<1>1. Inv => TypeOK
  BY DEF Inv
<1> QED BY <1>1, InvAlways, PTL

\* Every test in example.c and in the demos that edit succeeds, whatever the CPU has
\* cached and however often the kernel ages and moves pages, but for its excuses.
THEOREM SelfChecksSucceed == Spec => []SelfChecksPass
<1>1. Inv => SelfChecksPass
  BY DEF Inv
<1> QED BY <1>1, InvAlways, PTL

\* On every path to their end the programs have undone their edits of a page before
\* it is unmapped, but for the excuses.
THEOREM EditsAreUndone == Spec => []EditsUndone
<1>1. Inv => EditsUndone
  BY DEF Inv
<1> QED BY <1>1, InvAlways, PTL

=============================================================================
