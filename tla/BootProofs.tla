----------------------------- MODULE BootProofs -----------------------------
(***************************************************************************)
(* The frame allocator's counter, for every size of machine and every      *)
(* memory map: proofs about module Boot.                                   *)
(*                                                                         *)
(* Each function of pmm.rs keeps PmmOK, whatever it is called with as long *)
(* as frame numbers are natural numbers.  That they are needs the type     *)
(* invariant of the boot, down to the regions that Ram::push keeps, and    *)
(* that the lowest frame of a set that is not empty exists.                *)
(***************************************************************************)
EXTENDS Boot, FiniteSetTheorems, WellFoundedInduction, TLAPS

PmmOK(p) ==
  /\ p \in [free : SUBSET Frames, total : Nat, available : Nat]
  /\ p.available = Cardinality(p.free)

(* The bitmap is finite. *)
LEMMA FreeIsFinite ==
  ASSUME NEW S \in SUBSET Frames
  PROVE  IsFiniteSet(S) /\ Cardinality(S) \in Nat
<1>1. IsFiniteSet(Frames)
  BY MaxFramesAssumption, FS_Interval DEF Frames
<1>2. IsFiniteSet(S)
  BY <1>1, FS_Subset
<1> QED BY <1>2, FS_CardinalityType

(* Lowest(S) is what its name says. *)
LEMMA LowestIsLeast ==
  ASSUME NEW S \in SUBSET Nat, S # {}
  PROVE  Lowest(S) \in S /\ \A y \in S : Lowest(S) <= y
<1> DEFINE R == OpToRel(<, Nat)
<1>1. IsWellFoundedOn(R, Nat)
  BY NatLessThanWellFounded
<1>2. \A x, y \in Nat : <<y, x>> \in R <=> y < x
  BY DEF OpToRel
<1> HIDE DEF R
<1>3. PICK x \in S : \A y \in S : ~(<<y, x>> \in R)
  BY <1>1, WFMin
<1>4. \A y \in S : x <= y
  <2>1. x \in Nat /\ \A y \in S : y \in Nat /\ ~(y < x)
    BY Zenon, <1>2, <1>3
  <2> QED BY <2>1
<1> QED BY <1>4 DEF Lowest

(* Marking any set of frames used keeps the counter right. *)
LEMMA SetAllUsedOK ==
  ASSUME NEW p, NEW S, PmmOK(p)
  PROVE  PmmOK(set_all_used(p, S))
<1> DEFINE q == set_all_used(p, S)
<1>1. /\ q.free = p.free \ S /\ q.total = p.total
      /\ q.available = p.available - Cardinality(p.free \cap S)
      /\ q = [free |-> q.free, total |-> q.total, available |-> q.available]
  BY DEF set_all_used, PmmOK
<1>2. p.free \in SUBSET Frames /\ q.free \in SUBSET Frames
  BY <1>1 DEF PmmOK
<1>3. Cardinality(q.free) = Cardinality(p.free) - Cardinality(p.free \cap S)
  BY <1>1, <1>2, FreeIsFinite, FS_Difference
<1>4. Cardinality(q.free) \in Nat
  BY <1>2, FreeIsFinite
<1> HIDE DEF q
<1> QED BY <1>1, <1>2, <1>3, <1>4 DEF PmmOK, q

LEMMA SetUsedOK ==
  ASSUME NEW p, NEW f, PmmOK(p)
  PROVE  PmmOK(set_used(p, f))
<1>1. CASE f >= MAX_FRAMES \/ ~free_bit(p, f)
  BY <1>1 DEF set_used
<1>2. CASE ~(f >= MAX_FRAMES \/ ~free_bit(p, f))
  <2> DEFINE q == set_used(p, f)
  <2>1. /\ q.free = p.free \ {f} /\ q.total = p.total /\ q.available = p.available - 1
        /\ q = [free |-> q.free, total |-> q.total, available |-> q.available]
        /\ f \in p.free
    BY <1>2 DEF set_used, PmmOK, free_bit
  <2>2. p.free \in SUBSET Frames /\ q.free \in SUBSET Frames
    BY <2>1 DEF PmmOK
  <2>3. Cardinality(q.free) = Cardinality(p.free) - 1 /\ Cardinality(q.free) \in Nat
    BY <2>1, <2>2, FreeIsFinite, FS_RemoveElement
  <2> HIDE DEF q
  <2> QED BY <2>1, <2>2, <2>3 DEF PmmOK, q
<1> QED BY <1>1, <1>2

LEMMA SetFreeOK ==
  ASSUME NEW p, NEW f \in Nat, PmmOK(p)
  PROVE  PmmOK(set_free(p, f))
<1>1. CASE f >= MAX_FRAMES \/ free_bit(p, f)
  BY <1>1 DEF set_free
<1>2. CASE ~(f >= MAX_FRAMES \/ free_bit(p, f))
  <2> DEFINE q == set_free(p, f)
  <2>1. /\ q.free = p.free \cup {f} /\ q.total = p.total /\ q.available = p.available + 1
        /\ q = [free |-> q.free, total |-> q.total, available |-> q.available]
        /\ f \notin p.free /\ f \in Frames
    BY <1>2, MaxFramesAssumption DEF set_free, PmmOK, free_bit, Frames
  <2>2. p.free \in SUBSET Frames /\ q.free \in SUBSET Frames
    BY <2>1 DEF PmmOK
  <2>3. Cardinality(q.free) = Cardinality(p.free) + 1 /\ Cardinality(q.free) \in Nat
    BY <2>1, <2>2, FreeIsFinite, FS_AddElement
  <2> HIDE DEF q
  <2> QED BY <2>1, <2>2, <2>3 DEF PmmOK, q
<1> QED BY <1>1, <1>2

(* A region between natural numbers adds exactly its fresh frames. *)
LEMMA InitRegionOK ==
  ASSUME NEW p, NEW region \in [base : Nat, end : Nat], PmmOK(p)
  PROVE  PmmOK(init_region(p, region))
<1> DEFINE fresh == {f \in region_frames(region) : f < MAX_FRAMES} \ p.free
           q == init_region(p, region)
<1>1. /\ q.free = p.free \cup fresh /\ q.total = p.total + Cardinality(fresh)
      /\ q.available = p.available + Cardinality(fresh)
      /\ q = [free |-> q.free, total |-> q.total, available |-> q.available]
  BY DEF init_region
<1>2. \A x \in Int : \A y \in Nat \ {0} : (x % y) \in Nat /\ (x \in Nat => x \div y \in Nat)
  OBVIOUS
<1>3. ADDRESSES \in Nat \ {0} /\ PAGE_SIZE \in Nat \ {0}
  BY PageSizeAssumption, MaxFramesAssumption DEF ADDRESSES
<1>4. frame_of(Wrap(region.base + PAGE_SIZE - 1)) \in Nat /\ frame_of(region.end) \in Nat
  <2>1. Wrap(region.base + PAGE_SIZE - 1) \in Nat
    BY <1>2, <1>3 DEF Wrap
  <2> QED BY <1>2, <1>3, <2>1 DEF frame_of
<1>5. fresh \in SUBSET Frames
  BY <1>4, MaxFramesAssumption DEF region_frames, Frames
<1>6. p.free \in SUBSET Frames /\ q.free \in SUBSET Frames
  BY <1>1, <1>5 DEF PmmOK
<1>7. p.free \cap fresh = {}
  OBVIOUS
<1> HIDE DEF fresh, q
<1>8. Cardinality(q.free) = Cardinality(p.free) + Cardinality(fresh) - Cardinality({})
  BY <1>1, <1>5, <1>6, <1>7, FreeIsFinite, FS_Union
<1>9. Cardinality({}) = 0 /\ Cardinality(fresh) \in Nat /\ Cardinality(p.free) \in Nat
  BY <1>5, <1>6, FreeIsFinite, FS_EmptySet
<1> QED BY <1>1, <1>6, <1>8, <1>9 DEF PmmOK, q

LEMMA ReserveOK ==
  ASSUME NEW p, NEW start, NEW end, PmmOK(p)
  PROVE  PmmOK(reserve(p, start, end))
BY SetAllUsedOK DEF reserve

(* What alloc_frame returns is an address, or nothing. *)
LEMMA AllocFrameOK ==
  ASSUME NEW p, PmmOK(p)
  PROVE  /\ PmmOK(alloc_frame(p).pmm)
         /\ alloc_frame(p).frame # None => alloc_frame(p).frame \in Nat
<1>1. CASE p.free = {}
  BY <1>1 DEF alloc_frame
<1>2. CASE p.free # {}
  <2>1. p.free \in SUBSET Nat
    BY DEF PmmOK, Frames
  <2>2. Lowest(p.free) \in Nat
    BY <1>2, <2>1, LowestIsLeast
  <2>3. address_of(Lowest(p.free)) \in Nat
    BY <2>2, PageSizeAssumption DEF address_of
  <2> QED BY <1>2, <2>3, SetUsedOK DEF alloc_frame
<1> QED BY <1>1, <1>2

LEMMA AllocRangeOK ==
  ASSUME NEW p, NEW n \in Nat, PmmOK(p)
  PROVE  /\ PmmOK(alloc_range(p, n).pmm)
         /\ alloc_range(p, n).frame # None => alloc_range(p, n).frame \in Nat
<1>1. find_run(p, n) = None \/ find_run(p, n) \in Nat
  <2>1. Runs(p, n) \in SUBSET Nat
    BY DEF Runs
  <2> QED BY <2>1, LowestIsLeast DEF find_run
<1>2. CASE find_run(p, n) = None
  BY <1>2 DEF alloc_range
<1>3. CASE find_run(p, n) # None
  <2>1. address_of(find_run(p, n)) \in Nat
    BY <1>1, <1>3, PageSizeAssumption DEF address_of
  <2> QED BY <1>3, <2>1, SetAllUsedOK DEF alloc_range
<1> QED BY <1>2, <1>3

Regions == Seq([base : Nat, end : Nat])

(* Ram::push keeps regions between natural numbers. *)
LEMMA PushOK ==
  ASSUME NEW r, r.regions \in Regions, r.usable \in Nat, NEW base \in Nat, NEW length \in Nat
  PROVE  push(r, base, length).regions \in Regions /\ push(r, base, length).usable \in Nat
<1> DEFINE top == Smaller(base + length, U64_MAX)
           end == IF top > U32_MAX THEN page_of(U32_MAX) ELSE top
           kept == [regions |-> Append(r.regions, [base |-> base, end |-> end]),
                    usable  |-> r.usable + (end - base)]
<1>1. U32_MAX \in Nat
  BY PageSizeAssumption, MaxFramesAssumption DEF U32_MAX, ADDRESSES
<1>2. page_of(U32_MAX) \in Nat
  BY <1>1, PageSizeAssumption DEF page_of
<1>3. top \in Nat
  BY BootAssumption DEF Smaller
<1>4. end \in Nat
  BY <1>2, <1>3
<1>5. push(r, base, length) = r \/ (push(r, base, length) = kept /\ ~(end <= base))
  BY DEF push
<1> HIDE DEF end
<1>6. [base |-> base, end |-> end] \in [base : Nat, end : Nat]
  BY <1>4
<1>7. kept.regions \in Regions
  BY <1>6 DEF Regions
<1>8. ~(end <= base) => kept.usable \in Nat
  BY <1>4
<1> QED BY <1>5, <1>7, <1>8

(* What the loader hands over has numbers where the code reads numbers. *)
LEMMA InfoOK ==
  ASSUME NEW i \in Infos
  PROVE  /\ i.lower * KB \in Nat /\ i.upper * KB \in Nat /\ BIOS_END \in Nat
         /\ i.mmap_addr \in Nat
         /\ \A a \in DOMAIN i.entries :
              {i.entries[a].base, i.entries[a].length, i.entries[a].size} \subseteq Nat
<1>1. \A a \in DOMAIN i.entries :
        i.entries[a] \in [size : Nat, kind : Nat, base : Nat, length : Nat]
  BY BootAssumption
<1>2. i.lower * KB \in Nat /\ i.upper * KB \in Nat /\ BIOS_END \in Nat /\ i.mmap_addr \in Nat
  BY BootAssumption
<1> QED BY <1>1, <1>2

(* What the walk reads as an entry has numbers too, also next to the map. *)
LEMMA EntryOK ==
  ASSUME info \in Infos, NEW a
  PROVE  {EntryAt(a).base, EntryAt(a).length, EntryAt(a).size} \subseteq Nat
BY InfoOK DEF EntryAt

(* The walk wraps inside the address space. *)
LEMMA NextEntryOK ==
  ASSUME NEW a \in Nat, NEW size \in Nat
  PROVE  NextEntry(a, size) \in Nat
<1>1. ADDRESSES \in Nat /\ ADDRESSES > 0 /\ SIZE_FIELD \in Nat
  BY PageSizeAssumption, MaxFramesAssumption, BootAssumption DEF ADDRESSES
<1>2. \A n, m \in Nat : m > 0 => n % m \in Nat
  OBVIOUS
<1>3. a + size + SIZE_FIELD \in Nat
  BY <1>1
<1> QED BY <1>1, <1>2, <1>3 DEF NextEntry

BootInv == PmmOK(pmm) /\ TypeOK /\ (stage # "map" => at > 0)

LEMMA BootStart == Init => BootInv
<1> SUFFICES ASSUME Init PROVE BootInv
  OBVIOUS
<1>1. PmmOK(pmm)
  BY FS_EmptySet DEF Init, PmmOK
<1>2. ram.regions \in Regions
  BY DEF Init, Regions
<1> QED BY <1>1, <1>2 DEF Init, BootInv, TypeOK, PmmTypeOK, PmmOK, Regions

LEMMA BootStep == BootInv /\ [Next]_vars => BootInv'
<1> SUFFICES ASSUME BootInv, [Next]_vars PROVE BootInv'
  OBVIOUS
<1>0. /\ PmmOK(pmm) /\ info \in Infos /\ ram.regions \in Regions /\ ram.usable \in Nat
      /\ at \in Nat /\ (stage # "map" => at > 0) /\ pages \in Nat /\ window \in [start : Nat, end : Nat]
      /\ held \in SUBSET Nat
      /\ stage \in {"probe", "map", "fallback", "init", "reserve", "carve", "run", "panic"}
  BY DEF BootInv, TypeOK, Regions
<1>a. SUFFICES /\ PmmOK(pmm') /\ info' \in Infos
               /\ ram'.regions \in Regions /\ ram'.usable \in Nat
               /\ at' \in Nat /\ (stage' # "map" => at' > 0) /\ pages' \in Nat
               /\ window' \in [start : Nat, end : Nat] /\ held' \in SUBSET Nat
               /\ stage' \in {"probe", "map", "fallback", "init", "reserve", "carve", "run", "panic"}
  BY DEF BootInv, TypeOK, PmmTypeOK, PmmOK, Regions
<1>1. CASE Probe
  BY <1>0, <1>1, InfoOK DEF Probe, Goto
<1>2. CASE WalkMap
  <2> DEFINE entry == EntryAt(at)
  <2>1. /\ ram' = ram \/ ram' = push(ram, entry.base, entry.length)
        /\ Goto("fallback") \/ (at' = NextEntry(at, entry.size) /\ UNCHANGED stage)
        /\ stage = "map"
        /\ UNCHANGED <<pmm, info, pages, window, held>>
    BY <1>2 DEF WalkMap
  <2>2. {entry.base, entry.length, entry.size} \subseteq Nat
    BY <1>0, EntryOK
  <2> HIDE DEF entry
  <2>3. ram'.regions \in Regions /\ ram'.usable \in Nat
    BY <1>0, <2>1, <2>2, PushOK
  <2>4. NextEntry(at, entry.size) \in Nat
    BY <1>0, <2>2, NextEntryOK
  <2> QED BY <1>0, <2>1, <2>3, <2>4 DEF Goto
<1>3. CASE Fallback
  <2>1. ram'.regions \in Regions /\ ram'.usable \in Nat
    <3> DEFINE low == push(ram, 0, info.lower * KB)
    <3>1. ram' = ram \/ ram' = push(low, BIOS_END, info.upper * KB)
      BY <1>3 DEF Fallback
    <3>2. low.regions \in Regions /\ low.usable \in Nat
      BY <1>0, InfoOK, PushOK
    <3> HIDE DEF low
    <3> QED BY <1>0, <3>1, <3>2, InfoOK, PushOK
  <2> QED BY <1>0, <1>3, <2>1 DEF Fallback, Goto
<1>4. CASE InitRegion
  <2>1. CASE at > Len(ram.regions)
    BY <1>0, <1>4, <2>1 DEF InitRegion, Goto
  <2>2. CASE ~(at > Len(ram.regions))
    <3> DEFINE R == [base : Nat, end : Nat]
    <3>1. ram.regions[at] \in R
      <4>1. ram.regions \in Seq(R)
        BY <1>0 DEF Regions
      <4>2. at > 0
        BY <1>0, <1>4 DEF InitRegion
      <4> HIDE DEF R
      <4> QED BY <1>0, <2>2, <4>1, <4>2
    <3>2. PmmOK(pmm')
      BY <1>0, <1>4, <2>2, <3>1, InitRegionOK DEF InitRegion
    <3> QED BY <1>0, <1>4, <2>2, <3>2 DEF InitRegion
  <2> QED BY <2>1, <2>2
<1>5. CASE Reserve
  <2>1. PmmOK(pmm')
    BY <1>0, <1>5, ReserveOK DEF Reserve
  <2>2. Smaller(KHEAP_SIZE, ram.usable \div 4) \in Nat
    BY <1>0, BootAssumption DEF Smaller
  <2>3. page_of(Smaller(KHEAP_SIZE, ram.usable \div 4)) \div PAGE_SIZE \in Nat
    <3>1. \A n \in Nat : n - (n % PAGE_SIZE) \in Nat /\ n \div PAGE_SIZE \in Nat
      BY PageSizeAssumption
    <3> QED BY <2>2, <3>1 DEF page_of
  <2> QED BY <1>0, <1>5, <2>1, <2>3 DEF Reserve, Goto
<1>6. CASE Carve
  <2> DEFINE block == alloc_range(pmm, pages)
  <2>1. PmmOK(block.pmm) /\ (block.frame # None => block.frame \in Nat)
    BY <1>0, AllocRangeOK
  <2>2. \/ UNCHANGED <<pmm, pages, window>> /\ Goto("panic")
        \/ pages' = Halved(pages) /\ UNCHANGED <<pmm, stage, at, window>>
        \/ /\ pmm' = block.pmm /\ block.frame # None
           /\ window' = [start |-> block.frame, end |-> block.frame + pages * PAGE_SIZE]
           /\ Goto("run") /\ UNCHANGED pages
    BY <1>6 DEF Carve
  <2>3. UNCHANGED <<info, ram, held>>
    BY <1>6 DEF Carve
  <2>4. pages * PAGE_SIZE \in Nat /\ pages \div 2 \in Nat
    BY <1>0, PageSizeAssumption
  <2> HIDE DEF block
  <2> QED BY <1>0, <2>1, <2>2, <2>3, <2>4 DEF Goto, Halved
<1>7. CASE AllocFrame
  BY <1>0, <1>7, AllocFrameOK DEF AllocFrame
<1>8. ASSUME NEW phys \in held, FreeFrame(phys) PROVE /\ PmmOK(pmm')
                                                     /\ held' \in SUBSET Nat
                                                     /\ UNCHANGED <<info, ram, stage, at, pages, window>>
  <2>1. frame_of(phys) \in Nat
    BY <1>0, PageSizeAssumption DEF frame_of
  <2>2. PmmOK(pmm')
    BY <1>0, <1>8, <2>1, SetFreeOK DEF FreeFrame, free_frame
  <2> QED BY <1>0, <1>8, <2>2 DEF FreeFrame
<1>9. CASE UNCHANGED vars
  BY <1>0, <1>9 DEF vars, bootVars
<1> QED BY <1>0, <1>1, <1>2, <1>3, <1>4, <1>5, <1>6, <1>7, <1>8, <1>9 DEF Next, Stopped

(***************************************************************************)
(* AVAILABLE is the number of set bits of FREE from the first step of the  *)
(* boot on, for every machine and every memory map: regions may overlap,   *)
(* reservations may cover frames that are no RAM, and frames may be taken  *)
(* and returned in any order.                                              *)
(***************************************************************************)
THEOREM CounterNeverDrifts == Spec => []AvailableCountsFree
<1>1. BootInv => AvailableCountsFree
  BY DEF BootInv, PmmOK, AvailableCountsFree
<1> QED BY <1>1, BootStart, BootStep, PTL DEF Spec

(* Every variable of the boot keeps its type. *)
THEOREM BootTypes == Spec => []TypeOK
<1>1. BootInv => TypeOK
  BY DEF BootInv
<1> QED BY <1>1, BootStart, BootStep, PTL DEF Spec
=============================================================================
