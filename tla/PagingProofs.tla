---------------------------- MODULE PagingProofs ----------------------------
(***************************************************************************)
(* What the functions of kernel/src/paging.rs do to the tables and to the  *)
(* processor's cache of them, for every size of page and table and every   *)
(* layout that LayoutAssumption allows.                                    *)
(*                                                                         *)
(* MmuInv is the invariant: what is cached is what the tables hold, and no *)
(* directory slot of kernel space is for user mode.  Good(m, w): w has it, *)
(* and if the kernel's code was read only in m it is in w.  Every function *)
(* is Good on a Safe address, one that is neither code nor in the window   *)
(* on the tables.  Module KernelProofs shows that the kernel uses no other.*)
(***************************************************************************)
EXTENDS Paging, TLAPS

LEMMA DivBounds ==
  ASSUME NEW a \in Nat, NEW k \in Nat \ {0}
  PROVE  /\ a \div k \in Nat /\ a % k \in 0 .. (k - 1)
         /\ k * (a \div k) <= a /\ a < k * (a \div k) + k
  OBVIOUS

LEMMA DivUnique ==
  ASSUME NEW a \in Nat, NEW k \in Nat \ {0}, NEW q \in Nat, k * q <= a, a < k * q + k
  PROVE  a \div k = q
  OBVIOUS

LEMMA TimesMonotone ==
  ASSUME NEW k \in Nat \ {0}, NEW a \in Nat, NEW b \in Nat
  PROVE  (k * a < k * b + k) <=> (a <= b)
  OBVIOUS

LEMMA DivDiv ==
  ASSUME NEW a \in Nat, NEW k \in Nat \ {0}, NEW j \in Nat \ {0}
  PROVE  (a \div k) \div j = a \div (k * j)
  OBVIOUS

-----------------------------------------------------------------------------
(* Addresses, pages and directory slots.                                   *)

(* An address outside the span of the directory's own slot and above. *)
Usable(addr) == addr \in Nat /\ dir_index(addr) < SELF

LEMMA Sizes == /\ PAGE_SIZE \in Nat \ {0} /\ ENTRIES \in Nat \ {0}
               /\ PAGE_SIZE * ENTRIES \in Nat \ {0}
               /\ SELF \in Nat /\ SELF \in Dirs
  BY PageSizeAssumption, EntriesAssumption DEF SELF, Dirs

LEMMA SlotOfPage ==
  ASSUME NEW addr \in Nat
  PROVE  /\ page_number(addr) \in Nat /\ dir_index(addr) \in Nat
         /\ page_number(addr) \div ENTRIES = dir_index(addr)
<1>1. addr \div PAGE_SIZE \in Nat /\ addr \div (PAGE_SIZE * ENTRIES) \in Nat
  BY Zenon, Sizes, DivBounds
<1>2. (addr \div PAGE_SIZE) \div ENTRIES = addr \div (PAGE_SIZE * ENTRIES)
  BY Zenon, Sizes, DivDiv
<1> QED BY Zenon, <1>1, <1>2 DEF page_number, dir_index

LEMMA UsablePage ==
  ASSUME NEW addr, Usable(addr)
  PROVE  /\ page_number(addr) \in Pages /\ page_number(addr) \div ENTRIES # SELF
         /\ dir_index(addr) \in Dirs /\ dir_index(addr) # SELF
<1> DEFINE n == page_number(addr)
<1>1. n \in Nat /\ n \div ENTRIES = dir_index(addr) /\ dir_index(addr) \in Nat
  BY SlotOfPage DEF Usable
<1>2. n < ENTRIES * (n \div ENTRIES) + ENTRIES
  BY <1>1, Sizes, DivBounds
<1>3. ENTRIES * (n \div ENTRIES) + ENTRIES <= ENTRIES * ENTRIES
  BY <1>1, Sizes DEF Usable, SELF
<1> QED BY <1>1, <1>2, <1>3, Sizes DEF Usable, SELF, Pages, Dirs

(* The slots whose span is kernel space. *)
KernelSlot(d) == d = 0 \/ KERNEL_DIR <= d

LEMMA KernelSlots ==
  ASSUME NEW addr \in Nat
  PROVE  is_kernel(addr) <=> KernelSlot(dir_index(addr))
<1> DEFINE span == PAGE_SIZE * ENTRIES
           d == addr \div span
<1>1. span \in Nat \ {0} /\ LOW_WINDOW_END = span /\ KERNEL_SPACE \in Nat
      /\ KERNEL_SPACE % span = 0
  BY Sizes, SpaceAssumption
<1>2. d \in Nat /\ span * d <= addr /\ addr < span * d + span
  BY Zenon, <1>1, DivBounds
<1>3. KERNEL_DIR \in Nat /\ span * KERNEL_DIR = KERNEL_SPACE
  BY <1>1 DEF KERNEL_DIR, dir_index
<1> HIDE DEF span
<1>4. addr < span <=> d = 0
  BY <1>1, <1>2
<1>5. KERNEL_DIR <= d => span * KERNEL_DIR <= span * d
  BY <1>1, <1>2, <1>3
<1>6. d < KERNEL_DIR => span * d + span <= span * KERNEL_DIR
  BY <1>1, <1>2, <1>3
<1>7. addr < KERNEL_SPACE <=> d < KERNEL_DIR
  BY <1>1, <1>2, <1>3, <1>5, <1>6
<1> QED BY <1>1, <1>2, <1>3, <1>4, <1>7 DEF is_kernel, space_of, KernelSlot, dir_index, span

-----------------------------------------------------------------------------
(* The invariant of the tables and the cache.                              *)

Mmu(dir, pte, tlb, wp, zero) ==
  [dir |-> dir, pte |-> pte, tlb |-> tlb, wp |-> wp, zero |-> zero]
Without(tlb, n) == [k \in DOMAIN tlb \ {n} |-> tlb[k]]

IsMmu(m) ==
  /\ m = Mmu(m.dir, m.pte, m.tlb, m.wp, m.zero)
  /\ DOMAIN m.dir = Dirs /\ DOMAIN m.pte = Pages /\ DOMAIN m.tlb \subseteq Pages

(* What is cached is what the tables hold, and is there. *)
Coherent(m) ==
  \A n \in DOMAIN m.tlb : m.tlb[n] = Walk(m, n) /\ PRESENT \in m.tlb[n].flags

(* No slot of kernel space is for user mode, the directory's own is there. *)
Guarded(m) ==
  /\ \A d \in Dirs : KernelSlot(d) => USER \notin m.dir[d].flags
  /\ PRESENT \in m.dir[SELF].flags

MmuInv(m) == IsMmu(m) /\ Coherent(m) /\ Guarded(m)

(* The pages of the kernel's code and constants, which stay read only. *)
Code(n) == IMAGE_START <= n * PAGE_SIZE /\ n * PAGE_SIZE < READONLY_END
ReadOnly(m) == \A n \in Pages : Code(n) => WRITABLE \notin m.pte[n].flags

(* From m to w the code stays read only and CR0.WP on. *)
Keeps(m, w) == (ReadOnly(m) => ReadOnly(w)) /\ w.wp = m.wp

LEMMA SlotInDirs ==
  ASSUME NEW n \in Pages
  PROVE  n \div ENTRIES \in Dirs /\ n % ENTRIES \in Dirs
<1>1. n \in Nat /\ n < ENTRIES * ENTRIES
  BY Sizes DEF Pages
<1>2. /\ n \div ENTRIES \in Nat /\ n % ENTRIES \in 0 .. (ENTRIES - 1)
      /\ ENTRIES * (n \div ENTRIES) <= n
  BY <1>1, Sizes, DivBounds
<1>3. n \div ENTRIES < ENTRIES
  BY <1>1, <1>2, Sizes
<1> QED BY <1>2, <1>3, Sizes DEF Dirs

(* A write of an entry and the invlpg of its page. *)
LEMMA EntryWritten ==
  ASSUME NEW m, MmuInv(m), NEW n \in Pages, n \div ENTRIES # SELF, NEW entry
  PROVE  LET w == invalidate(write_entry(m, n, entry), n)
         IN  /\ MmuInv(w) /\ w.wp = m.wp
             /\ (Code(n) => WRITABLE \notin entry.flags) => Keeps(m, w)
<1> DEFINE w == invalidate(write_entry(m, n, entry), n)
<1>1. w = Mmu(m.dir, [m.pte EXCEPT ![n] = entry], Without(m.tlb, n), m.wp, m.zero)
  <2>1. write_entry(m, n, entry) = Mmu(m.dir, [m.pte EXCEPT ![n] = entry], m.tlb, m.wp, m.zero)
    BY DEF MmuInv, IsMmu, write_entry, Mmu
  <2> QED BY <2>1 DEF invalidate, Mmu, Without
<1> HIDE DEF w
<1>2. IsMmu(w)
  BY <1>1 DEF MmuInv, IsMmu, Mmu, Without
<1>3. ASSUME NEW k \in DOMAIN w.tlb PROVE Walk(w, k) = Walk(m, k)
  <2>1. k \in Pages /\ k # n /\ w.dir = m.dir /\ w.pte[k] = m.pte[k]
    BY <1>1, <1>3 DEF MmuInv, IsMmu, Mmu, Without
  <2> QED BY <2>1 DEF Walk, entry_at
<1>4. Coherent(w)
  BY <1>1, <1>3 DEF MmuInv, Coherent, Mmu, Without
<1>5. Guarded(w)
  BY <1>1 DEF MmuInv, Guarded, Mmu
<1>6. (Code(n) => WRITABLE \notin entry.flags) => Keeps(m, w)
  BY <1>1 DEF MmuInv, IsMmu, Keeps, ReadOnly, Mmu
<1> QED BY <1>1, <1>2, <1>4, <1>5, <1>6 DEF MmuInv, w, Mmu

(* A cached page lies in a slot that is there. *)
LEMMA CachedSlot ==
  ASSUME NEW m, MmuInv(m), NEW k \in DOMAIN m.tlb
  PROVE  k \in Pages /\ PRESENT \in m.dir[k \div ENTRIES].flags
<1>1. k \in Pages
  BY DEF MmuInv, IsMmu
<1>2. PRESENT \in Walk(m, k).flags
  BY DEF MmuInv, Coherent
<1>3. Absent.flags = {}
  BY DEF Absent, Entry
<1>4. PRESENT \in m.dir[k \div ENTRIES].flags
  BY <1>2, <1>3 DEF Walk
<1> QED BY <1>1, <1>4

(* A table for a slot that had none: nothing of its span was cached. *)
LEMMA TableInstalled ==
  ASSUME NEW m, MmuInv(m), NEW d \in Dirs, d # SELF, PRESENT \notin m.dir[d].flags,
         NEW frame, NEW flags, KernelSlot(d) => USER \notin flags
  PROVE  LET w == new_table(m, d, frame, flags)
         IN  MmuInv(w) /\ Keeps(m, w)
<1> DEFINE w == new_table(m, d, frame, flags)
           slot == SELF * ENTRIES + d
           dir == [m.dir EXCEPT ![d] = Entry(frame, flags)]
           pte == [n \in Pages |-> IF n \div ENTRIES = d THEN Absent ELSE m.pte[n]]
<1>1. w = Mmu(dir, pte, Without(m.tlb, slot), m.wp, m.zero \ {frame_of(frame)})
  <2>1. [m EXCEPT !.dir[d] = Entry(frame, flags)] = Mmu(dir, m.pte, m.tlb, m.wp, m.zero)
    BY DEF MmuInv, IsMmu, Mmu
  <2>2. invalidate(Mmu(dir, m.pte, m.tlb, m.wp, m.zero), slot)
          = Mmu(dir, m.pte, Without(m.tlb, slot), m.wp, m.zero)
    BY DEF invalidate, Mmu, Without
  <2>3. w = [Mmu(dir, m.pte, Without(m.tlb, slot), m.wp, m.zero) EXCEPT
               !.pte = [n \in Pages |-> IF n \div ENTRIES = d THEN Absent ELSE @[n]],
               !.zero = @ \ {frame_of(frame)}]
    BY Zenon, <2>1, <2>2 DEF new_table
  <2> QED BY <2>3 DEF Mmu
<1> HIDE DEF w
<1>2. IsMmu(w)
  BY <1>1 DEF MmuInv, IsMmu, Mmu, Without
<1>3. ASSUME NEW k \in DOMAIN w.tlb
      PROVE  k \in DOMAIN m.tlb /\ w.tlb[k] = m.tlb[k] /\ Walk(w, k) = Walk(m, k)
  <2>1. k \in DOMAIN m.tlb /\ k # slot /\ w.tlb[k] = m.tlb[k]
    BY <1>1, <1>3 DEF Mmu, Without
  <2>2. k \in Pages /\ k \div ENTRIES # d
    BY <2>1, CachedSlot
  <2>3. k \div ENTRIES \in Dirs /\ k % ENTRIES \in Dirs
    BY <2>2, SlotInDirs
  <2>4. k \div ENTRIES = SELF => k % ENTRIES # d
    <3>1. k = ENTRIES * (k \div ENTRIES) + (k % ENTRIES)
      BY <2>2, Sizes DEF Pages
    <3> QED BY <2>1, <3>1, Sizes DEF Dirs
  <2>5. w.dir[k \div ENTRIES] = m.dir[k \div ENTRIES] /\ entry_at(w, k) = entry_at(m, k)
    BY <1>1, <2>2, <2>3, <2>4 DEF MmuInv, IsMmu, Mmu, entry_at
  <2> QED BY <2>1, <2>5 DEF Walk
<1>4. Coherent(w)
  BY <1>3 DEF MmuInv, Coherent
<1>5. Guarded(w)
  BY <1>1, Sizes DEF MmuInv, IsMmu, Guarded, Mmu, Entry
<1>6. Keeps(m, w)
  BY <1>1 DEF MmuInv, IsMmu, Keeps, ReadOnly, Mmu, Absent, Entry
<1> QED BY <1>2, <1>4, <1>5, <1>6 DEF MmuInv, w

LEMMA PageGot ==
  ASSUME NEW p, NEW m, MmuInv(m), NEW addr, Usable(addr), NEW create
  PROVE  LET got == get_page(p, m, addr, create) IN MmuInv(got.mmu) /\ Keeps(m, got.mmu)
<1> DEFINE d == dir_index(addr)
           flags == IF is_kernel(addr) THEN KERNEL_PAGE ELSE USER_PAGE
           frame == alloc_frame(p).frame
           got == get_page(p, m, addr, create)
<1>1. d \in Dirs /\ d # SELF
  BY UsablePage
<1>2. KernelSlot(d) => USER \notin flags
  BY KernelSlots DEF Usable, KERNEL_PAGE, PRESENT, WRITABLE, USER
<1>3. PRESENT \notin m.dir[d].flags =>
        MmuInv(new_table(m, d, frame, flags)) /\ Keeps(m, new_table(m, d, frame, flags))
  BY <1>1, <1>2, TableInstalled
<1>4. \/ got.mmu = m
      \/ PRESENT \notin m.dir[d].flags /\ got.mmu = new_table(m, d, frame, flags)
  BY DEF get_page
<1> QED BY <1>3, <1>4 DEF Keeps

-----------------------------------------------------------------------------
(* The functions of paging.rs, on an address that is neither code nor in   *)
(* the window on the tables.                                               *)

Safe(addr) == Usable(addr) /\ ~Code(page_number(addr))
Good(m, w) == MmuInv(w) /\ Keeps(m, w)

LEMMA PageSet ==
  ASSUME NEW m, MmuInv(m), NEW addr, Safe(addr), NEW entry
  PROVE  Good(m, invalidate(write_entry(m, page_number(addr), entry), page_number(addr)))
  BY UsablePage, EntryWritten DEF Safe, Good

LEMMA PageMapped ==
  ASSUME NEW p, NEW m, MmuInv(m), NEW addr, NEW frame, NEW flags,
         ~(USER \in flags /\ is_kernel(addr)) => Safe(addr)
  PROVE  Good(m, map_page(p, m, addr, frame, flags).mmu)
<1> DEFINE w == map_page(p, m, addr, frame, flags).mmu
           n == page_number(addr)
           got == get_page(p, m, addr, TRUE)
           entry == Entry(page_of(frame), flags \cup {PRESENT})
<1>1. CASE USER \in flags /\ is_kernel(addr)
  BY <1>1 DEF map_page, Refuse, Good, Keeps
<1>2. CASE ~(USER \in flags /\ is_kernel(addr))
  <2>1. Safe(addr)
    BY <1>2
  <2>2. MmuInv(got.mmu) /\ Keeps(m, got.mmu)
    BY <2>1, PageGot DEF Safe
  <2>3. Good(got.mmu, invalidate(write_entry(got.mmu, n, entry), n))
    BY <2>1, <2>2, PageSet
  <2> HIDE DEF got, n, entry
  <2>4. w = got.mmu \/ w = invalidate(write_entry(got.mmu, n, entry), n)
    BY <1>2 DEF map_page, set_page, Refuse, got, n, entry
  <2> QED BY <2>2, <2>3, <2>4 DEF Good, Keeps
<1> QED BY <1>1, <1>2

LEMMA PageProtected ==
  ASSUME NEW p, NEW m, MmuInv(m), NEW addr, Safe(addr), NEW flags
  PROVE  Good(m, protect(p, m, addr, flags).mmu)
<1> DEFINE n == page_number(addr)
           entry == Entry(entry_at(m, n).frame, flags \cup {PRESENT})
<1>1. Good(m, invalidate(write_entry(m, n, entry), n))
  BY PageSet
<1> HIDE DEF n, entry
<1>2. \/ protect(p, m, addr, flags).mmu = m
      \/ protect(p, m, addr, flags).mmu = invalidate(write_entry(m, n, entry), n)
  BY DEF protect, n, entry
<1> QED BY <1>1, <1>2 DEF Good, Keeps

LEMMA PageUnmapped ==
  ASSUME NEW p, NEW m, MmuInv(m), NEW addr, Safe(addr)
  PROVE  /\ Good(m, unmap_page(p, m, addr).mmu)
         /\ Good(m, unmap_and_free(p, m, addr).mmu)
<1> DEFINE n == page_number(addr)
<1>1. Good(m, invalidate(write_entry(m, n, Absent), n))
  BY PageSet
<1> HIDE DEF n
<1>2. \/ unmap_page(p, m, addr).mmu = m
      \/ unmap_page(p, m, addr).mmu = invalidate(write_entry(m, n, Absent), n)
  BY DEF unmap_page, n
<1>3. unmap_and_free(p, m, addr).mmu = unmap_page(p, m, addr).mmu
  BY DEF unmap_and_free
<1> QED BY <1>1, <1>2, <1>3 DEF Good, Keeps

(* What the frames hold is no matter of the tables. *)
LEMMA ZeroMoved ==
  ASSUME NEW m, MmuInv(m), NEW zero
  PROVE  Good(m, [m EXCEPT !.zero = zero])
<1> DEFINE w == [m EXCEPT !.zero = zero]
<1>1. w = Mmu(m.dir, m.pte, m.tlb, m.wp, zero)
  BY DEF MmuInv, IsMmu, Mmu
<1> HIDE DEF w
<1>2. w.dir = m.dir /\ w.pte = m.pte /\ w.tlb = m.tlb /\ w.wp = m.wp
  BY <1>1 DEF Mmu
<1>3. IsMmu(w)
  BY <1>1 DEF MmuInv, IsMmu, Mmu
<1>4. ASSUME NEW n PROVE Walk(w, n) = Walk(m, n)
  BY <1>2 DEF Walk, entry_at
<1>5. Coherent(w) /\ Guarded(w) /\ Keeps(m, w)
  BY <1>2, <1>4 DEF MmuInv, Coherent, Guarded, Keeps, ReadOnly
<1> QED BY <1>3, <1>5 DEF Good, MmuInv, w

LEMMA NewMapped ==
  ASSUME NEW p, NEW m, MmuInv(m), NEW addr, Safe(addr), NEW flags
  PROVE  Good(m, map_new(p, m, addr, flags).mmu)
<1> DEFINE got == alloc_frame(p)
           mapped == map_page(got.pmm, m, addr, got.frame, flags \cup {WRITABLE})
           cleared == clear_page(mapped.mmu, page_number(addr))
           last == protect(mapped.pmm, cleared, addr, flags).mmu
           w == map_new(p, m, addr, flags).mmu
<1>1. Good(m, mapped.mmu)
  BY PageMapped
<1> HIDE DEF mapped
<1>2. Good(mapped.mmu, cleared)
  BY <1>1, ZeroMoved DEF Good, clear_page
<1> HIDE DEF cleared
<1>3. Good(cleared, last)
  BY <1>2, PageProtected DEF Good
<1> HIDE DEF last
<1>4. w \in {m, mapped.mmu, cleared, last}
  BY DEF map_new, mapped, cleared, last
<1> QED BY <1>1, <1>2, <1>3, <1>4 DEF Good, Keeps

(* The processor caches a page that is there. *)
LEMMA PageCached ==
  ASSUME NEW m, MmuInv(m), NEW n \in Pages, Walk(m, n) # Absent
  PROVE  Good(m, Fill(m, n))
<1> DEFINE w == Fill(m, n)
           tlb == [k \in DOMAIN m.tlb \cup {n} |-> IF k = n THEN Walk(m, n) ELSE m.tlb[k]]
<1>1. w = Mmu(m.dir, m.pte, tlb, m.wp, m.zero)
  BY DEF MmuInv, IsMmu, Mmu, Fill
<1> HIDE DEF w
<1>2. w.dir = m.dir /\ w.pte = m.pte /\ w.tlb = tlb /\ w.wp = m.wp
  BY <1>1 DEF Mmu
<1>3. IsMmu(w)
  BY <1>1 DEF MmuInv, IsMmu, Mmu
<1>4. ASSUME NEW k PROVE Walk(w, k) = Walk(m, k)
  BY <1>2 DEF Walk, entry_at
<1>5. PRESENT \in Walk(m, n).flags
  BY DEF Walk, Entry
<1>6. Coherent(w)
  BY <1>2, <1>4, <1>5 DEF MmuInv, Coherent
<1>7. Guarded(w) /\ Keeps(m, w)
  BY <1>2 DEF MmuInv, Guarded, Keeps, ReadOnly
<1> QED BY <1>3, <1>6, <1>7 DEF Good, MmuInv, w

LEMMA KernelDir == KERNEL_DIR \in Nat /\ KERNEL_DIR * (PAGE_SIZE * ENTRIES) = KERNEL_SPACE
  BY Sizes, SpaceAssumption DEF KERNEL_DIR, dir_index

(* What boot.asm leaves: nothing is cached and no slot is for user mode. *)
LEMMA BootTables == MmuInv(BootMmu)
<1> DEFINE m == BootMmu
<1>1. m.tlb = <<>> /\ m = Mmu(m.dir, m.pte, m.tlb, m.wp, m.zero)
      /\ DOMAIN m.dir = Dirs /\ DOMAIN m.pte = Pages
  BY DEF BootMmu, Mmu
<1>2. DOMAIN m.tlb = {}
  BY <1>1
<1>3. IsMmu(m) /\ Coherent(m)
  BY <1>1, <1>2 DEF IsMmu, Coherent
<1>4. \A d \in Dirs : USER \notin m.dir[d].flags
  BY DEF BootMmu, Entry, Absent, KERNEL_PAGE, PRESENT, WRITABLE, USER
<1>5. PRESENT \in m.dir[SELF].flags
  BY Sizes DEF BootMmu, Entry, KERNEL_PAGE
<1> QED BY <1>3, <1>4, <1>5 DEF MmuInv, Guarded

(* The pages of the code are pages of the kernel window. *)
LEMMA CodeSlot ==
  ASSUME NEW n \in Pages, Code(n)
  PROVE  n \div ENTRIES = KERNEL_DIR
<1> DEFINE first == KERNEL_DIR * ENTRIES
<1>1. n \in Nat /\ KERNEL_DIR \in Nat /\ first \in Nat
  BY KernelDir, Sizes DEF Pages
<1>2. PAGE_SIZE * first = KERNEL_SPACE
  BY KernelDir, Sizes
<1>3. PAGE_SIZE * first <= PAGE_SIZE * n
  BY <1>1, <1>2, Sizes, LayoutAssumption, SpaceAssumption DEF Code
<1>4. PAGE_SIZE * n < PAGE_SIZE * first + PAGE_SIZE * ENTRIES
  BY <1>1, <1>2, Sizes, LayoutAssumption, SpaceAssumption DEF Code
<1> HIDE DEF first
<1>5. first <= n
  BY <1>1, <1>3, Sizes
<1>6. n < first + ENTRIES
  BY <1>1, <1>4, Sizes
<1> QED BY <1>1, <1>5, <1>6, Sizes, DivUnique DEF first

(* paging::init makes the code read only and turns the protection on. *)
LEMMA RightsInstalled ==
  ASSUME NEW m, MmuInv(m)
  PROVE  LET w == paging_init(m) IN MmuInv(w) /\ w.wp = TRUE /\ ReadOnly(w)
<1> DEFINE w == paging_init(m)
           rights(n) == IF Code(n) THEN KERNEL_READONLY ELSE KERNEL_PAGE
           pte == [n \in Pages |-> IF n \div ENTRIES = KERNEL_DIR
                                  THEN Entry((n % ENTRIES) * PAGE_SIZE, rights(n))
                                  ELSE m.pte[n]]
           dir == [m.dir EXCEPT ![KERNEL_DIR] = Entry(KERNEL_TABLE, KERNEL_PAGE)]
<1>1. w = Mmu(dir, pte, <<>>, TRUE, m.zero)
  <2>1. kernel_table(m) = [m EXCEPT !.pte = pte, !.dir = dir]
    BY Zenon DEF kernel_table, Code
  <2> HIDE DEF pte, dir
  <2>2. [m EXCEPT !.pte = pte] = Mmu(m.dir, pte, m.tlb, m.wp, m.zero)
    BY DEF MmuInv, IsMmu, Mmu
  <2>3. [Mmu(m.dir, pte, m.tlb, m.wp, m.zero) EXCEPT !.dir = dir]
          = Mmu(dir, pte, m.tlb, m.wp, m.zero)
    BY DEF Mmu
  <2>4. flush(Mmu(dir, pte, m.tlb, m.wp, m.zero)) = Mmu(dir, pte, <<>>, m.wp, m.zero)
    BY DEF Mmu, flush
  <2>5. ASSUME NEW tlb, NEW on
        PROVE  [Mmu(dir, pte, tlb, m.wp, m.zero) EXCEPT !.wp = on] = Mmu(dir, pte, tlb, on, m.zero)
    BY DEF Mmu
  <2>6. kernel_table(m) = Mmu(dir, pte, m.tlb, m.wp, m.zero)
    BY Zenon, <2>1, <2>2, <2>3
  <2>7. w = [Mmu(dir, pte, <<>>, m.wp, m.zero) EXCEPT !.wp = TRUE]
    BY Zenon, <2>4, <2>6 DEF paging_init
  <2> HIDE DEF w
  <2> QED BY Zenon, <2>5, <2>7
<1> HIDE DEF w
<1>2. /\ w.dir = dir /\ w.pte = pte /\ w.tlb = <<>> /\ w.wp = TRUE
      /\ DOMAIN w.tlb = {}
  BY <1>1 DEF Mmu
<1>3. IsMmu(w) /\ Coherent(w)
  BY <1>1, <1>2 DEF MmuInv, IsMmu, Mmu, Coherent
<1>4. Guarded(w)
  BY <1>2, LayoutAssumption
  DEF MmuInv, IsMmu, Guarded, Entry, KERNEL_PAGE, PRESENT, WRITABLE, USER
<1>5. ReadOnly(w)
  BY <1>2, CodeSlot DEF ReadOnly, Entry, KERNEL_READONLY, PRESENT, WRITABLE
<1> QED BY <1>2, <1>3, <1>4, <1>5 DEF MmuInv, w

-----------------------------------------------------------------------------
(* Where the commands and the heaps map pages.                             *)

LEMMA PageStart ==
  ASSUME NEW addr \in Nat
  PROVE  page_number(addr) \in Nat /\ page_number(addr) * PAGE_SIZE <= addr
<1>1. page_number(addr) \in Nat /\ PAGE_SIZE * page_number(addr) <= addr
  BY Zenon, Sizes, DivBounds DEF page_number
<1> QED BY <1>1, Sizes

LEMMA UserPage ==
  ASSUME NEW addr \in Nat, addr < KERNEL_SPACE
  PROVE  Safe(addr)
<1> DEFINE span == PAGE_SIZE * ENTRIES
           d == addr \div span
<1>1. span \in Nat \ {0} /\ KERNEL_DIR \in Nat /\ span * KERNEL_DIR = KERNEL_SPACE
  BY Sizes, KernelDir
<1> HIDE DEF span
<1>2. d \in Nat /\ span * d <= addr
  BY Zenon, <1>1, DivBounds
<1>3. d < KERNEL_DIR
  BY <1>1, <1>2
<1>4. Usable(addr)
  BY <1>2, <1>3, <1>1, LayoutAssumption, Sizes DEF Usable, dir_index, span
<1>5. ~Code(page_number(addr))
  BY PageStart, SpaceAssumption, LayoutAssumption, Sizes DEF Code
<1> QED BY <1>4, <1>5 DEF Safe

LEMMA FaultHandled ==
  ASSUME NEW p, NEW m, MmuInv(m), NEW addr \in Nat, NEW error
  PROVE  Good(m, handle_fault(p, m, addr, error).mmu)
<1>1. CASE PRESENT \in error \/ ~is_demand(addr)
  BY <1>1 DEF handle_fault, Good, Keeps
<1>2. CASE ~(PRESENT \in error \/ ~is_demand(addr))
  <2>1. addr % PAGE_SIZE \in Nat /\ addr % PAGE_SIZE <= addr
    BY Sizes
  <2>2. page_of(addr) \in Nat /\ page_of(addr) < KERNEL_SPACE
    BY <1>2, <2>1, PagingAssumption, LayoutAssumption, SpaceAssumption DEF is_demand, page_of
  <2>3. Good(m, map_new(p, m, page_of(addr), USER_PAGE).mmu)
    BY <2>2, UserPage, NewMapped
  <2> QED BY <1>2, <2>3 DEF handle_fault
<1> QED BY <1>1, <1>2
=============================================================================
