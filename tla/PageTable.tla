----------------------------- MODULE PageTable -----------------------------
(***************************************************************************)
(* The page directory, the page tables and the processor's cache of them:  *)
(* the mapping functions of kernel/src/paging.rs and the address-space     *)
(* tests of kernel/src/mem.rs.                                             *)
(*                                                                         *)
(* The record `mmu' is the state of the translation:                       *)
(*   dir   the ENTRIES entries of the directory;                           *)
(*   pte   the entries of all tables, by page number: the recursive window *)
(*         makes table(dir) + table_index(addr) linear in the page number; *)
(*   tlb   the translations the processor has cached, by page number;      *)
(*   wp    CR0.WP;                                                         *)
(*   zero  the frames that hold only zero bytes.                           *)
(* An entry is the physical address of a frame and a set of flags.  The    *)
(* last directory entry points at the directory itself, so the entries of  *)
(* the pages in its span are the directory's.                              *)
(*                                                                         *)
(* A function of the file is an operator that takes the allocator and the  *)
(* translation and returns a record with both, its result and the oops it  *)
(* reports ("none" when it reports nothing).                               *)
(***************************************************************************)
EXTENDS Pmm

CONSTANTS
  ENTRIES,          \* entries in a directory and in a table (1024)
  LOW_WINDOW_END,   \* end of the identity-mapped window (4 MB)
  KERNEL_SPACE,     \* start of the higher half
  DIRECTORY, LOW_TABLE, KERNEL_TABLE,  \* physical addresses of the boot tables
  IMAGE_START, READONLY_END,           \* the kernel's code and constants
  Pools             \* the sets of frames that may be free at boot

ASSUME EntriesAssumption == ENTRIES \in Nat \ {0, 1}
ASSUME SpaceAssumption ==
  /\ {DIRECTORY, LOW_TABLE, KERNEL_TABLE, IMAGE_START, READONLY_END} \subseteq Nat
  /\ LOW_WINDOW_END = PAGE_SIZE * ENTRIES
  /\ KERNEL_SPACE \in Nat /\ KERNEL_SPACE % (PAGE_SIZE * ENTRIES) = 0

VARIABLES
  mmu,    \* the translation
  pool    \* the frames that were free at boot (never changes)

Dirs == 0 .. (ENTRIES - 1)
Pages == 0 .. (ENTRIES * ENTRIES - 1)
SELF == ENTRIES - 1    \* the directory's entry for itself

PRESENT == "P"
WRITABLE == "W"
USER == "U"
KERNEL_PAGE == {PRESENT, WRITABLE}
KERNEL_READONLY == {PRESENT}
USER_PAGE == {PRESENT, WRITABLE, USER}
USER_READONLY == {PRESENT, USER}

Entry(frame, flags) == [frame |-> frame, flags |-> flags]
Absent == Entry(0, {})

page_number(addr) == addr \div PAGE_SIZE
dir_index(addr) == addr \div (PAGE_SIZE * ENTRIES)
table_index(addr) == page_number(addr) % ENTRIES
offset(addr) == addr % PAGE_SIZE

KERNEL_DIR == dir_index(KERNEL_SPACE)
BootDirs == {0, KERNEL_DIR, SELF}   \* the slots that boot.asm fills

(* mem::space_of and mem::is_kernel: the low window counts as kernel. *)
space_of(addr) ==
  IF addr < LOW_WINDOW_END THEN "Low"
  ELSE IF addr < KERNEL_SPACE THEN "User" ELSE "Kernel"

is_kernel_low_only(addr) == space_of(addr) = "Low"   \* a slip

is_kernel(addr) == space_of(addr) # "User"

MmuTypeOK ==
  /\ DOMAIN mmu = {"dir", "pte", "tlb", "wp", "zero"}
  /\ \A d \in Dirs : mmu.dir[d] \in [frame : Nat, flags : SUBSET USER_PAGE]
  /\ \A n \in Pages : mmu.pte[n] \in [frame : Nat, flags : SUBSET USER_PAGE]
  /\ DOMAIN mmu.dir = Dirs /\ DOMAIN mmu.pte = Pages /\ DOMAIN mmu.tlb \subseteq Pages
  /\ \A n \in DOMAIN mmu.tlb : mmu.tlb[n] \in [frame : Nat, flags : SUBSET USER_PAGE]
  /\ mmu.wp \in BOOLEAN
  /\ mmu.zero \subseteq Frames

-----------------------------------------------------------------------------
(* The processor (external): the walk, the cache and the two invalidations.*)

(* The entry that governs a page, seen through the recursive window. *)
entry_at(m, n) == IF n \div ENTRIES = SELF THEN m.dir[n % ENTRIES] ELSE m.pte[n]

(* What a walk of the tables yields for a page: rights need both levels. *)
Walk(m, n) ==
  LET pde == m.dir[n \div ENTRIES]
      pte == entry_at(m, n)
  IN  IF PRESENT \in pde.flags /\ PRESENT \in pte.flags
      THEN Entry(pte.frame, pde.flags \cap pte.flags)
      ELSE Absent

(* What an access uses: the cached translation if there is one. *)
Lookup(m, n) == IF n \in DOMAIN m.tlb THEN m.tlb[n] ELSE Walk(m, n)

(* The processor may cache any present translation at any time. *)
Fill(m, n) == [m EXCEPT !.tlb = [k \in DOMAIN @ \cup {n} |->
                                   IF k = n THEN Walk(m, n) ELSE @[k]]]

(* invlpg and a reload of CR3. *)
invalidate(m, n) == [m EXCEPT !.tlb = [k \in DOMAIN @ \ {n} |-> @[k]]]
flush(m) == [m EXCEPT !.tlb = <<>>]

-----------------------------------------------------------------------------
(* kernel/src/paging.rs.                                                   *)

(* boot.asm: one identity table under two directory slots, all writable. *)
BootMmu ==
  [dir  |-> [d \in Dirs |->
               IF d \in {0, KERNEL_DIR} THEN Entry(LOW_TABLE, KERNEL_PAGE)
               ELSE IF d = SELF THEN Entry(DIRECTORY, KERNEL_PAGE) ELSE Absent],
   pte  |-> [n \in Pages |->
               IF n \div ENTRIES \in {0, KERNEL_DIR}
               THEN Entry((n % ENTRIES) * PAGE_SIZE, KERNEL_PAGE) ELSE Absent],
   tlb  |-> <<>>,
   wp   |-> FALSE,
   zero |-> {}]

(* The kernel window gets a table of its own, with the image's rights. *)
kernel_table(m) ==
  LET readonly(n) == LET virt == n * PAGE_SIZE
                     IN  IMAGE_START <= virt /\ virt < READONLY_END
      rights(n) == IF readonly(n) THEN KERNEL_READONLY ELSE KERNEL_PAGE
  IN  [m EXCEPT !.pte = [n \in Pages |->
                  IF n \div ENTRIES = KERNEL_DIR
                  THEN Entry((n % ENTRIES) * PAGE_SIZE, rights(n)) ELSE @[n]],
                !.dir[KERNEL_DIR] = Entry(KERNEL_TABLE, KERNEL_PAGE)]

(* paging::init: that table, a flush, then CR0.WP; a slip: without CR0.WP. *)
paging_init_no_wp(m) == flush(kernel_table(m))
paging_init(m) == [flush(kernel_table(m)) EXCEPT !.wp = TRUE]

write_entry(m, n, entry) ==
  IF n \div ENTRIES = SELF
  THEN [m EXCEPT !.dir[n % ENTRIES] = entry]
  ELSE [m EXCEPT !.pte[n] = entry]

(* Install `frame' as the table of directory slot d, with the slot's flags:*)
(* write the slot, invalidate the window address of the table, clear it.   *)
new_table(m, d, frame, flags) ==
  LET installed == [m EXCEPT !.dir[d] = Entry(frame, flags)]
      seen      == invalidate(installed, SELF * ENTRIES + d)
  IN  [seen EXCEPT !.pte = [n \in Pages |-> IF n \div ENTRIES = d THEN Absent ELSE @[n]],
                   !.zero = @ \ {frame_of(frame)}]

get_page(p, m, addr, create) ==
  LET d     == dir_index(addr)
      got   == alloc_frame(p)
      flags == IF is_kernel(addr) THEN KERNEL_PAGE ELSE USER_PAGE
  IN  IF PRESENT \in m.dir[d].flags
      THEN [ok |-> TRUE, pmm |-> p, mmu |-> m]
      ELSE IF ~create \/ got.frame = None
      THEN [ok |-> FALSE, pmm |-> p, mmu |-> m]
      ELSE [ok |-> TRUE, pmm |-> got.pmm, mmu |-> new_table(m, d, got.frame, flags)]

(* entry_of and translate read the tables and change nothing. *)
entry_of(p, m, addr) ==
  IF get_page(p, m, addr, FALSE).ok /\ PRESENT \in entry_at(m, page_number(addr)).flags
  THEN entry_at(m, page_number(addr))
  ELSE Absent

translate(p, m, addr) ==
  IF entry_of(p, m, addr) = Absent
  THEN None
  ELSE entry_of(p, m, addr).frame + offset(addr)

Refuse(why, p, m) == [ok |-> FALSE, oops |-> why, pmm |-> p, mmu |-> m]

(* map_page once get_page has answered. *)
set_page(got, addr, frame, flags) ==
  LET n == page_number(addr)
  IN  IF ~got.ok THEN Refuse("no frame for the table", got.pmm, got.mmu)
      ELSE IF PRESENT \in entry_at(got.mmu, n).flags
      THEN Refuse("mapped already", got.pmm, got.mmu)
      ELSE [ok |-> TRUE, oops |-> "none", pmm |-> got.pmm,
            mmu |-> invalidate(write_entry(got.mmu, n, Entry(page_of(frame), flags \cup {PRESENT})), n)]

(* A slip: the table is made before the address is looked at. *)
map_page_checks_late(p, m, addr, frame, flags) ==
  LET got == get_page(p, m, addr, TRUE)
  IN  IF USER \in flags /\ is_kernel(addr) THEN Refuse("kernel space", got.pmm, got.mmu)
      ELSE set_page(got, addr, frame, flags)

map_page(p, m, addr, frame, flags) ==
  IF USER \in flags /\ is_kernel(addr) THEN Refuse("kernel space", p, m)
  ELSE set_page(get_page(p, m, addr, TRUE), addr, frame, flags)

protect(p, m, addr, flags) ==
  LET n == page_number(addr)
  IN  IF entry_of(p, m, addr) = Absent
      THEN [ok |-> FALSE, mmu |-> m]
      ELSE [ok  |-> TRUE,
            mmu |-> invalidate(write_entry(m, n, Entry(entry_at(m, n).frame, flags \cup {PRESENT})), n)]

(* The writes of zeros go where the processor translates the page. *)
clear_page_skipped(m, n) == m   \* a slip
clear_page(m, n) == [m EXCEPT !.zero = @ \cup {frame_of(Lookup(m, n).frame)}]

map_new(p, m, addr, flags) ==
  LET got     == alloc_frame(p)
      mapped  == map_page(got.pmm, m, addr, got.frame, flags \cup {WRITABLE})
      cleared == clear_page(mapped.mmu, page_number(addr))
  IN  IF got.frame = None
      THEN [frame |-> None, oops |-> "none", pmm |-> p, mmu |-> m]
      ELSE IF ~mapped.ok
      THEN [frame |-> None, oops |-> mapped.oops,
            pmm |-> free_frame(mapped.pmm, got.frame), mmu |-> mapped.mmu]
      ELSE [frame |-> got.frame, oops |-> "none", pmm |-> mapped.pmm,
            mmu |-> IF WRITABLE \in flags THEN cleared
                    ELSE protect(mapped.pmm, cleared, addr, flags).mmu]

(* A slip: the translation stays cached. *)
unmap_page_cached(p, m, addr) ==
  IF entry_of(p, m, addr) = Absent
  THEN [frame |-> None, mmu |-> m]
  ELSE [frame |-> entry_of(p, m, addr).frame, mmu |-> write_entry(m, page_number(addr), Absent)]

unmap_page(p, m, addr) ==
  LET n == page_number(addr)
  IN  IF entry_of(p, m, addr) = Absent
      THEN [frame |-> None, mmu |-> m]
      ELSE [frame |-> entry_at(m, n).frame,
            mmu   |-> invalidate(write_entry(m, n, Absent), n)]

(* unmap_page and the release of the frame it returned, as callers do.     *)
(* A slip: the frame is kept.                                              *)
unmap_and_keep(p, m, addr) == [pmm |-> p, mmu |-> unmap_page(p, m, addr).mmu]

unmap_and_free(p, m, addr) ==
  LET got == unmap_page(p, m, addr)
  IN  [pmm |-> IF got.frame = None THEN p ELSE free_frame(p, got.frame), mmu |-> got.mmu]

-----------------------------------------------------------------------------
(* Who holds which frame, for the modules that account for them.           *)

Tables == {frame_of(mmu.dir[d].frame) :
             d \in {d \in Dirs \ BootDirs : PRESENT \in mmu.dir[d].flags}}

Mapped == {n \in Pages : n \div ENTRIES \notin BootDirs /\ PRESENT \in Walk(mmu, n).flags}

=============================================================================
