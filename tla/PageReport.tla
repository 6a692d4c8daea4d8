----------------------------- MODULE PageReport -----------------------------
(***************************************************************************)
(* What the commands `pages' and `virt' print of the translation: dump,    *)
(* summary and describe of kernel/src/paging.rs.  They read the tables     *)
(* through the recursive window and change nothing.                        *)
(*                                                                         *)
(* A run is a row of `pages' in the making: the page it starts at, the     *)
(* frame behind that page, the flags of its first entry and its length in  *)
(* pages.  An Option is a sequence of at most one element.                 *)
(***************************************************************************)
EXTENDS PageTable, Sequences, SequencesExt

(* The words that `rights' prints for an entry. *)
rights(flags) == flags \cap {WRITABLE, USER}

Run(virt, entry) ==
  [virt |-> virt, phys |-> entry.frame, flags |-> entry.flags, pages |-> 1]

follows(run, next) ==
  /\ next.virt = run.virt + run.pages
  /\ next.phys = run.phys + run.pages * PAGE_SIZE
  /\ rights(next.flags) = rights(run.flags)

(* Lengthen the open run, or print it and open the next one. *)
extend_run(s, next) ==
  IF s.run # <<>> /\ next # <<>> /\ follows(s.run[1], next[1])
  THEN [s EXCEPT !.run[1].pages = @ + 1]
  ELSE [run |-> next, rows |-> s.rows \o s.run]

(* dump: a slot without a table ends the open run, another one is read     *)
(* entry by entry; the rows are printed as their runs end.                 *)
dump(m) ==
  LET indexes == [k \in 1 .. ENTRIES |-> k - 1]
      next(n) == IF PRESENT \in entry_at(m, n).flags THEN <<Run(n, entry_at(m, n))>> ELSE <<>>
      slot(s, d) ==
        IF s.run = <<>> /\ PRESENT \notin m.dir[d].flags THEN s
        ELSE IF PRESENT \notin m.dir[d].flags THEN extend_run(s, <<>>)
        ELSE FoldLeft(LAMBDA t, i : extend_run(t, next(d * ENTRIES + i)), s, indexes)
  IN  extend_run(FoldLeft(slot, [run |-> <<>>, rows |-> <<>>], indexes), <<>>).rows

(* summary: one line of `virt', the physical address and the rights. *)
summary(p, m, addr) ==
  LET entry == entry_of(p, m, addr)
  IN  IF entry = Absent THEN <<>>
      ELSE <<[phys |-> entry.frame + offset(addr), rights |-> rights(entry.flags)]>>

(* A slip: the table is read through the slot before. *)
describe_slot_before(m, addr) ==
  LET pde == m.dir[dir_index(addr)]
      pte == entry_at(m, (page_number(addr) + ENTRIES * ENTRIES - ENTRIES) % (ENTRIES * ENTRIES))
  IN  IF PRESENT \notin pde.flags THEN <<>>
      ELSE IF PRESENT \notin pte.flags THEN <<pde.flags>>
      ELSE <<pde.flags, pte.flags, pte.frame + offset(addr)>>

(* describe: the levels that are present, and the address they lead to. *)
describe(m, addr) ==
  LET pde == m.dir[dir_index(addr)]
      pte == entry_at(m, dir_index(addr) * ENTRIES + table_index(addr))
  IN  IF PRESENT \notin pde.flags THEN <<>>
      ELSE IF PRESENT \notin pte.flags THEN <<pde.flags>>
      ELSE <<pde.flags, pte.flags, pte.frame + offset(addr)>>

-----------------------------------------------------------------------------

(***************************************************************************)
(* `pages' "merges every run of pages contiguous in both the virtual and   *)
(* the physical direction" (docs/PAGING.md): the rows cover each present   *)
(* page once, with its own frame and rights and no other page, and no row  *)
(* could have been merged with the one before it (dump, extend_run).       *)
(***************************************************************************)
DumpIsTheTables ==
  LET rows == dump(mmu)
      covers(r, n) == r.virt <= n /\ n < r.virt + r.pages
      tells(r, n) ==
        /\ Walk(mmu, n).frame = r.phys + (n - r.virt) * PAGE_SIZE
        /\ rights(entry_at(mmu, n).flags) = rights(r.flags)
  IN  /\ \A n \in Pages :
           LET by == {i \in DOMAIN rows : covers(rows[i], n)}
           IN  IF Walk(mmu, n) = Absent THEN by = {}
               ELSE Cardinality(by) = 1 /\ \A i \in by : tells(rows[i], n)
      /\ \A i \in 2 .. Len(rows) :
           /\ rows[i - 1].virt < rows[i].virt
           /\ ~(/\ rows[i].virt = rows[i - 1].virt + rows[i - 1].pages
                /\ tells(rows[i - 1], rows[i].virt))

(***************************************************************************)
(* `virt' tells what the processor would do now, from its cache or from    *)
(* the tables: it finds an address exactly when an access would, at the    *)
(* same physical address, and the rights of its two levels together are    *)
(* the rights the access has (describe, summary, translate).               *)
(***************************************************************************)
VirtIsTheProcessor ==
  \A addr \in {n * PAGE_SIZE + PAGE_SIZE - 1 : n \in Pages} :
    LET used == Lookup(mmu, page_number(addr))
        full == describe(mmu, addr)
        line == summary(pmm, mmu, addr)
    IN  IF PRESENT \in used.flags
        THEN /\ Len(full) = 3
             /\ full[1] \cap full[2] = used.flags
             /\ full[3] = used.frame + offset(addr)
             /\ line = <<[phys |-> full[3], rights |-> rights(full[2])]>>
             /\ translate(pmm, mmu, addr) = full[3]
        ELSE Len(full) < 3 /\ line = <<>> /\ translate(pmm, mmu, addr) = None
=============================================================================
