---------------------------- MODULE KernelProofs ----------------------------
(***************************************************************************)
(* The translation of the running kernel, proved for every size and every  *)
(* layout: the cache is coherent, ring 3 reaches nothing of kernel space,  *)
(* and the kernel's code is never written, whatever commands, faults, heap *)
(* calls and fills of the cache are interleaved.                           *)
(*                                                                         *)
(* KernelInv is inductive.  It holds MmuInv of module PagingProofs, and    *)
(* the ranges of the heaps (RangeInv), without which grow and shrink might *)
(* map over the code or over the window on the tables.                     *)
(***************************************************************************)
EXTENDS Kernel, RangeProofs

-----------------------------------------------------------------------------
(* The command `alloc' only calls the heaps.                               *)

Quiet ==
  /\ RangeInv' /\ UNCHANGED mmu
  /\ UNCHANGED cpu \/ cpu' = [cpu EXCEPT !.pc = "stopped"]

LEMMA Ends ==
  ASSUME RangeInv
  PROVE  /\ \A why : Failed(why) => Quiet
         /\ Crashed => Quiet
<1>1. ASSUME NEW why, Failed(why) PROVE Quiet
  <2>1. UNCHANGED <<mmu, brk, call, cpu>>
    BY Zenon, <1>1 DEF Failed
  <2> QED BY <2>1 DEF Quiet, RangeInv, CallInv, Within
<1>2. ASSUME Crashed PROVE Quiet
  <2>1. UNCHANGED <<mmu, brk, call>> /\ cpu' = [cpu EXCEPT !.pc = "stopped"]
    BY Zenon, <1>2 DEF Crashed
  <2> QED BY <2>1 DEF Quiet, RangeInv, CallInv, Within
<1> QED BY Zenon, <1>1, <1>2

LEMMA TwoHeaps == "kmalloc" \in Heaps /\ "vmalloc" \in Heaps
  BY KernelAssumption

LEMMA AllocCheckKeeps ==
  ASSUME RangeInv, AllocCheck
  PROVE  Quiet
<1>1. CASE AllocSmall
  <2>1. \/ \E why : Failed(why)
        \/ Crashed
        \/ Alloc("kmalloc", BIG) /\ UNCHANGED cpu
    BY Zenon, <1>1 DEF AllocSmall
  <2> QED BY Zenon, <2>1, Ends, AllocStarts, TwoHeaps DEF Quiet
<1>2. CASE AllocBig
  <2>1. \/ \E why : Failed(why)
        \/ Crashed
        \/ Free("kmalloc", test.small) /\ UNCHANGED cpu
    BY Zenon, <1>2 DEF AllocBig
  <2> QED BY Zenon, <2>1, Ends, FreeStarts, TwoHeaps DEF Quiet
<1>3. CASE AllocFreeBig
  <2>1. Free("kmalloc", test.big) /\ UNCHANGED cpu
    BY Zenon, <1>3 DEF AllocFreeBig, Then
  <2> QED BY Zenon, <2>1, FreeStarts, TwoHeaps DEF Quiet
<1>4. CASE AllocPages
  <2>1. \/ \E why : Failed(why)
        \/ Alloc("vmalloc", TRIPLE) /\ UNCHANGED cpu
    BY Zenon, <1>4 DEF AllocPages, Then
  <2> QED BY Zenon, <2>1, Ends, AllocStarts, TwoHeaps DEF Quiet
<1>5. CASE AllocFreePages
  <2>1. \/ \E why : Failed(why)
        \/ Crashed
        \/ Free("vmalloc", call.ret) /\ UNCHANGED cpu
    BY Zenon, <1>5 DEF AllocFreePages, Then
  <2> QED BY Zenon, <2>1, Ends, FreeStarts, TwoHeaps DEF Quiet
<1>6. CASE AllocKbrkUp \/ AllocKbrkDown \/ AllocVbrkUp \/ AllocVbrkDown
  <2>1. {PAGE_SIZE, -PAGE_SIZE, 2 * PAGE_SIZE, -2 * PAGE_SIZE} \subseteq Int
    BY Sizes
  <2>2. \/ \E why : Failed(why)
        \/ Brk("kmalloc", PAGE_SIZE) /\ UNCHANGED cpu
        \/ Brk("kmalloc", -PAGE_SIZE) /\ UNCHANGED cpu
        \/ Brk("vmalloc", 2 * PAGE_SIZE) /\ UNCHANGED cpu
        \/ Brk("vmalloc", -2 * PAGE_SIZE) /\ UNCHANGED cpu
    BY Zenon, <1>6 DEF AllocKbrkUp, AllocKbrkDown, AllocVbrkUp, AllocVbrkDown, Then
  <2>3. ASSUME NEW h \in Heaps, NEW delta \in Int, Brk(h, delta), UNCHANGED cpu
        PROVE  Quiet
    BY Zenon, <2>3, BrkStarts DEF Quiet
  <2> QED BY Zenon, <2>1, <2>2, <2>3, Ends, TwoHeaps
<1>7. CASE AllocEnd
  <2>1. (\E why : Failed(why)) \/ UNCHANGED <<mmu, brk, call, cpu>>
    BY Zenon, <1>7 DEF AllocEnd
  <2>2. UNCHANGED <<mmu, brk, call, cpu>> => Quiet
    BY DEF Quiet, RangeInv, CallInv, Within
  <2> QED BY Zenon, <2>1, <2>2, Ends
<1> QED BY Zenon, <1>1, <1>2, <1>3, <1>4, <1>5, <1>6, <1>7 DEF AllocCheck

-----------------------------------------------------------------------------
(* The inductive invariant of the kernel.                                  *)

CpuInv(c) ==
  /\ {"pc", "addr", "write", "error", "faulted", "value", "then", "frame"} \subseteq DOMAIN c
  /\ c.addr \in Nat

(* Since paging::init the code is read only and the protection is on. *)
Locked == cpu.pc # "boot" => mmu.wp = TRUE /\ ReadOnly(mmu)

KernelInv == MmuInv(mmu) /\ RangeInv /\ CpuInv(cpu) /\ Locked

(* A step that is Good for the tables keeps the invariant. *)
LEMMA GoodStep ==
  ASSUME KernelInv, Good(mmu, mmu'), RangeInv', CpuInv(cpu'),
         cpu'.pc # "boot" => cpu.pc # "boot"
  PROVE  KernelInv'
<1>1. MmuInv(mmu)' /\ Locked'
  BY Zenon DEF KernelInv, Good, Keeps, Locked
<1> QED BY Zenon, <1>1 DEF KernelInv

LEMMA CpuMoved ==
  ASSUME NEW c, CpuInv(c)
  PROVE  /\ \A pc : LET w == [c EXCEPT !.pc = pc] IN CpuInv(w) /\ w.pc = pc
         /\ \A pc, e : LET w == [c EXCEPT !.pc = pc, !.error = e] IN CpuInv(w) /\ w.pc = pc
         /\ \A pc, v : LET w == [c EXCEPT !.pc = pc, !.value = v] IN CpuInv(w) /\ w.pc = pc
         /\ \A pc, f : LET w == [c EXCEPT !.pc = pc, !.faulted = f] IN CpuInv(w) /\ w.pc = pc
         /\ \A f : LET w == [c EXCEPT !.frame = f] IN CpuInv(w) /\ w.pc = c.pc
<1>1. \A pc : LET w == [c EXCEPT !.pc = pc] IN CpuInv(w) /\ w.pc = pc
  BY DEF CpuInv
<1>2. \A pc, e : LET w == [c EXCEPT !.pc = pc, !.error = e] IN CpuInv(w) /\ w.pc = pc
  BY DEF CpuInv
<1>3. \A pc, v : LET w == [c EXCEPT !.pc = pc, !.value = v] IN CpuInv(w) /\ w.pc = pc
  BY DEF CpuInv
<1>4. \A pc, f : LET w == [c EXCEPT !.pc = pc, !.faulted = f] IN CpuInv(w) /\ w.pc = pc
  BY DEF CpuInv
<1>5. \A f : LET w == [c EXCEPT !.frame = f] IN CpuInv(w) /\ w.pc = c.pc
  BY DEF CpuInv
<1> QED BY Zenon, <1>1, <1>2, <1>3, <1>4, <1>5

LEMMA Touched ==
  ASSUME CpuInv(cpu), NEW addr \in Nat, NEW write, NEW then
  PROVE  LET w == Touch(addr, write, then) IN CpuInv(w) /\ w.pc = "access"
  BY DEF CpuInv, Touch

LEMMA KernelStart == KernelInit => KernelInv
<1> SUFFICES ASSUME KernelInit PROVE KernelInv
  OBVIOUS
<1>1. MmuInv(mmu)
  BY Zenon, BootTables DEF KernelInit, PagingInit
<1>2. RangeInv
  <2>1. brk = Base /\ call = Idle("none", "kmalloc", 0, 0, Null, {})
    BY Zenon DEF KernelInit
  <2>2. CallInv(call)
    BY <2>1, TwoHeaps DEF Idle, CallInv
  <2>3. \A h \in Heaps : Within(h, brk[h])
    BY <2>1, HeapAssumption DEF Within, HEADER
  <2> QED BY <2>1, <2>2, <2>3, HeapAssumption DEF RangeInv
<1>3. CpuInv(cpu) /\ Locked
  BY DEF KernelInit, PagingInit, CpuInv, Locked
<1> QED BY <1>1, <1>2, <1>3 DEF KernelInv

(* One step of an access, of the fault handler or of the command `user'. *)
LEMMA AccessStepKeeps ==
  ASSUME KernelInv, AccessStep
  PROVE  KernelInv'
<1>1. /\ MmuInv(mmu) /\ RangeInv /\ CpuInv(cpu) /\ cpu.addr \in Nat
      /\ Good(mmu, mmu) /\ RangeInv' /\ PagingStep
  <2>1. UNCHANGED <<brk, call>> /\ PagingStep
    BY Zenon DEF AccessStep, heapVars
  <2>2. RangeInv'
    BY <2>1 DEF KernelInv, RangeInv, CallInv, Within
  <2> QED BY Zenon, <2>1, <2>2 DEF KernelInv, CpuInv, Good, Keeps
<1>2. CASE InitPaging
  <2>1. mmu' = paging_init(mmu) /\ cpu' = [cpu EXCEPT !.pc = "shell"]
    BY Zenon, <1>2 DEF InitPaging, Goto
  <2>2. MmuInv(mmu)' /\ Locked'
    BY Zenon, <1>1, <2>1, RightsInstalled DEF Locked
  <2>3. CpuInv(cpu)'
    BY Zenon, <1>1, <2>1, CpuMoved
  <2> QED BY Zenon, <1>1, <2>2, <2>3 DEF KernelInv
<1>3. CASE Access
  <2> DEFINE frame == frame_of(Lookup(mmu, page_number(cpu.addr)).frame)
             zero == mmu.zero \ {frame}
             value == IF frame \in mmu.zero THEN "zero" ELSE "data"
  <2>1. mmu' = mmu \/ mmu' = [mmu EXCEPT !.zero = zero]
    BY Zenon, <1>3 DEF Access
  <2>2. Good(mmu, mmu')
    <3>1. Good(mmu, [mmu EXCEPT !.zero = zero])
      BY Zenon, <1>1, ZeroMoved
    <3> QED BY Zenon, <1>1, <2>1, <3>1
  <2>3. /\ cpu.pc = "access"
        /\ \/ cpu' = [cpu EXCEPT !.pc = "fault", !.error = {}]
           \/ cpu' = [cpu EXCEPT !.pc = "fault", !.error = {PRESENT}]
           \/ cpu' = [cpu EXCEPT !.pc = cpu.then, !.value = value]
    BY Zenon, <1>3 DEF Access
  <2> HIDE DEF value
  <2>4. CpuInv(cpu')
    <3>1. /\ CpuInv([cpu EXCEPT !.pc = "fault", !.error = {}])
          /\ CpuInv([cpu EXCEPT !.pc = "fault", !.error = {PRESENT}])
          /\ CpuInv([cpu EXCEPT !.pc = cpu.then, !.value = value])
      BY Zenon, <1>1, CpuMoved
    <3> QED BY Zenon, <2>3, <3>1
  <2>5. cpu.pc # "boot"
    BY Zenon, <2>3
  <2> QED BY Zenon, <1>1, <2>2, <2>4, <2>5, GoodStep
<1>4. CASE Fault
  <2>1. /\ cpu.pc = "fault"
        /\ mmu' = handle_fault(pmm, mmu, cpu.addr, cpu.error).mmu
        /\ \/ cpu' = [cpu EXCEPT !.pc = "access", !.faulted = TRUE]
           \/ cpu' = [cpu EXCEPT !.pc = "stopped"]
    BY Zenon, <1>4 DEF Fault
  <2>2. Good(mmu, mmu') /\ CpuInv(cpu')
    <3>1. /\ CpuInv([cpu EXCEPT !.pc = "access", !.faulted = TRUE])
          /\ CpuInv([cpu EXCEPT !.pc = "stopped"])
      BY Zenon, <1>1, CpuMoved
    <3>2. Good(mmu, mmu')
      BY Zenon, <1>1, <2>1, FaultHandled
    <3> QED BY Zenon, <2>1, <3>1, <3>2
  <2>3. cpu.pc # "boot"
    BY Zenon, <2>1
  <2> QED BY Zenon, <1>1, <2>2, <2>3, GoodStep
<1>5. CASE UserMap
  <2> DEFINE got == map_new(pmm, mmu, USER_DEMO, USER_PAGE)
             touch == Touch(USER_DEMO, TRUE, "user read")
  <2>1. /\ cpu.pc = "user map" /\ mmu' = got.mmu
        /\ \/ cpu' = [cpu EXCEPT !.pc = "shell"]
           \/ cpu' = [touch EXCEPT !.frame = got.frame]
    BY Zenon, <1>5 DEF UserMap, Goto
  <2>2. USER_DEMO \in Nat /\ Safe(USER_DEMO)
    BY PagingAssumption, LayoutAssumption, UserPage
  <2>3. Good(mmu, mmu')
    BY Zenon, <1>1, <2>1, <2>2, NewMapped
  <2>4. CpuInv(touch)
    BY Zenon, <1>1, <2>2, Touched
  <2> HIDE DEF got, touch
  <2>5. CpuInv(cpu')
    <3>1. CpuInv([cpu EXCEPT !.pc = "shell"]) /\ CpuInv([touch EXCEPT !.frame = got.frame])
      BY Zenon, <1>1, <2>4, CpuMoved
    <3> QED BY Zenon, <2>1, <3>1
  <2>6. cpu.pc # "boot"
    BY Zenon, <2>1
  <2> QED BY Zenon, <1>1, <2>3, <2>5, <2>6, GoodStep
<1>6. CASE UserRead
  <2>1. cpu.pc = "user read" /\ UNCHANGED mmu /\ cpu' = Touch(USER_DEMO, FALSE, "user protect")
    BY Zenon, <1>6 DEF UserRead
  <2>2. CpuInv(cpu')
    BY Zenon, <1>1, <2>1, Touched, PagingAssumption
  <2>3. cpu.pc # "boot"
    BY Zenon, <2>1
  <2> QED BY Zenon, <1>1, <2>1, <2>2, <2>3, GoodStep
<1>7. CASE UserProtect
  <2>1. /\ cpu.pc = "user protect" /\ cpu' = [cpu EXCEPT !.pc = "user refuse"]
        /\ mmu' = protect(pmm, mmu, USER_DEMO, USER_READONLY).mmu
    BY Zenon, <1>7 DEF UserProtect, Goto
  <2>2. Safe(USER_DEMO)
    BY PagingAssumption, LayoutAssumption, UserPage
  <2>3. Good(mmu, mmu') /\ CpuInv(cpu')
    BY Zenon, <1>1, <2>1, <2>2, PageProtected, CpuMoved
  <2>4. cpu.pc # "boot"
    BY Zenon, <2>1
  <2> QED BY Zenon, <1>1, <2>3, <2>4, GoodStep
<1>8. CASE UserRefuse
  <2>1. /\ cpu.pc = "user refuse" /\ cpu' = [cpu EXCEPT !.pc = "user drop"]
        /\ mmu' = map_page(pmm, mmu, KHEAP_PAGE, cpu.frame, USER_PAGE).mmu
    BY Zenon, <1>8 DEF UserRefuse, Goto
  <2>2. ~(USER \in USER_PAGE /\ is_kernel(KHEAP_PAGE)) => Safe(KHEAP_PAGE)
    BY PagingAssumption, SpaceAssumption, UserPage DEF USER_PAGE, is_kernel, space_of
  <2>3. Good(mmu, mmu') /\ CpuInv(cpu')
    BY Zenon, <1>1, <2>1, <2>2, PageMapped, CpuMoved
  <2>4. cpu.pc # "boot"
    BY Zenon, <2>1
  <2> QED BY Zenon, <1>1, <2>3, <2>4, GoodStep
<1>9. CASE UserDrop
  <2>1. /\ cpu.pc = "user drop" /\ cpu' = [cpu EXCEPT !.pc = "shell"]
        /\ mmu' = unmap_and_free(pmm, mmu, USER_DEMO).mmu
    BY Zenon, <1>9 DEF UserDrop, Goto
  <2>2. Safe(USER_DEMO)
    BY PagingAssumption, LayoutAssumption, UserPage
  <2>3. Good(mmu, mmu') /\ CpuInv(cpu')
    BY Zenon, <1>1, <2>1, <2>2, PageUnmapped, CpuMoved
  <2>4. cpu.pc # "boot"
    BY Zenon, <2>1
  <2> QED BY Zenon, <1>1, <2>3, <2>4, GoodStep
<1> QED BY Zenon, <1>1, <1>2, <1>3, <1>4, <1>5, <1>6, <1>7, <1>8, <1>9 DEF PagingStep

LEMMA KernelStep == KernelInv /\ [KernelNext]_kernelVars => KernelInv'
<1> SUFFICES ASSUME KernelInv, [KernelNext]_kernelVars PROVE KernelInv'
  OBVIOUS
<1>1. MmuInv(mmu) /\ RangeInv /\ CpuInv(cpu) /\ Good(mmu, mmu)
  BY Zenon DEF KernelInv, Good, Keeps
<1>2. UNCHANGED <<brk, call>> => RangeInv'
  BY <1>1 DEF RangeInv, CallInv, Within
<1>3. CASE HeapStep
  <2>1. Step /\ UNCHANGED cpu
    BY Zenon, <1>3 DEF HeapStep
  <2>2. HeapsApart
    BY KernelAssumption DEF HeapsApart
  <2>3. RangeInv' /\ Good(mmu, mmu')
    BY Zenon, <1>1, <2>1, <2>2, HeapStepKeeps
  <2> QED BY Zenon, <1>1, <2>1, <2>3, GoodStep
<1>4. CASE AccessStep
  BY Zenon, <1>4, AccessStepKeeps
<1>5. CASE AllocCheck
  <2>1. Quiet
    BY Zenon, <1>1, <1>5, AllocCheckKeeps
  <2>2. cpu.pc # "boot"
    <3>1. cpu.pc = "shell"
      BY Zenon, <1>5 DEF AllocCheck, AllocSmall, AllocBig, AllocFreeBig, AllocPages, AllocFreePages,
        AllocKbrkUp, AllocKbrkDown, AllocVbrkUp, AllocVbrkDown, AllocEnd, Returned
    <3> QED BY Zenon, <3>1
  <2>3. CpuInv(cpu')
    <3>1. CpuInv([cpu EXCEPT !.pc = "stopped"])
      BY Zenon, <1>1, CpuMoved
    <3> QED BY Zenon, <1>1, <2>1, <3>1 DEF Quiet
  <2>4. RangeInv' /\ Good(mmu, mmu')
    BY Zenon, <1>1, <2>1 DEF Quiet
  <2> QED BY Zenon, <2>2, <2>3, <2>4, GoodStep
<1>6. CASE CmdAlloc
  <2>1. Alloc("kmalloc", SMALL) /\ UNCHANGED cpu
    BY Zenon, <1>6 DEF CmdAlloc
  <2>2. RangeInv' /\ UNCHANGED mmu
    BY Zenon, <1>1, <2>1, TwoHeaps, AllocStarts
  <2> QED BY Zenon, <1>1, <2>1, <2>2, GoodStep
<1>7. CASE OtherCommand
  <2>1. /\ cpu.pc = "shell" /\ UNCHANGED <<brk, call>>
        /\ (\E a \in Accesses : CmdFault(a)) \/ CmdUser
    BY Zenon, <1>7 DEF OtherCommand, Returned, PagingCommand, heapVars
  <2>2. RangeInv' /\ cpu.pc # "boot"
    BY Zenon, <1>2, <2>1
  <2>3. ASSUME NEW a \in Accesses, CmdFault(a) PROVE KernelInv'
    <3>1. UNCHANGED mmu /\ cpu' = Touch(a.addr, a.write, "shell")
      BY Zenon, <2>3 DEF CmdFault
    <3>2. a.addr \in Nat
      BY PagingAssumption
    <3>3. CpuInv(cpu')
      BY Zenon, <1>1, <3>1, <3>2, Touched
    <3> QED BY Zenon, <1>1, <2>2, <3>1, <3>3, GoodStep
  <2>4. CASE CmdUser
    <3>1. /\ mmu' = unmap_and_free(pmm, mmu, USER_DEMO).mmu
          /\ cpu' = [cpu EXCEPT !.pc = "user map"]
      BY Zenon, <2>4 DEF CmdUser, Goto
    <3>2. Safe(USER_DEMO)
      BY PagingAssumption, LayoutAssumption, UserPage
    <3>3. Good(mmu, mmu') /\ CpuInv(cpu')
      BY Zenon, <1>1, <3>1, <3>2, PageUnmapped, CpuMoved
    <3> QED BY Zenon, <2>2, <3>3, GoodStep
  <2> QED BY Zenon, <2>1, <2>3, <2>4
<1>8. CASE Cache
  <2>1. PICK n \in Cacheable : CacheFill(n) /\ UNCHANGED <<brk, call>>
    BY Zenon, <1>8 DEF Cache, heapVars
  <2>2. n \in Pages
    BY PagingAssumption
  <2>3. Walk(mmu, n) # Absent /\ mmu' = Fill(mmu, n) /\ UNCHANGED cpu
    BY Zenon, <2>1 DEF CacheFill
  <2>4. Good(mmu, mmu')
    BY Zenon, <1>1, <2>2, <2>3, PageCached
  <2> QED BY Zenon, <1>1, <1>2, <2>1, <2>3, <2>4, GoodStep
<1>9. CASE Halted \/ UNCHANGED kernelVars
  <2>1. UNCHANGED <<mmu, cpu, brk, call>>
    BY Zenon, <1>9 DEF Halted, Stopped, pagingVars, heapVars, kernelVars
  <2> QED BY Zenon, <1>1, <1>2, <2>1, GoodStep
<1> QED BY Zenon, <1>3, <1>4, <1>5, <1>6, <1>7, <1>8, <1>9 DEF KernelNext, Running

LEMMA KernelInvHolds == KernelSpec => []KernelInv
  BY KernelStart, KernelStep, PTL DEF KernelSpec

-----------------------------------------------------------------------------
(* What follows from it.                                                   *)

LEMMA SlotOfPageStart ==
  ASSUME NEW n \in Pages
  PROVE  n * PAGE_SIZE \in Nat /\ dir_index(n * PAGE_SIZE) = n \div ENTRIES
<1>1. n \in Nat /\ PAGE_SIZE * n \in Nat /\ n * PAGE_SIZE = PAGE_SIZE * n
  BY Sizes DEF Pages
<1>2. (PAGE_SIZE * n) \div PAGE_SIZE = n
  BY <1>1, Sizes, DivUnique
<1> QED BY Zenon, <1>1, <1>2, SlotOfPage DEF page_number

(* The kernel's code, through the kernel window, and what governs it. *)
LEMMA CodeIsReadOnly ==
  ASSUME NEW m, MmuInv(m), ReadOnly(m), NEW addr \in Nat, IMAGE_START <= addr, addr < READONLY_END
  PROVE  WRITABLE \notin Lookup(m, page_number(addr)).flags
<1> DEFINE n == page_number(addr)
           k == IMAGE_START \div PAGE_SIZE
           span == PAGE_SIZE * ENTRIES
<1>1. n \in Nat /\ PAGE_SIZE * n <= addr /\ addr < PAGE_SIZE * n + PAGE_SIZE
  BY Zenon, Sizes, DivBounds DEF page_number
<1> HIDE DEF n
<1>2. k \in Nat /\ PAGE_SIZE * k = IMAGE_START
  BY Sizes, SpaceAssumption, LayoutAssumption
<1> HIDE DEF k
<1>3. k <= n
  <2>1. PAGE_SIZE * k < PAGE_SIZE * n + PAGE_SIZE
    BY <1>1, <1>2, Sizes, SpaceAssumption
  <2> QED BY <1>1, <1>2, <2>1, Sizes, TimesMonotone
<1>4. Code(n)
  <2>1. PAGE_SIZE * k <= PAGE_SIZE * n /\ PAGE_SIZE * n = n * PAGE_SIZE
    BY <1>1, <1>2, <1>3, Sizes
  <2> QED BY <1>1, <1>2, <2>1, Sizes, SpaceAssumption DEF Code
<1>5. dir_index(addr) = KERNEL_DIR
  <2>1. span \in Nat \ {0} /\ KERNEL_DIR \in Nat /\ span * KERNEL_DIR = KERNEL_SPACE
    BY Sizes, KernelDir
  <2>2. span * KERNEL_DIR <= addr /\ addr < span * KERNEL_DIR + span
    BY <2>1, SpaceAssumption, LayoutAssumption, Sizes
  <2> HIDE DEF span
  <2>3. addr \div span = KERNEL_DIR
    BY <2>1, <2>2, DivUnique
  <2> QED BY Zenon, <2>3 DEF dir_index, span
<1>6. n \in Pages /\ n \div ENTRIES # SELF
  BY <1>5, LayoutAssumption, UsablePage DEF Usable, n
<1>7. WRITABLE \notin entry_at(m, n).flags
  BY <1>4, <1>6 DEF ReadOnly, entry_at
<1>8. WRITABLE \notin Walk(m, n).flags
  BY <1>7 DEF Walk, Absent, Entry
<1>9. Lookup(m, n) = Walk(m, n)
  BY DEF MmuInv, Coherent, Lookup
<1> QED BY <1>8, <1>9 DEF n

(***************************************************************************)
(* The processor never uses a translation that the tables no longer hold,  *)
(* however many frames, pages and tables there are, wherever the heaps and *)
(* the demand range lie and whatever is cached when (the invlpg after each *)
(* write of an entry in paging.rs).                                        *)
(***************************************************************************)
THEOREM CacheStaysCoherent == KernelSpec => []CacheCoherent
<1>1. KernelInv => CacheCoherent
  BY Zenon DEF KernelInv, MmuInv, Coherent, CacheCoherent
<1> QED BY <1>1, KernelInvHolds, PTL

(***************************************************************************)
(* Ring 3 reaches no page of kernel space, for every layout (the refusal   *)
(* of map_page, the rights that get_page gives a new table).               *)
(***************************************************************************)
THEOREM KernelStaysSupervisor == KernelSpec => []KernelSpaceIsSupervisor
<1>1. KernelInv => KernelSpaceIsSupervisor
  <2> SUFFICES ASSUME KernelInv, NEW n \in Pages, space_of(n * PAGE_SIZE) # "User"
               PROVE  USER \notin Walk(mmu, n).flags
    BY Zenon DEF KernelSpaceIsSupervisor
  <2>1. KernelSlot(n \div ENTRIES)
    BY Zenon, SlotOfPageStart, KernelSlots DEF is_kernel
  <2>2. USER \notin mmu.dir[n \div ENTRIES].flags
    BY <2>1, SlotInDirs DEF KernelInv, MmuInv, Guarded
  <2> QED BY <2>2 DEF Walk, Absent, Entry
<1> QED BY <1>1, KernelInvHolds, PTL

(***************************************************************************)
(* No write to the kernel's code through the kernel window ever completes, *)
(* for every image and every layout (paging::init: the rights, the flush   *)
(* and CR0.WP; no later mapping, of a heap or of a command, touches the    *)
(* entries of the image).                                                  *)
(***************************************************************************)
THEOREM CodeStaysUnwritten == KernelSpec => CodeIsNeverWritten
<1> DEFINE A == Access /\ cpu'.pc # "fault" /\ cpu.write
                 => ~(IMAGE_START <= cpu.addr /\ cpu.addr < READONLY_END)
<1>1. KernelInv => A
  <2> SUFFICES ASSUME KernelInv, Access, cpu.write, IMAGE_START <= cpu.addr, cpu.addr < READONLY_END
               PROVE  cpu'.pc = "fault"
    BY Zenon
  <2> DEFINE entry == Lookup(mmu, page_number(cpu.addr))
  <2>1. MmuInv(mmu) /\ CpuInv(cpu) /\ cpu.addr \in Nat
    BY Zenon DEF KernelInv, CpuInv
  <2>2. cpu.pc = "access" /\ cpu.pc # "boot"
    BY Zenon DEF Access
  <2>3. mmu.wp /\ ReadOnly(mmu)
    BY Zenon, <2>2 DEF KernelInv, Locked
  <2>4. WRITABLE \notin entry.flags
    BY Zenon, <2>1, <2>3, CodeIsReadOnly
  <2>5. \/ cpu' = [cpu EXCEPT !.pc = "fault", !.error = {}]
        \/ cpu' = [cpu EXCEPT !.pc = "fault", !.error = {PRESENT}]
    BY Zenon, <2>3, <2>4 DEF Access
  <2>6. /\ [cpu EXCEPT !.pc = "fault", !.error = {}].pc = "fault"
        /\ [cpu EXCEPT !.pc = "fault", !.error = {PRESENT}].pc = "fault"
    BY <2>1 DEF CpuInv
  <2> QED BY Zenon, <2>5, <2>6
<1> HIDE DEF A
<1>2. KernelInv => [A]_pagingVars
  BY <1>1
<1>3. KernelSpec => [][A]_pagingVars
  BY <1>2, KernelInvHolds, PTL
<1> QED BY <1>3 DEF CodeIsNeverWritten, A
=============================================================================
