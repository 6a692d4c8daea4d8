----------------------------- MODULE RangeProofs ----------------------------
(***************************************************************************)
(* The heaps stay in their ranges, whatever the calls: every page that     *)
(* grow maps and shrink unmaps lies between the base and the limit of its  *)
(* heap.  So their steps keep MmuInv of module PagingProofs wherever the   *)
(* ranges are apart from the code and from the window on the tables.       *)
(***************************************************************************)
EXTENDS Heap, PagingProofs

(* The heaps lie between the kernel window and the window on the tables. *)
HeapsApart ==
  \A h \in Heaps : /\ KERNEL_SPACE + PAGE_SIZE * ENTRIES <= Base[h]
                   /\ Limit[h] <= SELF * (PAGE_SIZE * ENTRIES)

-----------------------------------------------------------------------------
(* The heaps map pages only in their own ranges.                           *)

LEMMA HeapPage ==
  ASSUME HeapsApart, NEW h \in Heaps, NEW at \in Nat, Base[h] <= at, at < Limit[h]
  PROVE  Safe(at)
<1> DEFINE span == PAGE_SIZE * ENTRIES
           d == at \div span
           first == (KERNEL_DIR + 1) * ENTRIES
<1>1. /\ span \in Nat \ {0} /\ KERNEL_DIR \in Nat /\ SELF \in Nat
      /\ KERNEL_SPACE + span <= at /\ at < SELF * span
  BY Sizes, KernelDir, HeapAssumption, SpaceAssumption DEF HeapsApart
<1>2. d \in Nat /\ span * d <= at
  BY Zenon, <1>1, DivBounds
<1>3. span * (KERNEL_DIR + 1) = KERNEL_SPACE + span
  BY Sizes, KernelDir, SpaceAssumption
<1>4. first \in Nat /\ PAGE_SIZE * first = span * (KERNEL_DIR + 1)
  BY Sizes, KernelDir
<1> HIDE DEF span, first
<1>5. d < SELF
  BY <1>1, <1>2
<1>6. Usable(at)
  BY <1>5 DEF Usable, dir_index, span
<1>7. page_number(at) \in Nat /\ at < PAGE_SIZE * page_number(at) + PAGE_SIZE
  BY Zenon, Sizes, DivBounds DEF page_number
<1>8. PAGE_SIZE * first < PAGE_SIZE * page_number(at) + PAGE_SIZE
  BY <1>1, <1>3, <1>4, <1>7, Sizes, SpaceAssumption
<1>9. first <= page_number(at)
  BY <1>4, <1>7, <1>8, Sizes, TimesMonotone
<1>10. PAGE_SIZE * first <= PAGE_SIZE * page_number(at)
  BY <1>4, <1>7, <1>9, Sizes
<1>11. ~Code(page_number(at))
  BY <1>1, <1>3, <1>4, <1>7, <1>10, Sizes, LayoutAssumption, SpaceAssumption DEF Code, span
<1> QED BY <1>6, <1>11 DEF Safe

LEMMA PageGrown ==
  ASSUME HeapsApart, NEW p, NEW m, MmuInv(m), NEW h \in Heaps, NEW at \in Nat, Base[h] <= at
  PROVE  LET got == grow_page(p, m, h, at)
         IN  Good(m, got.mmu) /\ (got.oops = "none" => at + PAGE_SIZE <= Limit[h])
<1> DEFINE got == frame_for(p, h, at)
           mapped == map_page(got.pmm, m, at, got.frame, KERNEL_PAGE)
           w == grow_page(p, m, h, at)
           zero == mapped.mmu.zero \ {frame_of(got.frame)}
<1>1. Limit[h] \in Nat /\ PAGE_SIZE \in Nat \ {0}
  BY HeapAssumption, Sizes
<1>2. CASE at + PAGE_SIZE > Limit[h]
  BY <1>1, <1>2 DEF grow_page, Good, Keeps
<1>3. CASE at + PAGE_SIZE <= Limit[h]
  <2>1. Safe(at)
    BY <1>1, <1>3, HeapPage
  <2>2. Good(m, mapped.mmu)
    BY <2>1, PageMapped
  <2> HIDE DEF mapped
  <2>3. Good(mapped.mmu, [mapped.mmu EXCEPT !.zero = zero])
    BY <2>2, ZeroMoved DEF Good
  <2>4. w.mmu \in {m, mapped.mmu, [mapped.mmu EXCEPT !.zero = zero]}
    BY DEF grow_page, mapped
  <2> QED BY <1>3, <2>2, <2>3, <2>4 DEF Good, Keeps
<1> QED BY <1>1, <1>2, <1>3

-----------------------------------------------------------------------------
(* The heaps stay in their ranges.                                         *)

Within(h, at) == at \in Nat /\ Base[h] <= at /\ at <= Limit[h]

CallInv(c) ==
  /\ {"pc", "heap", "at", "start", "left", "tries", "oops"} \subseteq DOMAIN c
  /\ c.heap \in Heaps
  /\ c.pc \in {"grow", "shrink"} => Within(c.heap, c.start)
  /\ c.pc = "grow" => Within(c.heap, c.at)
  /\ c.pc = "shrink" => c.at \in Nat /\ Base[c.heap] <= c.at

RangeInv == (\A h \in Heaps : Within(h, brk[h])) /\ DOMAIN brk = Heaps /\ CallInv(call)

LEMMA Entered ==
  ASSUME NEW op, NEW h \in Heaps, NEW arg
  PROVE  LET c == Enter(op, h, arg)
         IN  /\ CallInv(c) /\ c.heap = h /\ c.pc = "idle"
             /\ \A need, at : CallInv([c EXCEPT !.pc = "fit", !.need = need, !.at = at])
             /\ \A left, top : Within(h, top) =>
                  CallInv([c EXCEPT !.pc = "grow", !.left = left, !.start = top, !.at = top])
             /\ \A at : Within(h, at) =>
                  CallInv([c EXCEPT !.pc = "shrink", !.at = at, !.start = at])
<1> DEFINE c == Enter(op, h, arg)
<1>1. CallInv(c) /\ c.heap = h /\ c.pc = "idle"
  BY DEF Enter, Idle, CallInv
<1>2. \A need, at : CallInv([c EXCEPT !.pc = "fit", !.need = need, !.at = at])
  BY DEF Enter, Idle, CallInv
<1>3. \A left, top : Within(h, top) =>
        CallInv([c EXCEPT !.pc = "grow", !.left = left, !.start = top, !.at = top])
  BY DEF Enter, Idle, CallInv, Within
<1>4. \A at : Within(h, at) => CallInv([c EXCEPT !.pc = "shrink", !.at = at, !.start = at])
  BY DEF Enter, Idle, CallInv, Within
<1> QED BY <1>1, <1>2, <1>3, <1>4

LEMMA CallKept ==
  ASSUME NEW c, CallInv(c)
  PROVE  /\ \A ret : CallInv(Return(c, ret))
         /\ \A why : CallInv(Oops(c, why))
<1>1. \A ret : CallInv(Return(c, ret))
  BY DEF Return, Idle, CallInv
<1>2. \A why : CallInv(Oops(c, why))
  BY DEF Oops, CallInv
<1> QED BY <1>1, <1>2

LEMMA AllocStarts ==
  ASSUME RangeInv, NEW h \in Heaps, NEW want, Alloc(h, want)
  PROVE  RangeInv' /\ UNCHANGED mmu
<1> DEFINE c == Enter("alloc", h, want)
<1>1. UNCHANGED <<mmu, brk>>
  BY DEF Alloc
<1>2. CallInv(call')
  <2>1. \/ call' = Return(c, Null) \/ call' = Return(Oops(c, "too big"), Null)
        \/ call' = [c EXCEPT !.pc = "fit", !.need = round_up(want), !.at = Base[h]]
    BY Zenon DEF Alloc
  <2>2. /\ CallInv(c) /\ CallInv(Oops(c, "too big"))
        /\ CallInv([c EXCEPT !.pc = "fit", !.need = round_up(want), !.at = Base[h]])
    BY Zenon, Entered, CallKept
  <2> QED BY Zenon, <2>1, <2>2, CallKept
<1> QED BY <1>1, <1>2 DEF RangeInv, CallInv, Within

LEMMA FreeStarts ==
  ASSUME RangeInv, NEW h \in Heaps, NEW pointer, Free(h, pointer)
  PROVE  RangeInv' /\ UNCHANGED mmu
<1> DEFINE c == Enter("free", h, 0)
<1>1. UNCHANGED <<mmu, brk>>
  BY DEF Free
<1>2. call' = c \/ call' = Oops(c, "did not come from") \/ call' = Oops(c, "freed twice")
  BY Zenon DEF Free
<1>3. CallInv(c)
  BY Zenon, Entered
<1>4. CallInv(call')
  BY Zenon, <1>2, <1>3, CallKept
<1> QED BY <1>1, <1>4 DEF RangeInv, CallInv, Within

LEMMA BrkStarts ==
  ASSUME RangeInv, NEW h \in Heaps, NEW delta \in Int, Brk(h, delta)
  PROVE  RangeInv' /\ UNCHANGED mmu
<1> DEFINE c == Enter("brk", h, delta)
<1>1. UNCHANGED <<mmu, brk>> /\ Within(h, brk[h]) /\ CallInv(c)
  BY Entered DEF Brk, RangeInv
<1>2. CASE delta >= 0
  <2>1. \/ call' = Return(c, c.was)
        \/ call' = [c EXCEPT !.pc = "grow", !.left = PagesFor(delta), !.start = brk[h], !.at = brk[h]]
    BY <1>2 DEF Brk
  <2>2. CallInv([c EXCEPT !.pc = "grow", !.left = PagesFor(delta), !.start = brk[h], !.at = brk[h]])
    BY Zenon, <1>1, Entered
  <2>3. CallInv(call')
    BY Zenon, <1>1, <2>1, <2>2, CallKept
  <2> QED BY <1>1, <2>3 DEF RangeInv, CallInv, Within
<1>3. CASE delta < 0
  <2> DEFINE pages == PagesFor(-delta)
             span == IF pages * PAGE_SIZE < brk[h] - Base[h]
                     THEN pages * PAGE_SIZE ELSE brk[h] - Base[h]
             target == brk[h] - span
             why == shrink_refusal(blk[h], last_block(blk[h], brk[h]), target)
  <2>1. BeginShrink(c, h, pages)
    BY <1>3 DEF Brk
  <2>2. pages \in Nat
    <3>1. -delta + PAGE_SIZE - 1 \in Nat
      BY <1>3, Sizes
    <3> QED BY Zenon, <3>1, Sizes, DivBounds DEF PagesFor
  <2>3. pages * PAGE_SIZE \in Nat
    BY <2>2, Sizes
  <2> HIDE DEF pages
  <2>4. Within(h, target)
    BY <1>1, <2>3, HeapAssumption DEF Within
  <2>5. \/ call' = Return(c, c.was) \/ call' = Return(Oops(c, why), Null)
        \/ call' = [c EXCEPT !.pc = "shrink", !.at = target, !.start = target]
    BY Zenon, <2>1 DEF BeginShrink
  <2> HIDE DEF target, why
  <2>6. CallInv([c EXCEPT !.pc = "shrink", !.at = target, !.start = target])
    BY Zenon, <2>4, Entered
  <2>7. CallInv(Return(c, c.was)) /\ CallInv(Return(Oops(c, why), Null))
    BY Zenon, <1>1, CallKept
  <2>8. CallInv(call')
    BY Zenon, <2>5, <2>6, <2>7
  <2> QED BY <1>1, <2>8 DEF RangeInv, CallInv, Within
<1> QED BY <1>2, <1>3

LEMMA CallMoved ==
  ASSUME NEW c, CallInv(c)
  PROVE  /\ c.pc = "fit" => \A at : CallInv([c EXCEPT !.at = at])
         /\ \A left, top : Within(c.heap, top) =>
              CallInv([c EXCEPT !.pc = "grow", !.left = left, !.start = top, !.at = top])
         /\ \A at : CallInv([c EXCEPT !.pc = "fit", !.at = at, !.start = 0, !.tries = 1])
         /\ c.pc = "grow" => \A left : CallInv([c EXCEPT !.left = left])
         /\ c.pc = "grow" => \A left, at : Within(c.heap, at) =>
              CallInv([c EXCEPT !.at = at, !.left = left])
         /\ c.pc = "shrink" => CallInv([c EXCEPT !.at = @ + PAGE_SIZE])
<1>1. c.pc = "fit" => \A at : CallInv([c EXCEPT !.at = at])
  BY DEF CallInv
<1>2. \A left, top : Within(c.heap, top) =>
        CallInv([c EXCEPT !.pc = "grow", !.left = left, !.start = top, !.at = top])
  BY DEF CallInv, Within
<1>3. \A at : CallInv([c EXCEPT !.pc = "fit", !.at = at, !.start = 0, !.tries = 1])
  BY DEF CallInv
<1>4. c.pc = "grow" => \A left : CallInv([c EXCEPT !.left = left])
  BY DEF CallInv
<1>5. c.pc = "grow" => \A left, at : Within(c.heap, at) => CallInv([c EXCEPT !.at = at, !.left = left])
  BY DEF CallInv, Within
<1>6. c.pc = "shrink" => CallInv([c EXCEPT !.at = @ + PAGE_SIZE])
  BY HeapAssumption, Sizes DEF CallInv, Within
<1> QED BY Zenon, <1>1, <1>2, <1>3, <1>4, <1>5, <1>6

LEMMA BrkMoved ==
  ASSUME RangeInv, NEW at, Within(call.heap, at), CallInv(call'),
         brk' = [brk EXCEPT ![call.heap] = at]
  PROVE  RangeInv'
  BY DEF RangeInv, CallInv, Within

LEMMA BrkKept ==
  ASSUME RangeInv, CallInv(call'), UNCHANGED brk
  PROVE  RangeInv'
  BY DEF RangeInv, CallInv, Within

(* One step of a heap call. *)
LEMMA HeapStepKeeps ==
  ASSUME HeapsApart, RangeInv, MmuInv(mmu), Step
  PROVE  RangeInv' /\ Good(mmu, mmu')
<1>1. CallInv(call) /\ Within(call.heap, brk[call.heap]) /\ Good(mmu, mmu)
  BY DEF RangeInv, CallInv, Good, Keeps
<1>2. CASE FitAbsorb
  BY <1>1, <1>2 DEF FitAbsorb, RangeInv, CallInv, Within
<1>3. CASE FitSkip
  <2>1. UNCHANGED <<mmu, brk>> /\ call.pc = "fit" /\ call' = [call EXCEPT !.at = Following]
    BY Zenon, <1>3 DEF FitSkip, OnBlock
  <2>2. CallInv(call')
    BY Zenon, <1>1, <2>1, CallMoved
  <2> QED BY Zenon, <1>1, <2>1, <2>2, BrkKept
<1>4. CASE FitTake
  <2>1. UNCHANGED <<mmu, brk>> /\ CallInv(call')
    BY Zenon, <1>1, <1>4, CallKept DEF FitTake
  <2> QED BY Zenon, <1>1, <2>1, BrkKept
<1>5. CASE FitMiss
  <2> DEFINE top == brk[call.heap]
             grow == [call EXCEPT !.pc = "grow", !.left = PagesFor(call.need + HEADER),
                                  !.start = top, !.at = top]
  <2>1. UNCHANGED <<mmu, brk>> /\ (call' = Return(call, Null) \/ call' = grow)
    BY Zenon, <1>5 DEF FitMiss
  <2>2. CallInv(Return(call, Null)) /\ CallInv(grow)
    BY Zenon, <1>1, CallKept, CallMoved
  <2> QED BY Zenon, <1>1, <2>1, <2>2, BrkKept
<1>6. CASE GrowPage
  <2> DEFINE got == grow_page(pmm, mmu, call.heap, call.at)
             more == [call EXCEPT !.at = @ + PAGE_SIZE, !.left = @ - 1]
             stop == [Oops(call, got.oops) EXCEPT !.left = 0]
  <2>1. /\ UNCHANGED brk /\ call.pc = "grow" /\ mmu' = got.mmu
        /\ call' = IF got.oops = "none" THEN more ELSE stop
    BY Zenon, <1>6 DEF GrowPage
  <2>2. call.heap \in Heaps /\ call.at \in Nat /\ Base[call.heap] <= call.at
    BY <1>1, <2>1 DEF CallInv, Within
  <2>3. Good(mmu, got.mmu) /\ (got.oops = "none" => call.at + PAGE_SIZE <= Limit[call.heap])
    BY Zenon, <2>2, PageGrown
  <2> HIDE DEF got
  <2>4. got.oops = "none" => CallInv(more)
    <3>1. got.oops = "none" => Within(call.heap, call.at + PAGE_SIZE)
      BY <2>2, <2>3, Sizes, HeapAssumption DEF Within
    <3> QED BY Zenon, <1>1, <2>1, <3>1, CallMoved
  <2>5. CallInv(stop)
    <3>1. CallInv(Oops(call, got.oops)) /\ Oops(call, got.oops).pc = "grow"
      BY <1>1, <2>1, CallKept DEF Oops, CallInv
    <3> QED BY Zenon, <3>1, CallMoved
  <2>6. CallInv(call')
    BY Zenon, <2>1, <2>4, <2>5
  <2> QED BY Zenon, <2>1, <2>3, <2>6, BrkKept
<1>7. CASE GrowEnd
  <2> DEFINE again == [call EXCEPT !.pc = "fit", !.at = Base[call.heap], !.start = 0, !.tries = 1]
  <2>1. /\ UNCHANGED mmu /\ call.pc = "grow"
        /\ \/ UNCHANGED brk /\ call' = Return(call, Null)
           \/ /\ brk' = [brk EXCEPT ![call.heap] = call.at]
              /\ call' = again \/ call' = Return(call, call.was)
    BY Zenon, <1>7 DEF GrowEnd
  <2>2. CallInv(again) /\ CallInv(Return(call, Null)) /\ CallInv(Return(call, call.was))
    BY Zenon, <1>1, CallMoved, CallKept
  <2>3. Within(call.heap, call.at)
    BY <1>1, <2>1 DEF CallInv
  <2> QED BY Zenon, <1>1, <2>1, <2>2, <2>3, BrkKept, BrkMoved
<1>8. CASE ShrinkPage
  <2> DEFINE got == unmap_page(pmm, mmu, call.at)
  <2>1. /\ UNCHANGED brk /\ call.pc = "shrink" /\ mmu' = got.mmu
        /\ call' = [call EXCEPT !.at = @ + PAGE_SIZE] /\ call.at < brk[call.heap]
    BY Zenon, <1>8 DEF ShrinkPage
  <2>2. call.heap \in Heaps /\ call.at \in Nat /\ Base[call.heap] <= call.at
    BY <1>1, <2>1 DEF CallInv
  <2>3. call.at < Limit[call.heap]
    BY <1>1, <2>1, <2>2, HeapAssumption DEF Within
  <2>4. Good(mmu, got.mmu)
    BY Zenon, <2>2, <2>3, HeapPage, PageUnmapped
  <2>5. CallInv(call')
    BY Zenon, <1>1, <2>1, CallMoved
  <2> QED BY Zenon, <2>1, <2>4, <2>5, BrkKept
<1>9. CASE ShrinkEnd
  <2>1. /\ UNCHANGED mmu /\ call.pc = "shrink" /\ call' = Return(call, call.was)
        /\ brk' = [brk EXCEPT ![call.heap] = call.start]
    BY Zenon, <1>9 DEF ShrinkEnd
  <2>2. Within(call.heap, call.start) /\ CallInv(call')
    <3>1. CallInv(call')
      BY Zenon, <1>1, <2>1, CallKept
    <3> QED BY <1>1, <2>1, <3>1 DEF CallInv
  <2> QED BY Zenon, <1>1, <2>1, <2>2, BrkMoved
<1> QED BY Zenon, <1>2, <1>3, <1>4, <1>5, <1>6, <1>7, <1>8, <1>9 DEF Step
=============================================================================
