-------------------------------- MODULE Heap --------------------------------
(***************************************************************************)
(* The kernel heap (kmalloc, on one contiguous physical block) and the     *)
(* virtual heap (vmalloc, on single frames) of kernel/src/heap.rs, with    *)
(* the frames and the page tables they use.                                *)
(*                                                                         *)
(* A heap is its break and its blocks.  A block header lives in memory at  *)
(* the start of the block; blk[h] maps the start of every block that a     *)
(* walk from the base meets to its size and its used flag.  The walks that *)
(* only read (last_block, find_block) are single expressions; the loops    *)
(* that change memory while they run (first_fit, grow, shrink) take one    *)
(* step per iteration, so what a call leaves behind when it stops half way *)
(* is in the model.  `call' is the call that runs, or the last that ended. *)
(***************************************************************************)
EXTENDS PageTable

CONSTANTS
  Heaps,                \* names of the heaps
  Contiguous,           \* the heaps on one physical block
  Base, Limit,          \* the address range of each heap
  PhysBase, PhysEnd,    \* the physical block of each contiguous heap
  Wants, Deltas,        \* sizes asked of alloc, distances asked of brk
  Pointers              \* pointers given to free

HEADER == 8
ALIGN == 8
SMALLEST == 8
Null == 0

ASSUME HeapAssumption ==
  /\ Heaps # {} /\ Contiguous \subseteq Heaps
  /\ Base \in [Heaps -> Nat \ {0}] /\ Limit \in [Heaps -> Nat]
  /\ PhysBase \in [Heaps -> Nat] /\ PhysEnd \in [Heaps -> Nat]
  /\ \A h \in Heaps : Base[h] + HEADER <= Limit[h]
  /\ PAGE_SIZE >= HEADER + SMALLEST
  /\ Wants \subseteq Nat /\ Deltas \subseteq Int /\ Pointers \subseteq Nat
  /\ Pools \subseteq SUBSET Frames

VARIABLES
  brk,    \* the break of each heap
  blk,    \* the blocks of each heap: start -> [size, used]
  call    \* the call that runs, or the last one

vars == <<pmm, mmu, pool, brk, blk, call>>

-----------------------------------------------------------------------------
(* Headers and sizes.                                                      *)

write_header(b, at, size, used) ==
  [a \in DOMAIN b \cup {at} |-> IF a = at THEN [size |-> size, used |-> used] ELSE b[a]]

(* A header that no walk meets any more. *)
Forget(b, at) == [a \in DOMAIN b \ {at} |-> b[a]]

EndOf(b, at) == at + HEADER + b[at].size

(* A slip: down to a multiple of ALIGN. *)
round_down(size) == IF size < SMALLEST THEN SMALLEST ELSE size - (size % ALIGN)

round_up(size) ==
  LET least == IF size < SMALLEST THEN SMALLEST ELSE size
      up    == least + ALIGN - 1
  IN  up - (up % ALIGN)

PagesFor(bytes) == (bytes + PAGE_SIZE - 1) \div PAGE_SIZE

(* The block a walk from the base meets last before `end'. *)
last_block(b, end) ==
  IF \E a \in DOMAIN b : EndOf(b, a) = end
  THEN CHOOSE a \in DOMAIN b : EndOf(b, a) = end
  ELSE None

find_block(b, payload) ==
  IF payload - HEADER \in DOMAIN b THEN payload - HEADER ELSE None

(* The rest of a block is worth a block of its own.  A slip: no room for   *)
(* its payload.                                                            *)
SplitsEmpty(size, need) == size >= need + HEADER
Splits(size, need) == size >= need + HEADER + SMALLEST

take(b, block, need) ==
  LET size == b[block].size
  IN  IF Splits(size, need)
      THEN write_header(write_header(b, block, need, TRUE),
                        block + HEADER + need, size - need - HEADER, FALSE)
      ELSE write_header(b, block, size, TRUE)

(* Merge the block at `at' with the block that follows it. *)
absorb(b, at) ==
  LET next == EndOf(b, at)
  IN  Forget(write_header(b, at, b[at].size + HEADER + b[next].size, FALSE), next)

(* The new pages join a free last block, or make a block of their own. *)
extend(b, start, end) ==
  LET tail == last_block(b, start)
  IN  IF tail # None /\ ~b[tail].used
      THEN write_header(b, tail, b[tail].size + (end - start), FALSE)
      ELSE write_header(b, start, (end - start) - HEADER, FALSE)

(* Cut the last block at `target', or drop it when it starts there. *)
trim(b, block, target) ==
  IF target > block
  THEN write_header(b, block, target - block - HEADER, FALSE)
  ELSE Forget(b, block)

(* Why shrink refuses to cut the last block at `target', "none" if it does *)
(* not.  Slips: a block that starts at the target counts as cut, and a     *)
(* used block is cut.                                                      *)
shrink_refusal_at_start(b, block, target) ==
  IF b[block].used \/ target <= block THEN "top in use"
  ELSE IF target < block + HEADER + SMALLEST THEN "top too small" ELSE "none"

shrink_refusal_used(b, block, target) ==
  IF target < block THEN "top in use"
  ELSE IF target > block /\ target < block + HEADER + SMALLEST
  THEN "top too small" ELSE "none"

shrink_refusal(b, block, target) ==
  IF b[block].used \/ target < block THEN "top in use"
  ELSE IF target > block /\ target < block + HEADER + SMALLEST
  THEN "top too small" ELSE "none"

(* frame_for: the next frame of the physical block, or any free frame. *)
frame_for(p, h, at) ==
  LET got   == alloc_frame(p)
      frame == PhysBase[h] + (at - Base[h])
  IN  IF h \notin Contiguous THEN got
      ELSE [frame |-> IF frame + PAGE_SIZE > PhysEnd[h] THEN None ELSE frame, pmm |-> p]

(* pmm::free_frame, for the frames that frame_for took from the allocator. *)
give_back_any(p, h, frame) == free_frame(p, frame)   \* a slip
give_back(p, h, frame) == IF h \in Contiguous THEN p ELSE free_frame(p, frame)

(* A slip: the pages are mapped read only. *)
grow_page_readonly(p, m, h, at) ==
  LET got    == frame_for(p, h, at)
      mapped == map_page(got.pmm, m, at, got.frame, KERNEL_READONLY)
  IN  IF got.frame = None \/ at + PAGE_SIZE > Limit[h] \/ ~mapped.ok
      THEN [oops |-> "no memory", pmm |-> p, mmu |-> m]
      ELSE [oops |-> "none", pmm |-> mapped.pmm, mmu |-> mapped.mmu]

(* One iteration of grow: why it breaks off ("none" when it does not), and *)
(* the frames and tables after it.  The frame is written to from now on.   *)
grow_page(p, m, h, at) ==
  LET got    == frame_for(p, h, at)
      mapped == map_page(got.pmm, m, at, got.frame, KERNEL_PAGE)
  IN  IF at + PAGE_SIZE > Limit[h]
      THEN [oops |-> "end of range", pmm |-> p, mmu |-> m]
      ELSE IF got.frame = None
      THEN [oops |-> "no memory", pmm |-> p, mmu |-> m]
      ELSE IF ~mapped.ok
      THEN [oops |-> mapped.oops, pmm |-> give_back(mapped.pmm, h, got.frame),
            mmu |-> mapped.mmu]
      ELSE [oops |-> "none", pmm |-> mapped.pmm,
            mmu |-> [mapped.mmu EXCEPT !.zero = @ \ {frame_of(got.frame)}]]

-----------------------------------------------------------------------------
(* Calls.                                                                  *)

(* No call runs; the last one and what came of it are remembered. *)
Idle(op, h, arg, was, ret, oops) ==
  [pc |-> "idle", op |-> op, heap |-> h, arg |-> arg, need |-> 0, at |-> 0, left |-> 0,
   start |-> 0, tries |-> 0, was |-> was, ret |-> ret, oops |-> oops]

Enter(op, h, arg) == Idle(op, h, arg, brk[h], Null, {})
Return(c, ret) == Idle(c.op, c.heap, c.arg, c.was, ret, c.oops)
Oops(c, why) == [c EXCEPT !.oops = @ \cup {why}]

Init ==
  /\ pool \in Pools
  /\ pmm = [free |-> pool, total |-> MAX_FRAMES, available |-> Cardinality(pool)]
  /\ mmu = paging_init(BootMmu)
  /\ brk = Base
  /\ blk = [h \in Heaps |-> <<>>]
  /\ call = Idle("none", CHOOSE h \in Heaps : TRUE, 0, 0, Null, {})

(* kmalloc and vmalloc, up to the first search. *)
Alloc(h, want) ==
  /\ call.pc = "idle"
  /\ LET c == Enter("alloc", h, want)
     IN  call' = IF want = 0 THEN Return(c, Null)
                 ELSE IF want > Limit[h] - Base[h] - HEADER
                 THEN Return(Oops(c, "too big"), Null)
                 ELSE [c EXCEPT !.pc = "fit", !.need = round_up(want), !.at = Base[h]]
  /\ UNCHANGED <<pmm, mmu, pool, brk, blk>>

(* first_fit stands on a block; Mergeable: a free block follows it. *)
OnBlock == call.pc = "fit" /\ call.at + HEADER <= brk[call.heap]
Here == blk[call.heap][call.at]
Following == EndOf(blk[call.heap], call.at)

(* Slips: blocks never merge, or whatever they hold. *)
NeverMergeable == FALSE
AlwaysMergeable == Following + HEADER <= brk[call.heap]

Mergeable ==
  /\ Following + HEADER <= brk[call.heap]
  /\ ~blk[call.heap][Following].used

FitAbsorb ==
  /\ OnBlock /\ ~Here.used /\ Mergeable
  /\ blk' = [blk EXCEPT ![call.heap] = absorb(@, call.at)]
  /\ UNCHANGED <<pmm, mmu, pool, brk, call>>

FitSkip ==
  /\ OnBlock
  /\ Here.used \/ (~Mergeable /\ Here.size < call.need)
  /\ call' = [call EXCEPT !.at = Following]
  /\ UNCHANGED <<pmm, mmu, pool, brk, blk>>

FitTake ==
  /\ OnBlock /\ ~Here.used /\ ~Mergeable /\ Here.size >= call.need
  /\ blk' = [blk EXCEPT ![call.heap] = take(@, call.at, call.need)]
  /\ call' = Return(call, call.at + HEADER)
  /\ UNCHANGED <<pmm, mmu, pool, brk>>

(* The search found nothing: grow once, then give up. *)
FitMiss ==
  /\ call.pc = "fit" /\ ~OnBlock
  /\ LET top == brk[call.heap]
     IN  call' = IF call.tries > 0 THEN Return(call, Null)
                 ELSE [call EXCEPT !.pc = "grow", !.left = PagesFor(call.need + HEADER),
                                   !.start = top, !.at = top]
  /\ UNCHANGED <<pmm, mmu, pool, brk, blk>>

GrowPage ==
  /\ call.pc = "grow" /\ call.left > 0
  /\ LET got == grow_page(pmm, mmu, call.heap, call.at)
     IN  /\ pmm' = got.pmm
         /\ mmu' = got.mmu
         /\ call' = IF got.oops = "none"
                    THEN [call EXCEPT !.at = @ + PAGE_SIZE, !.left = @ - 1]
                    ELSE [Oops(call, got.oops) EXCEPT !.left = 0]
  /\ UNCHANGED <<pool, brk, blk>>

GrowEnd ==
  /\ call.pc = "grow" /\ call.left = 0
  /\ IF call.at = call.start
     THEN call' = Return(call, Null) /\ UNCHANGED <<brk, blk>>
     ELSE /\ brk' = [brk EXCEPT ![call.heap] = call.at]
          /\ blk' = [blk EXCEPT ![call.heap] = extend(@, call.start, call.at)]
          /\ call' = IF call.op = "alloc"
                     THEN [call EXCEPT !.pc = "fit", !.at = Base[call.heap],
                                       !.start = 0, !.tries = 1]
                     ELSE Return(call, call.was)
  /\ UNCHANGED <<pmm, mmu, pool>>

(* shrink, up to the first page it unmaps.  A heap whose break is above    *)
(* its base has a last block (Tiled).                                      *)
BeginShrink(c, h, pages) ==
  LET span   == IF pages * PAGE_SIZE < brk[h] - Base[h]
                THEN pages * PAGE_SIZE ELSE brk[h] - Base[h]
      target == brk[h] - span
      block  == last_block(blk[h], brk[h])
      why    == shrink_refusal(blk[h], block, target)
  IN  IF span = 0
      THEN call' = Return(c, c.was) /\ UNCHANGED blk
      ELSE IF why # "none"
      THEN call' = Return(Oops(c, why), Null) /\ UNCHANGED blk
      ELSE /\ blk' = [blk EXCEPT ![h] = trim(@, block, target)]
           /\ call' = [c EXCEPT !.pc = "shrink", !.at = target, !.start = target]

(* kbrk and vbrk. *)
Brk(h, delta) ==
  /\ call.pc = "idle"
  /\ LET c == Enter("brk", h, delta)
     IN  IF delta = 0
         THEN call' = Return(c, c.was) /\ UNCHANGED blk
         ELSE IF delta > 0
         THEN /\ call' = [c EXCEPT !.pc = "grow", !.left = PagesFor(delta),
                                   !.start = brk[h], !.at = brk[h]]
              /\ UNCHANGED blk
         ELSE BeginShrink(c, h, PagesFor(-delta))
  /\ UNCHANGED <<pmm, mmu, pool, brk>>

ShrinkPage ==
  /\ call.pc = "shrink" /\ call.at < brk[call.heap]
  /\ LET got == unmap_page(pmm, mmu, call.at)
     IN  /\ pmm' = IF got.frame = None THEN pmm ELSE give_back(pmm, call.heap, got.frame)
         /\ mmu' = got.mmu
  /\ call' = [call EXCEPT !.at = @ + PAGE_SIZE]
  /\ UNCHANGED <<pool, brk, blk>>

(* A slip: the break stays. *)
ShrinkEndKeepsBreak ==
  /\ call.pc = "shrink" /\ call.at >= brk[call.heap]
  /\ call' = Return(call, call.was)
  /\ UNCHANGED <<pmm, mmu, pool, brk, blk>>

ShrinkEnd ==
  /\ call.pc = "shrink" /\ call.at >= brk[call.heap]
  /\ brk' = [brk EXCEPT ![call.heap] = call.start]
  /\ call' = Return(call, call.was)
  /\ UNCHANGED <<pmm, mmu, pool, blk>>

(* kfree and vfree. *)
Free(h, pointer) ==
  /\ call.pc = "idle"
  /\ LET c     == Enter("free", h, 0)
         block == find_block(blk[h], pointer)
         size  == blk[h][block].size
     IN  IF pointer = Null
         THEN call' = c /\ UNCHANGED blk
         ELSE IF block = None
         THEN call' = Oops(c, "did not come from") /\ UNCHANGED blk
         ELSE IF ~blk[h][block].used
         THEN call' = Oops(c, "freed twice") /\ UNCHANGED blk
         ELSE /\ blk' = [blk EXCEPT ![h] = write_header(@, block, size, FALSE)]
              /\ call' = c
  /\ UNCHANGED <<pmm, mmu, pool, brk>>

Step ==
  \/ FitAbsorb \/ FitSkip \/ FitTake \/ FitMiss
  \/ GrowPage \/ GrowEnd \/ ShrinkPage \/ ShrinkEnd

Next ==
  \/ Step
  \/ \E h \in Heaps :
       \/ \E want \in Wants : Alloc(h, want)
       \/ \E delta \in Deltas : Brk(h, delta)
       \/ \E pointer \in Pointers : Free(h, pointer)

Spec == Init /\ [][Next]_vars

(* The one thread runs on: a call that has started keeps stepping. *)
FairSpec == Spec /\ WF_vars(Step)

-----------------------------------------------------------------------------
(* Properties.                                                             *)

Messages ==
  {"too big", "end of range", "no memory", "kernel space", "no frame for the table",
   "mapped already", "top in use", "top too small", "did not come from", "freed twice"}

Calls == [pc : {"idle", "fit", "grow", "shrink"},
          op : {"none", "alloc", "brk", "free"}, heap : Heaps, arg : Int,
          need : Nat, at : Nat, left : Int, start : Nat, tries : Nat,
          was : Nat, ret : Nat, oops : SUBSET Messages]

TypeOK ==
  /\ PmmTypeOK
  /\ MmuTypeOK
  /\ pool \subseteq Frames
  /\ brk \in [Heaps -> Nat]
  /\ DOMAIN blk = Heaps
  /\ \A h \in Heaps : \A a \in DOMAIN blk[h] :
       a \in Nat /\ blk[h][a] \in [size : Nat, used : BOOLEAN]
  /\ call \in Calls

(* Where the blocks end: shrink has cut them before it moves the break. *)
Top(h) == IF call.pc = "shrink" /\ call.heap = h THEN call.start ELSE brk[h]

Blocks(h) == DOMAIN blk[h]

(***************************************************************************)
(* The blocks b tile [base, top): a block starts at the base and at the    *)
(* end of every block but the last, which ends at the top; none overlaps   *)
(* another; none is smaller than SMALLEST.                                 *)
(***************************************************************************)
Tiles(b, base, top) ==
  LET bounds == DOMAIN b \cup {top}
  IN  /\ base \in bounds
      /\ \A c \in bounds \ {base} : \E a \in DOMAIN b : EndOf(b, a) = c
      /\ \A a \in DOMAIN b :
           /\ base <= a /\ EndOf(b, a) <= top
           /\ b[a].size >= SMALLEST
           /\ EndOf(b, a) \in bounds
           /\ \A c \in DOMAIN b : a < c => EndOf(b, a) <= c

(***************************************************************************)
(* The blocks tile both heaps, in every state of every call: take, the     *)
(* merging in first_fit, grow and shrink keep the invariant on which every *)
(* walk of heap.rs relies.                                                 *)
(***************************************************************************)
Tiled == \A h \in Heaps : Tiles(blk[h], Base[h], Top(h))

(* The pages of a heap that are mapped while its break is at brk[h]. *)
Backed(h) ==
  LET running(pc) == call.pc = pc /\ call.heap = h
  IN  {n \in Pages :
         LET at == n * PAGE_SIZE
         IN  /\ Base[h] <= at
             /\ at < IF running("grow") THEN call.at ELSE brk[h]
             /\ running("shrink") => at < call.start \/ at >= call.at}

InRange(h) == {n \in Pages : Base[h] <= n * PAGE_SIZE /\ n * PAGE_SIZE < Limit[h]}

(***************************************************************************)
(* The pages below the break are mapped, writable and not for user mode,   *)
(* and no page above it is, after every page that grow maps and shrink     *)
(* unmaps and also when a call stops half way.  kmalloc's are physically   *)
(* contiguous: each at its own place in the physical block (frame_for).    *)
(***************************************************************************)
MappedToTheBreak ==
  \A h \in Heaps : \A n \in InRange(h) :
    LET entry == Walk(mmu, n)
    IN  /\ entry.flags = IF n \in Backed(h) THEN KERNEL_PAGE ELSE {}
        /\ n \in Backed(h) /\ h \in Contiguous =>
             /\ entry.frame = PhysBase[h] + (n * PAGE_SIZE - Base[h])
             /\ entry.frame + PAGE_SIZE <= PhysEnd[h]

(***************************************************************************)
(* A frame has one owner: every frame free at boot is free, or a page      *)
(* table, or behind exactly one page of a scattered heap; none is lost     *)
(* when grow breaks off or shrink gives pages back.                        *)
(***************************************************************************)
FrameHasOneOwner ==
  LET behind(n) == frame_of(mmu.pte[n].frame)
      scattered == UNION {InRange(h) \cap Mapped : h \in Heaps \ Contiguous}
      pages == {behind(n) : n \in scattered}
  IN  /\ pool = pmm.free \cup Tables \cup pages
      /\ pmm.free \cap (Tables \cup pages) = {}
      /\ Tables \cap pages = {}
      /\ \A n, k \in scattered : behind(n) = behind(k) => n = k

(***************************************************************************)
(* A live allocation stays where and as large as it is through everything  *)
(* but the free of its own pointer: merging, splitting, growing and        *)
(* shrinking leave used blocks alone.                                      *)
(***************************************************************************)
LiveBlocksStay ==
  [][\A h \in Heaps : \A a \in Blocks(h) :
       blk[h][a].used /\ ~Free(h, a + HEADER)
         => a \in DOMAIN blk'[h] /\ blk'[h][a] = blk[h][a]]_vars

(***************************************************************************)
(* What alloc hands out is room for what was asked: an aligned pointer     *)
(* into a used block of at least `want' bytes that ends below the break.   *)
(***************************************************************************)
AllocGivesRoom ==
  call.pc = "idle" /\ call.op = "alloc" /\ call.ret # Null =>
    LET b == blk[call.heap]
        block == find_block(b, call.ret)
    IN  /\ call.ret % ALIGN = 0
        /\ block # None /\ b[block].used
        /\ b[block].size >= call.arg
        /\ call.ret + call.arg <= brk[call.heap]

(* The sizes of the free runs: the bytes from a free block to the end of   *)
(* the free blocks that follow it, less one header.                        *)
FreeRuns(h) ==
  LET between(x, y) == {z \in Blocks(h) : x <= z /\ z <= y}
      ends == {e \in Blocks(h) \X Blocks(h) :
                 e[1] <= e[2] /\ \A z \in between(e[1], e[2]) : ~blk[h][z].used}
  IN  {EndOf(blk[h], e[2]) - e[1] - HEADER : e \in ends}

(***************************************************************************)
(* alloc fails only when it must: a legal request is refused only if no    *)
(* run of free blocks, merged, would hold it and not one more page can be  *)
(* had (first_fit merges before it measures, grow keeps what it got).      *)
(***************************************************************************)
RefusedOnlyWhenFull ==
  call.pc = "idle" /\ call.op = "alloc" /\ call.ret = Null /\ call.arg # 0
    /\ "too big" \notin call.oops =>
      /\ \A size \in FreeRuns(call.heap) : size < round_up(call.arg)
      /\ grow_page(pmm, mmu, call.heap, brk[call.heap]).oops # "none"

(* The last call was a brk that grew the heap by all that was asked. *)
GrewFully ==
  /\ call.pc = "idle" /\ call.op = "brk" /\ call.arg > 0
  /\ brk[call.heap] = call.was + PagesFor(call.arg) * PAGE_SIZE

(***************************************************************************)
(* Growth can be given back: right after brk(+d) got all its pages,        *)
(* brk(-d) is not refused (cmd_alloc moves the break up and down so).      *)
(***************************************************************************)
GrowthCanBeGivenBack ==
  [][GrewFully /\ Brk(call.heap, -call.arg) => call'.pc = "shrink"]_vars

-----------------------------------------------------------------------------
(* The heaps implement the allocator of AllocSpec.                         *)

Live == [h \in Heaps |->
           [p \in {a + HEADER : a \in {a \in Blocks(h) : blk[h][a].used}} |->
              blk[h][p - HEADER].size]]

Requested ==
  IF call.pc # "idle" /\ call.op = "alloc"
  THEN [heap |-> call.heap, want |-> call.arg]
  ELSE [heap |-> CHOOSE h \in Heaps : TRUE, want |-> 0]

Allocator == INSTANCE AllocSpec WITH live <- Live, request <- Requested

(***************************************************************************)
(* Whatever the searches, merges, growth and shrinking do, a user sees an  *)
(* allocator that hands out vacant memory of the size asked for, keeps it  *)
(* until it is freed, and answers every request.                           *)
(***************************************************************************)
ImplementsAllocator == Allocator!Spec

-----------------------------------------------------------------------------
(* What the documents say of the heaps, where the code does otherwise.     *)

(***************************************************************************)
(* "the refusal leaves the machine unchanged" (docs/PANIC.md:57): an alloc *)
(* that reports an oops and returns null leaves the break where it was.    *)
(* grow keeps the pages it got before it broke off.                        *)
(***************************************************************************)
RefusalLeavesTheBreak ==
  call.pc = "idle" /\ call.op = "alloc" /\ call.ret = Null /\ call.oops # {}
    => brk[call.heap] = call.was

(***************************************************************************)
(* "The new break would cut into a used block (`target < block`)."         *)
(* (docs/MEMORY.md:323): a shrink refused as in use meets a used block     *)
(* above the new break.  Free blocks at the top that no search has merged  *)
(* are refused too.                                                        *)
(***************************************************************************)
ShrinkStopsAtUsedBlocks ==
  call.pc = "idle" /\ "top in use" \in call.oops =>
    \E a \in Blocks(call.heap) :
      /\ blk[call.heap][a].used
      /\ EndOf(blk[call.heap], a) > brk[call.heap] - PagesFor(-call.arg) * PAGE_SIZE
=============================================================================
