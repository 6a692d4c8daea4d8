------------------------------ MODULE HeapWalk ------------------------------
(***************************************************************************)
(* The walks of kernel/src/heap.rs as the loops they are: from the base,   *)
(* header after header, by the sizes found there.  Heap.tla states their   *)
(* results in one expression; here TLC compares the two in every state in  *)
(* which the code walks, and checks the sums that `stats' makes of a walk. *)
(***************************************************************************)
EXTENDS Heap

(* The loop of last_block: a block after which no header fits is the last. *)
WalkLast(b, base, end) ==
  LET from[at \in Nat] ==
        IF at + HEADER > end THEN None
        ELSE IF EndOf(b, at) + HEADER > end THEN at
        ELSE from[EndOf(b, at)]
  IN  from[base]

(* The loop of find_block. *)
WalkFind(b, base, payload, end) ==
  LET from[at \in Nat] ==
        IF at + HEADER > end THEN None
        ELSE IF at + HEADER = payload THEN at
        ELSE from[EndOf(b, at)]
  IN  from[base]

(* The loop of stats, which counts a block before the ones after it. *)
WalkStats(b, base, end) ==
  LET from[at \in Nat] ==
        IF at + HEADER > end THEN [used |-> 0, free |-> 0, blocks |-> 0, live |-> 0]
        ELSE LET s == from[EndOf(b, at)]
             IN  IF b[at].used
                 THEN [s EXCEPT !.blocks = @ + 1, !.live = @ + 1, !.used = @ + b[at].size]
                 ELSE [s EXCEPT !.blocks = @ + 1, !.free = @ + b[at].size]
  IN  from[base]

(* A slip: every block counts as live. *)
stats_all_live(h) ==
  LET s == WalkStats(blk[h], Base[h], brk[h]) IN [s EXCEPT !.live = s.blocks]

stats(h) == WalkStats(blk[h], Base[h], brk[h])

-----------------------------------------------------------------------------

(* The calls walk when they start and when grow has its pages. *)
Walking == call.pc # "shrink"

(***************************************************************************)
(* A walk meets every block and only blocks: last_block finds the block    *)
(* that ends at the break, find_block accepts a pointer exactly when a     *)
(* block's payload starts there, and the report of `mem' adds up: bytes    *)
(* used, bytes free and a header per block are the heap up to its break.   *)
(* The state keeps its types.                                              *)
(***************************************************************************)
WalksMeetTheBlocks ==
  /\ TypeOK
  /\ Walking => \A h \in Heaps :
       /\ WalkLast(blk[h], Base[h], brk[h]) = last_block(blk[h], brk[h])
       /\ \A p \in Pointers :
            WalkFind(blk[h], Base[h], p, brk[h]) = find_block(blk[h], p)
       /\ LET s == stats(h)
          IN  /\ s.used + s.free + HEADER * s.blocks = brk[h] - Base[h]
              /\ s.live = Cardinality(DOMAIN Live[h])
              /\ s.blocks = Cardinality(Blocks(h))
=============================================================================
