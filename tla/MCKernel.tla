------------------------------ MODULE MCKernel ------------------------------
(***************************************************************************)
(* Seven directory slots of seven pages of 32 bytes.  Slot 0 is the low    *)
(* window, 1 holds the demand window, 2 the page of `user', 3 the kernel   *)
(* window with one page of code, 4 the range of kmalloc, 5 that of         *)
(* vmalloc, 6 the directory itself.  Frames 0 to 6 are the image and its   *)
(* boot tables, 7 to 10 the block of kmalloc.                              *)
(***************************************************************************)
EXTENDS Kernel

At(n) == n * PAGE_SIZE

(* What the three forms of `fault' touch: demand, ro and kernel. *)
MCAccesses ==
  {[addr |-> DEMAND_BASE, write |-> FALSE],
   [addr |-> IMAGE_START, write |-> TRUE],
   [addr |-> At(33), write |-> TRUE]}         \* kernel space with no page

MCHeaps == {"kmalloc", "vmalloc"}
MCBase == [h \in MCHeaps |-> IF h = "kmalloc" THEN At(28) ELSE At(35)]
MCLimit == [h \in MCHeaps |-> IF h = "kmalloc" THEN At(34) ELSE At(42)]
MCPhysBase == [h \in MCHeaps |-> IF h = "kmalloc" THEN At(7) ELSE 0]
MCPhysEnd == [h \in MCHeaps |-> IF h = "kmalloc" THEN At(11) ELSE 0]

(* From no free frame at all to all that the commands ever use. *)
MCPools == {11 .. last : last \in {10, 11, 13, 15, 17, 18, 20, 22}}

(* The demand page, the page of `user', the code, and a page of vmalloc    *)
(* that the break passes on its way up and down.                           *)
MCCacheable == {7, 14, 22, 40}
=============================================================================
