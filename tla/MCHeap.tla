------------------------------- MODULE MCHeap -------------------------------
(***************************************************************************)
(* Pages of 32 bytes: two of the smallest blocks, headers included.  Slots *)
(* 0 and 1 of the directory are the low and the kernel window, 2 and 3 the *)
(* ranges of the two heaps, 4 the directory itself.                        *)
(***************************************************************************)
EXTENDS HeapWalk

At(n) == n * PAGE_SIZE

(* One heap on single frames, its range three pages long. *)
OneHeap == {"vmalloc"}
OneBase == [h \in OneHeap |-> At(15)]
OneLimit == [h \in OneHeap |-> At(18)]
OnePhys == [h \in OneHeap |-> 0]

(* Nothing, the smallest, a page and a header, two pages, and too much. *)
OneWants == {0, 1, 25, 57, 89}
OneDeltas == {-64, -1, 0, 1, 64, 128}

(* Every place a payload can start, and null. *)
OnePointers == {0} \cup {At(15) + 8 * k : k \in 1 .. 12}

(* A table and three pages, two pages, one, none. *)
OnePools == {{4, 5, 6, 7}, {5, 6, 7}, {6, 7}, {6}}

(* Both heaps, kmalloc with a range that is longer than its physical block *)
(* of two pages, vmalloc with a range of two pages.                        *)
TwoHeaps == {"kmalloc", "vmalloc"}
TwoBase == [h \in TwoHeaps |-> IF h = "kmalloc" THEN At(10) ELSE At(15)]
TwoLimit == [h \in TwoHeaps |-> IF h = "kmalloc" THEN At(13) ELSE At(17)]
TwoPhysBase == [h \in TwoHeaps |-> IF h = "kmalloc" THEN At(8) ELSE 0]
TwoPhysEnd == [h \in TwoHeaps |-> IF h = "kmalloc" THEN At(10) ELSE 0]
TwoWants == {16, 40}
TwoDeltas == {-32, 32}
TwoPointers == {TwoBase[h] + 8 + k : h \in TwoHeaps, k \in {0, 24, 32}}
TwoPools == {{4, 5, 6, 7}, {5, 7}, {6}, {}}
=============================================================================
