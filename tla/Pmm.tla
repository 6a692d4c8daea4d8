-------------------------------- MODULE Pmm --------------------------------
(***************************************************************************)
(* The physical frame allocator, kernel/src/pmm.rs.                        *)
(*                                                                         *)
(* Its whole state is the bitmap FREE and the counters TOTAL and           *)
(* AVAILABLE, kept here as one record `pmm': the bitmap is the set of the  *)
(* frame numbers whose bit is set.  Every function of the file is an       *)
(* operator from such a record to a new one (and a result where there is   *)
(* one); the modules above apply them to `pmm'.                            *)
(*                                                                         *)
(* Physical addresses are numbers below ADDRESSES, the 2^32 of the code:   *)
(* MAX_FRAMES frames of PAGE_SIZE bytes are exactly that many.             *)
(***************************************************************************)
EXTENDS Integers, FiniteSets

CONSTANTS
  PAGE_SIZE,   \* bytes in a page and in a frame (4096)
  MAX_FRAMES   \* frames the bitmap has a bit for (2^20)

ASSUME PageSizeAssumption == PAGE_SIZE \in Nat \ {0}
ASSUME MaxFramesAssumption == MAX_FRAMES \in Nat \ {0}

VARIABLE pmm

ADDRESSES == PAGE_SIZE * MAX_FRAMES

Frames == 0 .. (MAX_FRAMES - 1)

(* What an Option of the code holds when it holds nothing. *)
None == -1

frame_of(phys) == phys \div PAGE_SIZE

address_of(frame) == frame * PAGE_SIZE

(* mem::page_of: the address with its offset in the page cleared. *)
page_of(addr) == addr - (addr % PAGE_SIZE)

(* u32 addition in the release build wraps. *)
Wrap(n) == n % ADDRESSES

PmmTypeOK == pmm \in [free : SUBSET Frames, total : Nat, available : Nat]

-----------------------------------------------------------------------------
(* The operations.                                                         *)

free_bit(p, frame) == frame < MAX_FRAMES /\ frame \in p.free

set_free(p, frame) ==
  IF frame >= MAX_FRAMES \/ free_bit(p, frame)
  THEN p
  ELSE [free |-> p.free \cup {frame}, total |-> p.total, available |-> p.available + 1]

set_used(p, frame) ==
  IF frame >= MAX_FRAMES \/ ~free_bit(p, frame)
  THEN p
  ELSE [free |-> p.free \ {frame}, total |-> p.total, available |-> p.available - 1]

(* The loop `for frame in first..last { set_used(frame) }'. *)
set_all_used(p, frames) ==
  [free      |-> p.free \ frames,
   total     |-> p.total,
   available |-> p.available - Cardinality(p.free \cap frames)]

(* The whole frames of a region; a slip: its base is rounded down. *)
region_frames_outward(region) ==
  frame_of(region.base) .. (frame_of(region.end) - 1)

region_frames(region) ==
  frame_of(Wrap(region.base + PAGE_SIZE - 1)) .. (frame_of(region.end) - 1)

(* Slips: a frame of two regions is counted twice, as free or in total. *)
init_region_counts_free_twice(p, region) ==
  LET inside == {f \in region_frames(region) : f < MAX_FRAMES}
  IN  [free      |-> p.free \cup inside,
       total     |-> p.total + Cardinality(inside \ p.free),
       available |-> p.available + Cardinality(inside)]

init_region_counts_all_twice(p, region) ==
  LET inside == {f \in region_frames(region) : f < MAX_FRAMES}
  IN  [free      |-> p.free \cup inside,
       total     |-> p.total + Cardinality(inside),
       available |-> p.available + Cardinality(inside \ p.free)]

(* One turn of the loop of init: the frames that were not free before. *)
init_region(p, region) ==
  LET fresh == {f \in region_frames(region) : f < MAX_FRAMES} \ p.free
  IN  [free      |-> p.free \cup fresh,
       total     |-> p.total + Cardinality(fresh),
       available |-> p.available + Cardinality(fresh)]

(* A slip: the end is rounded down. *)
reserve_inward(p, start, end) ==
  set_all_used(p, frame_of(start) .. (frame_of(end) - 1))

reserve(p, start, end) ==
  set_all_used(p, frame_of(start) .. (frame_of(Wrap(end + PAGE_SIZE - 1)) - 1))

used_frames(p) == p.total - p.available

Lowest(S) == CHOOSE x \in S : \A y \in S : x <= y

(* alloc_frame scans the words for the first set bit: the lowest frame. *)
alloc_frame(p) ==
  IF p.free = {}
  THEN [frame |-> None, pmm |-> p]
  ELSE LET frame == Lowest(p.free)
       IN  [frame |-> address_of(frame), pmm |-> set_used(p, frame)]

(* Where `count' free frames in a row start. *)
Runs(p, count) ==
  {base \in 0 .. (MAX_FRAMES - count) :
     \A frame \in base .. (base + count - 1) : free_bit(p, frame)}

find_run(p, count) ==
  IF count = 0 \/ Runs(p, count) = {} THEN None ELSE Lowest(Runs(p, count))

alloc_range(p, count) ==
  LET base == find_run(p, count)
  IN  IF base = None
      THEN [frame |-> None, pmm |-> p]
      ELSE [frame |-> address_of(base),
            pmm   |-> set_all_used(p, base .. (base + count - 1))]

free_frame(p, phys) == set_free(p, frame_of(phys))

-----------------------------------------------------------------------------
(* What the two counters promise, used by every module above.              *)

(***************************************************************************)
(* AVAILABLE is the number of set bits: "the free counter cannot drift",   *)
(* whatever the order of set_free and set_used (pmm.rs, set_free, set_used *)
(* and the loops that call them).                                          *)
(***************************************************************************)
AvailableCountsFree == pmm.available = Cardinality(pmm.free)

=============================================================================
