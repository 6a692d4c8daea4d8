------------------------------ MODULE PmmScan ------------------------------
(***************************************************************************)
(* The three scans over the bitmap of kernel/src/pmm.rs as the code runs   *)
(* them, one turn of a loop per step: the words of alloc_frame, the two    *)
(* nested loops of find_run with the skip over a rejected run, and the     *)
(* running maximum of largest_run.  Module Pmm states what alloc_frame and *)
(* find_run return by a property of the bitmap; this module shows that the *)
(* loops return just that.                                                 *)
(***************************************************************************)
EXTENDS Pmm

CONSTANT WORD   \* bits in a word of the bitmap (32)

ASSUME WordAssumption == WORD \in Nat \ {0} /\ MAX_FRAMES % WORD = 0

VARIABLES
  op,      \* the function that runs
  count,   \* the argument of find_run
  pc,      \* the loop the function is in
  frame,   \* find_run and largest_run: the frame; alloc_frame: the word
  span,    \* find_run: span; largest_run: run
  best,    \* largest_run: best
  result   \* what the function returned

vars == <<pmm, op, count, pc, frame, span, best, result>>

Ops == {"alloc_frame", "find_run", "largest_run"}

Init ==
  /\ \E free \in SUBSET Frames :
       pmm = [free |-> free, total |-> MAX_FRAMES, available |-> Cardinality(free)]
  /\ op \in Ops
  /\ count \in IF op = "find_run" THEN 0 .. (MAX_FRAMES + 1) ELSE {0}
  /\ pc = "outer"
  /\ frame = 0 /\ span = 0 /\ best = 0
  /\ result = None

Return(r) == pc' = "done" /\ result' = r

(* A run from `frame' on may still fit; a slip: not the last place. *)
FitsBefore == frame + count < MAX_FRAMES
Fits == frame + count <= MAX_FRAMES

(* find_run, the outer loop. *)
FindOuter ==
  /\ op = "find_run" /\ pc = "outer"
  /\ IF count = 0 \/ ~Fits
     THEN Return(None) /\ UNCHANGED <<frame, span>>
     ELSE IF ~free_bit(pmm, frame)
     THEN frame' = frame + 1 /\ UNCHANGED <<pc, span, result>>
     ELSE span' = 1 /\ pc' = "inner" /\ UNCHANGED <<frame, result>>
  /\ UNCHANGED <<pmm, op, count, best>>

(* Where the search goes on after a run that was too short: past the used  *)
(* frame that ended it.  A slip: not at all.                               *)
NoFurther == frame
PastRun == frame + span + 1

(* find_run, the inner loop and what follows it. *)
FindInner ==
  /\ op = "find_run" /\ pc = "inner"
  /\ IF span < count /\ free_bit(pmm, frame + span)
     THEN span' = span + 1 /\ UNCHANGED <<pc, frame, result>>
     ELSE IF span = count
     THEN Return(frame) /\ UNCHANGED <<frame, span>>
     ELSE /\ frame' = PastRun
          /\ pc' = "outer"
          /\ UNCHANGED <<span, result>>
  /\ UNCHANGED <<pmm, op, count, best>>

(* The free frames in a row up to `frame'. *)
RunHere == IF free_bit(pmm, frame) THEN span + 1 ELSE 0

(* largest_run. *)
LargestStep ==
  /\ op = "largest_run" /\ pc = "outer"
  /\ IF frame >= MAX_FRAMES
     THEN Return(best) /\ UNCHANGED <<frame, span, best>>
     ELSE /\ span' = RunHere
          /\ best' = IF span' > best THEN span' ELSE best
          /\ frame' = frame + 1
          /\ UNCHANGED <<pc, result>>
  /\ UNCHANGED <<pmm, op, count>>

(* The frames whose bit is set in a word; a slip: the top bit is missed. *)
BitsButTop(word) == {f \in (word * WORD) .. (word * WORD + WORD - 2) : free_bit(pmm, f)}
Bits(word) == {f \in (word * WORD) .. (word * WORD + WORD - 1) : free_bit(pmm, f)}

(* alloc_frame: a zero word is skipped, else the lowest bit is taken. *)
AllocStep ==
  /\ op = "alloc_frame" /\ pc = "outer"
  /\ IF frame >= MAX_FRAMES \div WORD
     THEN Return(None) /\ UNCHANGED <<pmm, frame>>
     ELSE IF Bits(frame) = {}
     THEN frame' = frame + 1 /\ UNCHANGED <<pmm, pc, result>>
     ELSE LET f == Lowest(Bits(frame))
          IN  /\ pmm' = set_used(pmm, f)
              /\ Return(address_of(f))
              /\ UNCHANGED frame
  /\ UNCHANGED <<op, count, span, best>>

Done == pc = "done" /\ UNCHANGED vars

Next == FindOuter \/ FindInner \/ LargestStep \/ AllocStep \/ Done

Spec == Init /\ [][Next]_vars
FairSpec == Spec /\ WF_vars(FindOuter \/ FindInner \/ LargestStep \/ AllocStep)

-----------------------------------------------------------------------------

TypeOK ==
  /\ PmmTypeOK
  /\ op \in Ops
  /\ count \in Nat
  /\ pc \in {"outer", "inner", "done"}
  /\ frame \in Nat /\ span \in Nat /\ best \in Nat
  /\ result \in Nat \cup {None}

(***************************************************************************)
(* find_run(count) returns the lowest frame at which `count' free frames   *)
(* in a row start, and nothing when there is no such frame: skipping       *)
(* span + 1 frames past a rejected run never jumps over a longer one.      *)
(***************************************************************************)
FindRunIsFirstFit ==
  op = "find_run" /\ pc = "done" => result = find_run(pmm, count)

(***************************************************************************)
(* What makes the scan of find_run right: no run of the wanted length      *)
(* starts before `frame', and the inner loop has seen `span' free frames.  *)
(***************************************************************************)
FindRunInv ==
  op = "find_run" =>
    /\ pc \in {"outer", "inner"} /\ count > 0 =>
         \A base \in Runs(pmm, count) : base >= frame
    /\ pc = "inner" =>
         /\ count > 0 /\ frame + count <= MAX_FRAMES
         /\ 1 <= span /\ span <= count
         /\ \A f \in frame .. (frame + span - 1) : free_bit(pmm, f)
    /\ FindRunIsFirstFit

(***************************************************************************)
(* What `mem' prints as the largest free run is what alloc_range can get:  *)
(* a run of that many frames is found, and one more frame is not           *)
(* (largest_run against find_run).                                         *)
(***************************************************************************)
LargestRunIsAllocatable ==
  op = "largest_run" /\ pc = "done" =>
    /\ result > 0 => find_run(pmm, result) # None
    /\ find_run(pmm, result + 1) = None

(***************************************************************************)
(* The word scan of alloc_frame returns the lowest free frame, marks it    *)
(* used, and comes back empty only when no frame at all is free.           *)
(***************************************************************************)
AllocFrameIsLowest ==
  op = "alloc_frame" /\ pc = "done" =>
    IF result = None
    THEN pmm.free = {}
    ELSE /\ frame_of(result) \notin pmm.free
         /\ \A f \in pmm.free : frame_of(result) < f

(***************************************************************************)
(* The scans return what they say (largest_run, alloc_frame), find_run     *)
(* keeps its loop invariant, and the state keeps its types.                *)
(***************************************************************************)
ScansAreRight ==
  TypeOK /\ FindRunInv /\ LargestRunIsAllocatable /\ AllocFrameIsLowest

(* Every scan of the bitmap ends. *)
ScanEnds == <>(pc = "done")

=============================================================================
