--------------------------- MODULE PmmScanProofs ---------------------------
(***************************************************************************)
(* For every number of frames, every bitmap and every count, the loops of  *)
(* pmm::find_run return the lowest run of the wanted length.               *)
(***************************************************************************)
EXTENDS PmmScan, TLAPS

(* The part of the typing that the argument about find_run needs. *)
FindTypeOK ==
  /\ op \in Ops
  /\ count \in Nat
  /\ frame \in Nat
  /\ span \in Nat
  /\ pc \in {"outer", "inner", "done"}

LEMMA FindTyping == Spec => []FindTypeOK
<1>1. Init => FindTypeOK
  BY MaxFramesAssumption DEF Init, FindTypeOK, Ops
<1>2. FindTypeOK /\ [Next]_vars => FindTypeOK'
  <2> SUFFICES ASSUME FindTypeOK, [Next]_vars PROVE FindTypeOK'
    OBVIOUS
  <2> USE DEF FindTypeOK
  <2>1. CASE FindOuter
    BY <2>1 DEF FindOuter, Fits, Return
  <2>2. CASE FindInner
    BY <2>2 DEF FindInner, PastRun, Return
  <2>3. CASE LargestStep
    BY <2>3 DEF LargestStep, RunHere, Return
  <2>4. CASE AllocStep
    BY <2>4 DEF AllocStep, Return
  <2>5. CASE Done \/ UNCHANGED vars
    BY <2>5 DEF Done, vars
  <2> QED BY <2>1, <2>2, <2>3, <2>4, <2>5 DEF Next
<1> QED BY <1>1, <1>2, PTL DEF Spec

(* The bitmap a scan reads is not changed by find_run. *)
LEMMA RunsDoNotMove ==
  ASSUME pmm' = pmm, count' = count
  PROVE  Runs(pmm, count)' = Runs(pmm, count)
BY DEF Runs, free_bit

(* A run at which no other run starts earlier is the one find_run names. *)
LEMMA LowestRun ==
  ASSUME NEW p, NEW n \in Nat \ {0}, NEW base \in Runs(p, n),
         \A other \in Runs(p, n) : base <= other
  PROVE  find_run(p, n) = base
<1>1. Runs(p, n) \subseteq Int
  BY MaxFramesAssumption DEF Runs
<1>2. \A x \in Runs(p, n) : (\A y \in Runs(p, n) : x <= y) => x = base
  BY <1>1
<1>3. Lowest(Runs(p, n)) = base
  BY <1>2 DEF Lowest
<1> QED BY <1>3 DEF find_run

(* A run that starts past a used frame cannot contain it. *)
LEMMA RunAvoidsUsed ==
  ASSUME NEW p, NEW n \in Nat \ {0}, NEW f \in Nat, NEW base \in Runs(p, n),
         base <= f, ~free_bit(p, f)
  PROVE  base + n <= f
<1>1. base \in Int
  BY MaxFramesAssumption DEF Runs
<1>2. \A g \in base .. (base + n - 1) : free_bit(p, g)
  BY DEF Runs
<1> QED BY <1>1, <1>2

(***************************************************************************)
(* The invariant of the two loops of find_run, and with it the result:     *)
(* skipping span + 1 frames past a rejected run jumps over no longer one.  *)
(***************************************************************************)
THEOREM FindRunCorrect == Spec => []FindRunInv
<1>1. Init => FindRunInv
  BY MaxFramesAssumption DEF Init, FindRunInv, FindRunIsFirstFit, Runs
<1>2. FindTypeOK /\ FindRunInv /\ [Next]_vars => FindRunInv'
  <2> SUFFICES ASSUME FindTypeOK, FindRunInv, [Next]_vars PROVE FindRunInv'
    OBVIOUS
  <2> USE MaxFramesAssumption DEF FindTypeOK, FindRunIsFirstFit
  <2>1. CASE FindOuter
    <3>1. UNCHANGED <<pmm, op, count>> /\ op = "find_run" /\ pc = "outer"
      BY <2>1 DEF FindOuter, Fits
    <3>2. Runs(pmm, count)' = Runs(pmm, count)
      BY <3>1, RunsDoNotMove
    <3>3. CASE count = 0 \/ frame + count > MAX_FRAMES
      <4>1. pc' = "done" /\ result' = None
        BY <2>1, <3>3 DEF FindOuter, Fits, Return
      <4>2. count > 0 => Runs(pmm, count) = {}
        <5> SUFFICES ASSUME count > 0, NEW base \in Runs(pmm, count) PROVE FALSE
          OBVIOUS
        <5>1. base >= frame
          BY <3>1 DEF FindRunInv
        <5>2. base \in 0 .. (MAX_FRAMES - count)
          BY DEF Runs
        <5> QED BY <3>3, <5>1, <5>2
      <4>3. find_run(pmm, count)' = None
        BY <3>1, <3>2, <4>2 DEF find_run
      <4> QED BY <4>1, <4>3 DEF FindRunInv
    <3>4. CASE ~(count = 0 \/ frame + count > MAX_FRAMES) /\ ~free_bit(pmm, frame)
      <4>1. frame' = frame + 1 /\ pc' = pc
        BY <2>1, <3>4 DEF FindOuter, Fits
      <4>2. \A base \in Runs(pmm, count) : base >= frame + 1
        <5> TAKE base \in Runs(pmm, count)
        <5>1. base >= frame /\ base \in Int
          BY <3>1, <3>4 DEF FindRunInv, Runs
        <5>2. base # frame
          BY <3>4, <5>1, RunAvoidsUsed
        <5> QED BY <5>1, <5>2
      <4> QED BY <3>1, <3>2, <4>1, <4>2 DEF FindRunInv
    <3>5. CASE ~(count = 0 \/ frame + count > MAX_FRAMES) /\ free_bit(pmm, frame)
      <4>1. frame' = frame /\ span' = 1 /\ pc' = "inner"
        BY <2>1, <3>5 DEF FindOuter, Fits
      <4>2. \A f \in frame' .. (frame' + span' - 1) : free_bit(pmm, f)'
        BY <3>1, <3>5, <4>1 DEF free_bit
      <4> QED BY <3>1, <3>2, <3>5, <4>1, <4>2 DEF FindRunInv
    <3> QED BY <3>3, <3>4, <3>5
  <2>2. CASE FindInner
    <3>1. UNCHANGED <<pmm, op, count>> /\ op = "find_run" /\ pc = "inner"
      BY <2>2 DEF FindInner, PastRun
    <3>2. Runs(pmm, count)' = Runs(pmm, count)
      BY <3>1, RunsDoNotMove
    <3>3. /\ count > 0 /\ frame + count <= MAX_FRAMES /\ 1 <= span /\ span <= count
          /\ \A f \in frame .. (frame + span - 1) : free_bit(pmm, f)
          /\ \A base \in Runs(pmm, count) : base >= frame
      BY <3>1 DEF FindRunInv
    <3>4. CASE span < count /\ free_bit(pmm, frame + span)
      <4>1. frame' = frame /\ span' = span + 1 /\ pc' = pc
        BY <2>2, <3>4 DEF FindInner, PastRun
      <4>2. \A f \in frame' .. (frame' + span' - 1) : free_bit(pmm, f)'
        BY <3>1, <3>3, <3>4, <4>1 DEF free_bit
      <4> QED BY <3>1, <3>2, <3>3, <3>4, <4>1, <4>2 DEF FindRunInv
    <3>5. CASE span = count
      <4>1. result' = frame /\ pc' = "done"
        BY <2>2, <3>5 DEF FindInner, PastRun, Return
      <4>2. frame \in Runs(pmm, count)
        BY <3>3, <3>5 DEF Runs
      <4>3. find_run(pmm, count) = frame
        <5>1. \A other \in Runs(pmm, count) : frame <= other
          BY <3>3 DEF Runs
        <5> QED BY <3>3, <4>2, <5>1, LowestRun
      <4>4. find_run(pmm, count)' = find_run(pmm, count)
        BY <3>1, <3>2 DEF find_run
      <4> QED BY <3>1, <4>1, <4>3, <4>4 DEF FindRunInv
    <3>6. CASE span < count /\ ~free_bit(pmm, frame + span)
      <4>1. frame' = frame + span + 1 /\ pc' = "outer"
        BY <2>2, <3>6 DEF FindInner, PastRun
      <4>2. \A base \in Runs(pmm, count) : base >= frame + span + 1
        <5> TAKE base \in Runs(pmm, count)
        <5>0. base \in Int
          BY DEF Runs
        <5>1. base >= frame /\ base \in Int
          BY <3>3, <5>0
        <5>2. base <= frame + span => base + count <= frame + span
          BY <3>3, <3>6, RunAvoidsUsed
        <5> QED BY <3>3, <3>6, <5>1, <5>2
      <4> QED BY <3>1, <3>2, <4>1, <4>2 DEF FindRunInv
    <3> QED BY <3>3, <3>4, <3>5, <3>6
  <2>3. CASE LargestStep
    BY <2>3 DEF LargestStep, FindRunInv
  <2>4. CASE AllocStep
    BY <2>4 DEF AllocStep, FindRunInv
  <2>5. CASE Done \/ UNCHANGED vars
    <3>1. UNCHANGED vars
      BY <2>5 DEF Done
    <3>2. Runs(pmm, count)' = Runs(pmm, count)
      BY <3>1, RunsDoNotMove DEF vars
    <3>3. find_run(pmm, count)' = find_run(pmm, count)
      BY <3>1, <3>2 DEF find_run, vars
    <3> QED BY <3>1, <3>2, <3>3 DEF vars, FindRunInv, free_bit
  <2> QED BY <2>1, <2>2, <2>3, <2>4, <2>5 DEF Next
<1> QED BY <1>1, <1>2, FindTyping, PTL DEF Spec


(***************************************************************************)
(* find_run returns the first fit: the lowest frame at which `count' free  *)
(* frames in a row start, or nothing when there is none, for every bitmap  *)
(* and every count.                                                        *)
(***************************************************************************)
THEOREM FindRunReturnsFirstFit == Spec => []FindRunIsFirstFit
<1>1. FindRunInv => FindRunIsFirstFit
  BY DEF FindRunInv, FindRunIsFirstFit
<1> QED BY <1>1, FindRunCorrect, PTL
=============================================================================
