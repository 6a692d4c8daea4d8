----------------------------- MODULE StackDump ------------------------------
(***************************************************************************)
(* The hex dump of kernel/src/stack.rs, as the places it reads.  The unit  *)
(* is a 32-bit word: every address and size in the file is a multiple of   *)
(* one.  What a row shows of a word is left out.                           *)
(***************************************************************************)
EXTENDS Integers, Sequences

CONSTANTS
  TOP,       \* stack_top
  WINDOW,    \* words that one snapshot holds (64)
  PER_ROW    \* words in a row (4)

ASSUME StackAssumption == TOP \in Nat /\ {WINDOW, PER_ROW} \subseteq Nat \ {0}

Least(a, b) == IF a < b THEN a ELSE b
saturating_sub(a, b) == IF a < b THEN 0 ELSE a - b

(* How many words a snapshot from `from' gets. *)
snapshot(from, room) == Least(saturating_sub(TOP, from), room)

(* A slip: a row that is not full is left out. *)
render_full(base, n) ==
  [row \in 1 .. (n \div PER_ROW) |-> [at |-> base + (row - 1) * PER_ROW, words |-> PER_ROW]]

render(base, n) ==
  [row \in 1 .. ((n + PER_ROW - 1) \div PER_ROW) |->
     [at    |-> base + (row - 1) * PER_ROW,
      words |-> Least(PER_ROW, n - (row - 1) * PER_ROW)]]

(* print: the rows it shows, snapshot after snapshot. *)
stack_print(esp, words) ==
  LET all == Least(words, saturating_sub(TOP, esp))
      rows[left \in 0 .. all] ==
        LET at  == esp + (all - left)
            got == snapshot(at, Least(left, WINDOW))
        IN  IF left = 0 \/ got = 0 THEN <<>> ELSE render(at, got) \o rows[left - got]
  IN  rows[all]
=============================================================================
