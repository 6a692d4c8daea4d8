------------------------------ MODULE Segments ------------------------------
(***************************************************************************)
(* Descriptors: the segment table of kernel/src/gdt.rs, the gates of       *)
(* kernel/src/idt.rs, how the processor reads both (external), and how the *)
(* command `gdt' of kernel/src/shell.rs does.                              *)
(*                                                                         *)
(* A word of memory is the set of its bits that are 1, so a 64-bit         *)
(* descriptor is a subset of 0 .. 63 and a 32-bit address one of 0 .. 31.  *)
(***************************************************************************)
EXTENDS Integers, Sequences

BitsOf(n) == {i \in 0 .. 15 : (n \div 2^i) % 2 = 1}
Shift(bits, by) == {b + by : b \in bits}
Field(bits, first, last) == {b - first : b \in bits \cap (first .. last)}
Number(bits) == LET bit(i) == IF i \in bits THEN 2^i ELSE 0
                    sum[i \in 0 .. 16] == IF i = 0 THEN 0 ELSE sum[i - 1] + bit(i - 1)
                IN  sum[16]

U32_BITS == 0 .. 31
wrapping_add(a, b) ==
  LET two(x, y, z) == (x /\ y) \/ (x /\ z) \/ (y /\ z)
      carry[i \in 0 .. 32] ==
        i > 0 /\ two(i - 1 \in a, i - 1 \in b, carry[i - 1])
  IN  {i \in U32_BITS : (i \in a) # ((i \in b) # carry[i])}

-----------------------------------------------------------------------------
(* kernel/src/gdt.rs.                                                      *)

KERNEL_CODE == 8
KERNEL_DATA == 16
KERNEL_STACK == 24

KERNEL_EXEC == 154   \* 0x9a
KERNEL_RW == 146     \* 0x92
USER_EXEC == 250     \* 0xfa
USER_RW == 242       \* 0xf2

flat(access) == BitsOf(65535) \cup Shift(BitsOf(access), 40) \cup Shift(BitsOf(207), 48)

Segment(selector, descriptor) == [selector |-> selector, descriptor |-> descriptor]

SEGMENTS ==
  << Segment(0, {}),
     Segment(KERNEL_CODE, flat(KERNEL_EXEC)),
     Segment(KERNEL_DATA, flat(KERNEL_RW)),
     Segment(KERNEL_STACK, flat(KERNEL_RW)),
     Segment(32 + 3, flat(USER_EXEC)),
     Segment(40 + 3, flat(USER_RW)),
     Segment(48 + 3, flat(USER_RW)) >>

BASE == 2048         \* 0x800
GDT_LIMIT == Len(SEGMENTS) * 8 - 1

-----------------------------------------------------------------------------
(* kernel/src/idt.rs.                                                      *)

INTERRUPT_GATE == 142   \* 0x8e

(* A slip: the selector of the data segment. *)
gate_data(handler) ==
  Field(handler, 0, 15) \cup Shift(BitsOf(KERNEL_DATA), 16)
    \cup Shift(BitsOf(INTERRUPT_GATE), 40) \cup Shift(Field(handler, 16, 31), 48)

gate(handler) ==
  Field(handler, 0, 15) \cup Shift(BitsOf(KERNEL_CODE), 16)
    \cup Shift(BitsOf(INTERRUPT_GATE), 40) \cup Shift(Field(handler, 16, 31), 48)

-----------------------------------------------------------------------------
(* The processor (external).                                               *)

IsCode(d) == {43, 44, 47} \subseteq d
IsWritable(d) == {41, 44, 47} \subseteq d /\ 43 \notin d
Ring(d) == Number(Field(d, 45, 46))

GateOffset(g) == Field(g, 0, 15) \cup Shift(Field(g, 48, 63), 16)
GateSelector(g) == Number(Field(g, 16, 31))
IsInterruptGate(g) == 47 \in g /\ Field(g, 40, 44) = BitsOf(14)

-----------------------------------------------------------------------------
(* kernel/src/shell.rs: the decoder behind the command `gdt'.  An Option   *)
(* is a sequence of at most one element.                                   *)

seg_limit(d) ==
  LET raw == Field(d, 0, 15) \cup Shift(Field(d, 48, 51), 16)
  IN  IF 55 \in d THEN Shift(raw, 12) \cup (0 .. 11) ELSE raw

seg_range(d) ==
  LET base  == Field(d, 16, 39) \cup Shift(Field(d, 56, 63), 24)
      limit == seg_limit(d)
  IN  IF d = {} THEN <<>>
      ELSE IF 43 \notin d /\ 42 \in d
      THEN IF limit = U32_BITS THEN <<>>
           ELSE <<[lo |-> wrapping_add(base, wrapping_add(limit, {0})), hi |-> U32_BITS]>>
      ELSE <<[lo |-> base, hi |-> wrapping_add(base, limit)]>>

seg_type(d) ==
  LET rw == 41 \in d
      dc == 42 \in d
  IN  IF 43 \in d
      THEN IF ~rw THEN "code x" ELSE IF dc THEN "code rx c" ELSE "code rx"
      ELSE IF ~rw THEN "data r" ELSE IF dc THEN "data rw dn" ELSE "data rw"

(* The rows that name a register which holds `held'. *)
RowsOf(held) == {i \in DOMAIN SEGMENTS : SEGMENTS[i].selector \div 4 = held \div 4}
=============================================================================
