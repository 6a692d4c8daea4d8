---------------------------- MODULE CommandLine -----------------------------
(***************************************************************************)
(* From a line to a call: dispatch of kernel/src/shell.rs, and the number  *)
(* conversions of kernel/src/klib.rs that its commands use.                *)
(*                                                                         *)
(* A line is a sequence of tokens: SPACE, digits and letters that numbers  *)
(* are made of, and words, each of which stands for a run of bytes with no *)
(* space in it.  An Option is a sequence of at most one element.           *)
(***************************************************************************)
EXTENDS Integers, Sequences, SequencesExt

CONSTANTS
  U32_MAX,   \* the largest u32
  DIGITS     \* the length of utoa's buffer (10)

ASSUME CommandLineAssumption ==
  /\ U32_MAX \in Nat /\ DIGITS \in Nat
  /\ U32_MAX < 10^DIGITS   \* the buffer holds every u32

SPACE == " "

CMDS == {"mem", "space", "pages", "virt", "alloc", "user", "fault", "panic",
         "stack", "gdt", "clear", "reboot", "halt", "help"}

(* str::trim. *)
trim(s) ==
  LET inner == {i \in DOMAIN s : s[i] # SPACE}
  IN  IF inner = {} THEN <<>>
      ELSE SubSeq(s, CHOOSE i \in inner : \A k \in inner : i <= k,
                     CHOOSE i \in inner : \A k \in inner : i >= k)

(* The bytes before the first space are the name, the rest the arguments.  *)
split(line) ==
  LET at == SelectInSeq(line, LAMBDA b : b = SPACE)
  IN  IF at = 0 THEN [name |-> line, args |-> <<>>]
      ELSE [name |-> SubSeq(line, 1, at - 1), args |-> trim(SubSeq(line, at + 1, Len(line)))]

(* dispatch: what is called, with which arguments. *)
dispatch(line) ==
  LET parts == split(trim(line))
  IN  IF parts.name = <<>> THEN [call |-> "nothing", args |-> <<>>]
      ELSE IF Len(parts.name) = 1 /\ parts.name[1] \in CMDS
      THEN [call |-> parts.name[1], args |-> parts.args]
      ELSE [call |-> "no such command", args |-> <<>>]

-----------------------------------------------------------------------------
(* kernel/src/klib.rs.                                                     *)

ValueOf == [c \in {"0", "1", "2", "3", "4", "5", "6", "7", "8", "9", "a", "f", "F"} |->
              CASE c = "a" -> 10 [] c \in {"f", "F"} -> 15
                [] OTHER -> CHOOSE n \in 0 .. 9 : ToString(n) = c]

(* One turn of the loop: checked_mul, then checked_add.  A slip: only the   *)
(* product is checked.                                                     *)
push_digit_late(value, digit, radix) ==
  IF value * radix > U32_MAX THEN <<>>
  ELSE <<(value * radix + digit) % (U32_MAX + 1)>>

push_digit(value, digit, radix) ==
  IF value * radix > U32_MAX \/ value * radix + digit > U32_MAX THEN <<>>
  ELSE <<value * radix + digit>>

parse_u32(text) ==
  LET bytes  == trim(text)
      hex    == Len(bytes) >= 2 /\ bytes[1] = "0" /\ bytes[2] \in {"x", "X"}
      digits == IF hex THEN SubSeq(bytes, 3, Len(bytes)) ELSE bytes
      radix  == IF hex THEN 16 ELSE 10
      turn(value, c) ==
        IF value = <<>> \/ c \notin DOMAIN ValueOf THEN <<>>
        ELSE IF ValueOf[c] >= radix THEN <<>>
        ELSE push_digit(value[1], ValueOf[c], radix)
  IN  IF digits = <<>> THEN <<>> ELSE FoldLeft(turn, <<0>>, digits)

(* The digits go into the buffer from its end; k of them are written. *)
utoa(n) ==
  LET written[k \in 1 .. DIGITS] ==
        IF k = 1 THEN [n |-> n \div 10, text |-> <<ToString(n % 10)>>]
        ELSE IF written[k - 1].n = 0 THEN written[k - 1]
        ELSE [n    |-> written[k - 1].n \div 10,
              text |-> <<ToString(written[k - 1].n % 10)>> \o written[k - 1].text]
  IN  written[DIGITS].text

-----------------------------------------------------------------------------
(* What a line and a number mean, said without the code's steps.           *)

(* The line is the name, spaces and the arguments, in between spaces. *)
IsCall(line, name, args) ==
  LET spaces(n) == [i \in 1 .. n |-> SPACE]
      rest == Len(line) - Len(name) - Len(args)
  IN  \E lead \in 0 .. rest : \E gap \in 0 .. (rest - lead) :
        /\ gap = 0 => args = <<>>
        /\ line = spaces(lead) \o name \o spaces(gap) \o args \o spaces(rest - lead - gap)

Denotes(digits, radix) ==
  LET n == Len(digits)
      sum[i \in 0 .. n] == IF i = 0 THEN 0 ELSE sum[i - 1] + ValueOf[digits[i]] * radix^(n - i)
  IN  sum[n]

(* The numerals that a text is: at most one. *)
NumbersOf(text) ==
  {d \in [digits : {SubSeq(text, i, Len(text)) : i \in DOMAIN text}, radix : {10, 16}] :
     /\ \A c \in Range(d.digits) : c \in DOMAIN ValueOf /\ ValueOf[c] < d.radix
     /\ IF d.radix = 10 THEN text = d.digits
        ELSE text \in {<<"0", x>> \o d.digits : x \in {"x", "X"}}}
=============================================================================
