----------------------------- MODULE MCMachine ------------------------------
(***************************************************************************)
(* A small machine.  Words of a line: names of commands, their arguments   *)
(* and the characters of numbers; 155 is the largest u32.                  *)
(***************************************************************************)
EXTENDS Machine

MCWords == {SPACE, "halt", "reboot", "panic", "fatal", "oops", "fault", "ro", "stack"}
MCDigits == {SPACE, "0", "x", "9", "f"}

MCLines ==
  BoundedSeq(MCWords, 3)
    \cup {<<"fault", SPACE, SPACE, how>> : how \in {"demand", "kernel"}}
    \cup {<<"virt", SPACE>> \o text : text \in BoundedSeq(MCDigits, 4)}
=============================================================================
