----------------------------- MODULE MCTerminal -----------------------------
(***************************************************************************)
(* A screen of two rows and a prompt of one byte.                          *)
(***************************************************************************)
EXTENDS Terminal

MCPrompt == <<">">>

(* One screen: all keys, lines of up to four bytes, commands that print a *)
(* short line and a line longer than a row.                                *)
OneCodes == Scancodes
OneOutputs == {<<"o", NEWLINE>>, <<"o", "p", "q", "r", "s", "t", "u", NEWLINE>>}

(* Two screens: lines of one byte, a command that prints a line. *)
TwoCodes == {"letter", "enter", "backspace", "other", "F1", "F2", "F3"}
TwoOutputs == {<<"o", NEWLINE>>}
=============================================================================
