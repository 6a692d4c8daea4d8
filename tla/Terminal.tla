------------------------------ MODULE Terminal ------------------------------
(***************************************************************************)
(* The console: the text screen of kernel/src/vga.rs with its virtual      *)
(* screens and the hardware cursor, the polled keyboard of                 *)
(* kernel/src/keyboard.rs, and the prompt and line editor of               *)
(* kernel/src/shell.rs.                                                    *)
(*                                                                         *)
(* `term' is what is on display: the cells of the text buffer, the cursor, *)
(* the colour for new cells and the position the CRTC was told.  A virtual *)
(* screen that is not on display is in `saved' once it was `used'.  A cell *)
(* is a character and its colour.  What a command prints is one of a few   *)
(* texts; bytes are members of a small set.                                *)
(***************************************************************************)
EXTENDS Integers, Sequences, SequencesExt, TLC

CONSTANTS
  WIDTH, HEIGHT,   \* of the screen (80 by 25)
  NB_SCREENS,      \* virtual screens (3)
  LINE_MAX,        \* bytes that the line editor holds (74)
  PROMPT,          \* the prompt, a sequence of bytes
  Outputs,         \* what the commands print
  Reports,         \* what they report as an oops
  Codes            \* the scan codes that arrive

ASSUME TerminalAssumption ==
  /\ {WIDTH, HEIGHT, NB_SCREENS, LINE_MAX} \subseteq Nat \ {0}
  /\ HEIGHT > 1
  /\ Len(PROMPT) + LINE_MAX < WIDTH   \* a full line fits one row

VARIABLES
  term,      \* [cells, cursor, attr, hw]
  saved,     \* the virtual screens that are not on display
  used,      \* which of them were left before
  active,    \* the virtual screen on display
  shift,     \* keyboard.rs: SHIFT
  line,      \* the bytes read_line has collected
  pc,        \* what the shell is doing
  down,      \* the shift keys that are held down (history)
  prompted,  \* the screen that has the prompt (history)
  strayed    \* the line has seen another screen (history)

history == <<prompted, strayed>>
vars == <<term, saved, used, active, shift, down, line, pc, history>>

CELLS == WIDTH * HEIGHT
Cells == 0 .. (CELLS - 1)
Screens == 0 .. (NB_SCREENS - 1)
NEWLINE == "\n"
BLANK == " "
DEFAULT_ATTR == "white"

Cell(b, attr) == [ch |-> b, attr |-> attr]
Cleared(attr) == [i \in Cells |-> Cell(BLANK, attr)]

-----------------------------------------------------------------------------
(* kernel/src/vga.rs.                                                      *)

sync_hw_cursor(t) == [t EXCEPT !.hw = t.cursor]
set_color(t, attr) == [t EXCEPT !.attr = attr]

scroll(t) ==
  [t EXCEPT !.cells = [i \in Cells |-> IF i < CELLS - WIDTH THEN t.cells[i + WIDTH]
                                       ELSE Cell(BLANK, t.attr)]]

(* The cursor is past the last cell. *)
TooFar(cursor) == cursor >= CELLS

putb(t, b) ==
  LET moved == IF b = NEWLINE
               THEN [t EXCEPT !.cursor = @ - (@ % WIDTH) + WIDTH]
               ELSE [t EXCEPT !.cells[t.cursor] = Cell(b, t.attr), !.cursor = @ + 1]
  IN  IF TooFar(moved.cursor)
      THEN [scroll(moved) EXCEPT !.cursor = CELLS - WIDTH]
      ELSE moved

print(t, s) == sync_hw_cursor(FoldLeft(putb, t, s))

put_char_unsynced(t, b) == putb(t, b)   \* a slip
put_char(t, b) == sync_hw_cursor(putb(t, b))

(* A slip: the cursor stays. *)
backspace_in_place(t) ==
  IF t.cursor > 0
  THEN sync_hw_cursor([t EXCEPT !.cells[t.cursor - 1] = Cell(BLANK, t.attr)])
  ELSE t

backspace(t) ==
  IF t.cursor > 0
  THEN sync_hw_cursor([t EXCEPT !.cells[t.cursor - 1] = Cell(BLANK, t.attr), !.cursor = @ - 1])
  ELSE t

clear(t) == sync_hw_cursor([t EXCEPT !.cells = Cleared(t.attr), !.cursor = 0])

(* A virtual screen before its first use, and what its first use shows. *)
ZERO == [cells |-> [i \in Cells |-> Cell("nul", "black")], cursor |-> 0, attr |-> "black"]
Blank == [cells |-> Cleared(DEFAULT_ATTR), cursor |-> 0, attr |-> DEFAULT_ATTR]

(* What is saved of the screen on display; a slip: not its cursor. *)
SnapshotAtHome == [cells |-> term.cells, cursor |-> 0, attr |-> term.attr]
Snapshot == [cells |-> term.cells, cursor |-> term.cursor, attr |-> term.attr]

(* Save the screen on display, show the other one or a blank one. *)
switch_screen(n) ==
  IF n >= NB_SCREENS \/ n = active
  THEN UNCHANGED <<term, saved, used, active>>
  ELSE LET next == IF used[n] THEN saved[n] ELSE Blank
       IN  /\ saved' = [saved EXCEPT ![active] = Snapshot]
           /\ used' = [used EXCEPT ![active] = TRUE]
           /\ term' = sync_hw_cursor([cells |-> next.cells, cursor |-> next.cursor,
                                      attr |-> next.attr, hw |-> term.hw])
           /\ active' = n

-----------------------------------------------------------------------------
(* kernel/src/keyboard.rs: a scan code and the key that poll makes of it.  *)

FKeys == [F1 |-> 0, F2 |-> 1, F3 |-> 2]
ShiftKeys == {"left shift", "right shift"}
ShiftUp == [key \in ShiftKeys |->
              IF key = "left shift" THEN "left shift up" ELSE "right shift up"]
Scancodes == {"letter", "enter", "backspace", "other"} \cup DOMAIN FKeys
               \cup ShiftKeys \cup Range(ShiftUp)

Lower == "a"
Upper == "A"
NoKey == [kind |-> "none"]
Char(b) == [kind |-> "char", byte |-> b]

poll(code) ==
  CASE code = "letter" -> Char(IF shift THEN Upper ELSE Lower)
    [] code = "enter" -> Char(NEWLINE)
    [] code = "backspace" -> [kind |-> "backspace"]
    [] code \in DOMAIN FKeys -> [kind |-> "screen", to |-> FKeys[code]]
    [] OTHER -> NoKey

(* SHIFT after a scan code; a slip: only one key's release counts. *)
shift_after_left(code) ==
  (shift /\ code # "left shift up") \/ code \in ShiftKeys
shift_after(code) ==
  (shift /\ code \notin Range(ShiftUp)) \/ code \in ShiftKeys

(* The keyboard (external): a key that goes up was down. *)
Possible(code) == \A key \in ShiftKeys : code = ShiftUp[key] => key \in down
down_after(code) ==
  (down \cup ({code} \cap ShiftKeys)) \ {key \in ShiftKeys : code = ShiftUp[key]}

-----------------------------------------------------------------------------
(* kernel/src/shell.rs.                                                    *)

(* It stands for all the lines printed before the first prompt. *)
Banner == <<"4", "2", NEWLINE>>

Init ==
  /\ term = print(clear([ZERO EXCEPT !.attr = DEFAULT_ATTR] @@ [hw |-> 0]), Banner)
  /\ saved = [n \in Screens |-> ZERO]
  /\ used = [n \in Screens |-> FALSE]
  /\ active = 0
  /\ shift = FALSE /\ down = {}
  /\ line = <<>>
  /\ pc = "prompt"
  /\ prompted = 0 /\ strayed = FALSE

(* The head of the loop in run: the prompt in its colour, then white. *)
Prompt ==
  /\ pc = "prompt"
  /\ term' = set_color(print(set_color(term, "bright cyan"), PROMPT), "white")
  /\ line' = <<>>
  /\ prompted' = active /\ strayed' = FALSE
  /\ pc' = "read"
  /\ UNCHANGED <<saved, used, active, shift, down>>

(* One turn of the loop in read_line with a byte at the keyboard. *)
ReadKey(code) ==
  LET key == poll(code)
  IN  /\ pc = "read"
      /\ Possible(code)
      /\ shift' = shift_after(code) /\ down' = down_after(code)
      /\ \/ /\ key.kind = "char" /\ key.byte = NEWLINE
            /\ term' = put_char(term, NEWLINE)
            /\ pc' = "dispatch"
            /\ UNCHANGED <<saved, used, active, line, history>>
         \/ /\ key.kind = "char" /\ key.byte # NEWLINE /\ Len(line) < LINE_MAX
            /\ line' = Append(line, key.byte)
            /\ term' = put_char(term, key.byte)
            /\ UNCHANGED <<saved, used, active, pc, history>>
         \/ /\ key.kind = "backspace" /\ Len(line) > 0
            /\ line' = Front(line)
            /\ term' = backspace(term)
            /\ UNCHANGED <<saved, used, active, pc, history>>
         \/ /\ key.kind = "screen"
            /\ switch_screen(key.to)
            /\ strayed' = (strayed \/ active' # active)
            /\ UNCHANGED <<line, pc, prompted>>
         \/ /\ \/ key.kind = "char" /\ key.byte # NEWLINE /\ Len(line) = LINE_MAX
               \/ key.kind = "backspace" /\ Len(line) = 0
               \/ key.kind = "none"
            /\ UNCHANGED <<term, saved, used, active, line, pc, history>>

(* panic::oops: the report in yellow, then white again. *)
oops(t, s) == set_color(print(set_color(t, "yellow"), s), "white")

(* dispatch, as the screen sees it: nothing for an empty line, else what   *)
(* some command prints or reports, or the command `clear'.                 *)
Dispatch ==
  /\ pc = "dispatch"
  /\ \/ line = <<>> /\ UNCHANGED term
     \/ line # <<>> /\ \E out \in Outputs : term' = print(term, out)
     \/ line # <<>> /\ \E out \in Reports : term' = oops(term, out)
     \/ line # <<>> /\ term' = clear(term)
  /\ pc' = "prompt"
  /\ UNCHANGED <<saved, used, active, shift, down, line, history>>

Next ==
  \/ Prompt
  \/ \E code \in Codes : ReadKey(code)
  \/ Dispatch

Spec == Init /\ [][Next]_vars

-----------------------------------------------------------------------------
(* Properties.                                                             *)

(* The cursor is on the screen: put_cell asserts it before every write. *)
TypeOK ==
  /\ term.cursor \in Cells /\ term.hw \in Cells
  /\ DOMAIN term.cells = Cells
  /\ \A n \in Screens : DOMAIN saved[n].cells = Cells /\ saved[n].cursor \in Cells
  /\ used \in [Screens -> BOOLEAN]
  /\ active \in Screens /\ prompted \in Screens
  /\ shift \in BOOLEAN /\ down \subseteq ShiftKeys /\ strayed \in BOOLEAN
  /\ Len(line) <= LINE_MAX
  /\ pc \in {"prompt", "read", "dispatch"}

(***************************************************************************)
(* The blinking cursor is where the next character goes whenever the shell *)
(* waits or works: after print, put_char, backspace, clear and a switch.   *)
(***************************************************************************)
HardwareCursorFollows == term.hw = term.cursor

(* What a virtual screen holds, on display or not. *)
View(n) ==
  IF n = active THEN [cells |-> term.cells, cursor |-> term.cursor, attr |-> term.attr]
  ELSE IF used[n] THEN saved[n] ELSE Blank

(***************************************************************************)
(* The virtual screens are separate: a switch changes none of them, and    *)
(* everything else changes at most the one on display.                     *)
(***************************************************************************)
ScreensAreSeparate ==
  [][\A n \in Screens : View(n)' # View(n) => n = active /\ active' = active]_vars

(* The prompt and the line stand right before the cursor, each in its colour. *)
Shown ==
  LET colour(i) == IF i <= Len(PROMPT) THEN "bright cyan" ELSE "white"
      text == PROMPT \o line
      from == term.cursor - Len(text)
  IN  /\ from >= 0
      /\ \A i \in 1 .. Len(text) : term.cells[from + i - 1] = Cell(text[i], colour(i))

(***************************************************************************)
(* What the user sees is what dispatch will get: while the line is edited  *)
(* on one screen, the prompt and exactly the bytes of the buffer stand     *)
(* before the cursor, over scrolls, a full buffer, backspaces and reports  *)
(* in other colours.  The cursor never leaves the screen (TypeOK).         *)
(***************************************************************************)
LineIsShown == TypeOK /\ (pc = "read" /\ ~strayed => Shown)

(***************************************************************************)
(* Letters do not stay capital: with no shift key down the flag is clear,  *)
(* although one flag stands for two keys that go down and up in any order  *)
(* and repeat while they are held (keyboard.rs poll).                      *)
(***************************************************************************)
ShiftIsReleased == shift => down # {}

(***************************************************************************)
(* "The buffer and the screen must always agree." (docs/SHELL.md:138):     *)
(* also when the user was on another screen in the middle of the line and  *)
(* is back on the one with the prompt.                                     *)
(***************************************************************************)
BufferAndScreenAgree == pc = "read" /\ active = prompted => Shown
=============================================================================
