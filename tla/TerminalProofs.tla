--------------------------- MODULE TerminalProofs ---------------------------
(***************************************************************************)
(* The console for every size of the screen, number of virtual screens,    *)
(* length of the line, prompt and text that a command prints.              *)
(*                                                                         *)
(* What print leaves on the screen is a fold over its text, about which    *)
(* nothing can be proved here, and nothing is needed: the theorems are     *)
(* about the screens that are not on display and about the keyboard.       *)
(***************************************************************************)
EXTENDS Terminal, TLAPS

(* The fields of a screen that is not on display. *)
IsScreen(s) == s = [cells |-> s.cells, cursor |-> s.cursor, attr |-> s.attr]

ScreenInv ==
  /\ DOMAIN saved = Screens /\ DOMAIN used = Screens
  /\ \A n \in Screens : IsScreen(saved[n])
  /\ active \in Screens

(* The actions without what they write on the screen on display. *)
LEMMA StepKinds ==
  ASSUME [Next]_vars
  PROVE  \/ UNCHANGED <<saved, used, active>>
         \/ \E n \in Nat : switch_screen(n)
<1>1. CASE Prompt
  BY <1>1 DEF Prompt
<1>2. ASSUME NEW code \in Codes, ReadKey(code)
      PROVE  UNCHANGED <<saved, used, active>> \/ \E n \in Nat : switch_screen(n)
  <2>1. CASE poll(code).kind = "screen" /\ switch_screen(poll(code).to)
    <3>1. code \in DOMAIN FKeys /\ poll(code).to = FKeys[code]
      BY <2>1 DEF poll, Char, NoKey, FKeys
    <3>2. FKeys[code] \in Nat
      BY <3>1 DEF FKeys
    <3> QED BY <2>1, <3>1, <3>2
  <2> QED BY <1>2, <2>1 DEF ReadKey
<1>3. CASE Dispatch
  BY <1>3 DEF Dispatch
<1>4. CASE UNCHANGED vars
  BY <1>4 DEF vars
<1> QED BY <1>1, <1>2, <1>3, <1>4 DEF Next

LEMMA ScreenStart == Init => ScreenInv
<1> SUFFICES ASSUME Init PROVE ScreenInv
  OBVIOUS
<1>1. IsScreen(ZERO)
  BY DEF IsScreen, ZERO
<1>2. active \in Screens
  BY TerminalAssumption DEF Init, Screens
<1> QED BY <1>1, <1>2 DEF Init, ScreenInv

(* A switch: the screen that goes is saved as it was shown, the one that   *)
(* comes is shown as it was saved, the others stay.                        *)
LEMMA SwitchKeepsScreens ==
  ASSUME ScreenInv, NEW n \in Nat, switch_screen(n), n \in Screens, n # active
  PROVE  ScreenInv' /\ \A k \in Screens : View(k)' = View(k)
<1> DEFINE next == IF used[n] THEN saved[n] ELSE Blank
<1>1. /\ saved' = [saved EXCEPT ![active] = Snapshot]
      /\ used' = [used EXCEPT ![active] = TRUE]
      /\ term' = sync_hw_cursor([cells |-> next.cells, cursor |-> next.cursor,
                                 attr |-> next.attr, hw |-> term.hw])
      /\ active' = n
  <2>1. ~(n >= NB_SCREENS \/ n = active)
    BY TerminalAssumption DEF Screens
  <2> QED BY <2>1 DEF switch_screen
<1>2. IsScreen(next)
  BY DEF ScreenInv, IsScreen, Blank
<1>3. IsScreen(Snapshot)
  BY DEF IsScreen, Snapshot
<1>4. ScreenInv'
  BY <1>1, <1>3 DEF ScreenInv, IsScreen
<1> HIDE DEF next
<1>5. term'.cells = next.cells /\ term'.cursor = next.cursor /\ term'.attr = next.attr
  BY <1>1 DEF sync_hw_cursor
<1>6. View(n)' = next
  <2>1. View(n)' = [cells |-> term'.cells, cursor |-> term'.cursor, attr |-> term'.attr]
    BY <1>1 DEF View
  <2> QED BY <1>2, <1>5, <2>1 DEF IsScreen
<1>7. View(n) = next
  BY DEF View, next
<1>8. ASSUME NEW k \in Screens, k = active
      PROVE  View(k)' = View(k)
  BY <1>1, <1>8 DEF ScreenInv, View, Snapshot
<1>9. ASSUME NEW k \in Screens, k # n, k # active
      PROVE  View(k)' = View(k)
  BY <1>1, <1>9 DEF ScreenInv, View
<1> QED BY <1>4, <1>6, <1>7, <1>8, <1>9

(* switch_screen returns early for a screen that is not there, or shown. *)
LEMMA NotSwitched ==
  ASSUME ScreenInv, NEW n \in Nat, switch_screen(n), ~(n \in Screens /\ n # active)
  PROVE  UNCHANGED <<term, saved, used, active>>
<1>1. n >= NB_SCREENS \/ n = active
  BY TerminalAssumption DEF Screens
<1> QED BY <1>1 DEF switch_screen

LEMMA ScreenStep == ScreenInv /\ [Next]_vars => ScreenInv'
<1> SUFFICES ASSUME ScreenInv, [Next]_vars PROVE ScreenInv'
  OBVIOUS
<1>1. CASE UNCHANGED <<saved, used, active>>
  BY <1>1 DEF ScreenInv, IsScreen
<1>2. ASSUME NEW n \in Nat, switch_screen(n) PROVE ScreenInv'
  <2>1. CASE n \in Screens /\ n # active
    BY <1>2, <2>1, SwitchKeepsScreens
  <2>2. CASE ~(n \in Screens /\ n # active)
    BY <1>1, <1>2, <2>2, NotSwitched
  <2> QED BY <2>1, <2>2
<1> QED BY <1>1, <1>2, StepKinds

(***************************************************************************)
(* The virtual screens are separate, however many there are and whatever   *)
(* is printed: no step changes a screen that is not on display, and a      *)
(* switch changes none (vga.rs switch_screen, over all of shell.rs).       *)
(***************************************************************************)
THEOREM ScreensNeverMix == Spec => ScreensAreSeparate
<1> DEFINE Separate == \A n \in Screens : View(n)' # View(n) => n = active /\ active' = active
<1>1. ASSUME ScreenInv, [Next]_vars PROVE [Separate]_vars
  <2>1. CASE UNCHANGED <<saved, used, active>>
    BY <2>1 DEF View
  <2>2. ASSUME NEW n \in Nat, switch_screen(n) PROVE Separate
    <3>1. CASE n \in Screens /\ n # active
      BY <1>1, <2>2, <3>1, SwitchKeepsScreens
    <3>2. CASE ~(n \in Screens /\ n # active)
      BY <1>1, <2>2, <3>2, NotSwitched DEF View
    <3> QED BY <3>1, <3>2
  <2> QED BY <1>1, <2>1, <2>2, StepKinds
<1> QED BY <1>1, ScreenStart, ScreenStep, PTL DEF Spec, ScreensAreSeparate

(***************************************************************************)
(* With no shift key down the flag is clear, over all sequences of scan    *)
(* codes (keyboard.rs poll).                                               *)
(***************************************************************************)
THEOREM ShiftNeverSticks == Spec => []ShiftIsReleased
<1>1. Init => ShiftIsReleased
  BY DEF Init, ShiftIsReleased
<1>2. ShiftIsReleased /\ [Next]_vars => ShiftIsReleased'
  <2> SUFFICES ASSUME ShiftIsReleased, [Next]_vars PROVE ShiftIsReleased'
    OBVIOUS
  <2>1. CASE UNCHANGED <<shift, down>>
    BY <2>1 DEF ShiftIsReleased
  <2>2. ASSUME NEW code \in Codes, ReadKey(code) PROVE ShiftIsReleased'
    <3>1. shift' = shift_after(code) /\ down' = down_after(code)
      BY <2>2 DEF ReadKey
    <3>2. CASE code \in ShiftKeys
      <4>1. \A key \in ShiftKeys : code # ShiftUp[key]
        BY <3>2 DEF ShiftKeys, ShiftUp
      <4> QED BY <3>1, <3>2, <4>1 DEF ShiftIsReleased, down_after
    <3>3. CASE code \notin ShiftKeys
      <4>1. ASSUME shift' PROVE shift /\ \A key \in ShiftKeys : code # ShiftUp[key]
        BY <3>1, <3>3, <4>1 DEF shift_after, ShiftUp, Range
      <4> QED BY <3>1, <3>3, <4>1 DEF ShiftIsReleased, down_after
    <3> QED BY <3>2, <3>3
  <2>3. Prompt \/ Dispatch \/ UNCHANGED vars => UNCHANGED <<shift, down>>
    BY DEF Prompt, Dispatch, vars
  <2> QED BY <2>1, <2>2, <2>3 DEF Next
<1> QED BY <1>1, <1>2, PTL DEF Spec
=============================================================================
