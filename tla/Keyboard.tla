------------------------------ MODULE Keyboard ------------------------------
(***************************************************************************)
(* drivers/keyboard.c against a user: getch takes scan codes from the      *)
(* controller until one is a key going down that is no shift key.          *)
(*                                                                         *)
(* A code is [key, up]; the two tables of keydefs.h are pairs of a key and *)
(* whether it is shifted.  The user and the controller, which holds        *)
(* KeyBuffer codes and drops the rest, are external.                       *)
(***************************************************************************)
EXTENDS Naturals, Sequences, SequencesExt

CONSTANTS
  Keys,        \* the keys that are no shift keys
  KeyBuffer,   \* codes the controller holds
  MaxStrokes   \* bound on the keys pressed and released

Shifts == {"KRLEFT_SHIFT", "KRRIGHT_SHIFT"}

ASSUME KeyboardAssumption == Keys \cap Shifts = {} /\ KeyBuffer \in Nat /\ MaxStrokes \in Nat

VARIABLES
  codes,      \* in the controller
  down,       \* the keys the user holds
  strokes,    \* how often a key was pressed or released
  shift,      \* the driver's variable
  reading,    \* getch has been called
  typed,      \* ghost: the characters as the user means them
  got,        \* the characters getch has returned
  lost, both  \* ghosts: a code was dropped; both shift keys were held at once

keyVars == <<codes, down, strokes, shift, reading, typed, got, lost, both>>

Send(code) ==
  /\ codes' = IF Len(codes) < KeyBuffer THEN Append(codes, code) ELSE codes
  /\ lost' = (lost \/ Len(codes) >= KeyBuffer)
  /\ strokes < MaxStrokes /\ strokes' = strokes + 1

Press(k) ==
  /\ k \in Shifts => k \notin down
  /\ down' = down \union {k}
  /\ both' = (both \/ Shifts \subseteq down')
  /\ typed' = IF k \in Shifts THEN typed ELSE Append(typed, <<k, down \cap Shifts # {}>>)
  /\ Send([key |-> k, up |-> FALSE])
  /\ UNCHANGED <<shift, reading, got>>

Release(k) ==
  /\ k \in down
  /\ down' = down \ {k}
  /\ Send([key |-> k, up |-> TRUE])
  /\ UNCHANGED <<shift, reading, typed, got, both>>

getch ==
  /\ ~reading
  /\ reading' = TRUE
  /\ UNCHANGED <<codes, down, strokes, shift, typed, got, lost, both>>

\* Mutant: a code is looked at for the shift key whether it goes up or down.
GetRawKey_Bug ==
  /\ reading /\ codes # <<>>
  /\ codes' = Tail(codes)
  /\ LET code == Head(codes)
         char == ~code.up /\ code.key \notin Shifts
     IN /\ shift' = (shift \/ code.key \in Shifts)
        /\ got' = IF char THEN Append(got, <<code.key, shift>>) ELSE got
        /\ reading' = ~char
  /\ UNCHANGED <<down, strokes, typed, lost, both>>

\* A round of GetRawKey with a code at the port, and for a key the rest of
\* getch: the table that shift selects.
GetRawKey ==
  /\ reading /\ codes # <<>>
  /\ codes' = Tail(codes)
  /\ LET code == Head(codes)
         char == ~code.up /\ code.key \notin Shifts
     IN /\ shift' = IF code.key \in Shifts THEN ~code.up ELSE shift
        /\ got' = IF char THEN Append(got, <<code.key, shift>>) ELSE got
        /\ reading' = ~char
  /\ UNCHANGED <<down, strokes, typed, lost, both>>

User == \E k \in Keys \union Shifts : Press(k) \/ Release(k)

KeyInit ==
  /\ codes = <<>> /\ down = {} /\ strokes = 0 /\ shift = FALSE /\ reading = FALSE
  /\ typed = <<>> /\ got = <<>> /\ lost = FALSE /\ both = FALSE

-----------------------------------------------------------------------------
\* getch returns what the user typed, in order and each key once, and in the
\* right case as long as the user does not hold both shift keys: the driver has
\* one variable for the two.
KeysRight ==
  ~lost =>
    /\ Len(got) <= Len(typed)
    /\ \A n \in 1 .. Len(got) : got[n][1] = typed[n][1]
    /\ ~both => IsPrefix(got, typed)
=============================================================================
