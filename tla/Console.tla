------------------------------ MODULE Console ------------------------------
(***************************************************************************)
(* The text console: drivers/video.c, kprintf of src/kernel/kprintf.c and  *)
(* the line editing of src/utils/shell.c.                                  *)
(*                                                                         *)
(* The screen is Row * Col cells; a cell is the character and attribute    *)
(* bytes of the code, so indices here are the code's halved.  cursor_x and *)
(* cursor_y are globals that kprintf keeps in step with its own index i    *)
(* and that getline and print_prompt also write directly.  What is printed *)
(* is abstracted to whether the next character is a newline.               *)
(***************************************************************************)
EXTENDS Integers

CONSTANTS
  Row, Col,    \* TEXTMODE_ROW, TEXTMODE_COL
  PromptLen,   \* PROMPT_LEN, the length of "janus86>"
  ClearX,      \* cursor_x after kclear_screen
  MaxLine,     \* bound on the characters of a typed line
  Echoes       \* characters a key shows: 1, or 0 for Ctrl, Alt, Caps Lock

ASSUME ScreenAssumption ==
  /\ Row \in Nat \ {0} /\ Col \in Nat
  /\ PromptLen \in Nat \ {0} /\ PromptLen < Col
  /\ ClearX \in Nat /\ ClearX < Col
  /\ MaxLine \in Nat \ {0}
  /\ Echoes \subseteq {0, 1}

AnyText == -1      \* text of any length and with newlines
None == -1     \* nothing written, or scrolled off the top

VARIABLES
  cursor_x, cursor_y,
  pc,          \* "kprintf", or the caller that runs
  back,        \* the caller kprintf returns to
  i,           \* kprintf's index into video memory
  left,        \* characters kprintf still has to print, or AnyText
  wrote,       \* ghost: the cell of the last character of the running text,
               \* moving up with the screen; None before the first one
  lit,         \* ghost: the cell whose attribute byte set_cursor_position
               \* wrote last; None before the first call
  buf_index,   \* getline's count of characters in buf
  start        \* ghost: the cell after the prompt of the line being typed

cursor == <<cursor_x, cursor_y>>
vars == <<cursor_x, cursor_y, pc, back, i, left, wrote, lit, buf_index, start>>

Cells == Row * Col
Cell(x, y) == y * Col + x

-----------------------------------------------------------------------------
\* Mutant: the row just below the screen is not allowed.
SetY_Bug(x, y) ==
  LET yy == IF x = Col THEN y + 1 ELSE y
  IN IF yy < 0 \/ yy >= Row THEN 0 ELSE yy

\* set_cursor_position(x, y): past the last column the next row begins; a row
\* below the screen is row 0, but the row just below the last one is allowed.
\* The cell it shows the cursor in gets the attribute WHITE, there too.
SetX(x) == IF x < 0 \/ x = Col THEN 0 ELSE x
SetY(x, y) ==
  LET yy == IF x = Col THEN y + 1 ELSE y
  IN IF yy < 0 \/ yy > Row THEN 0 ELSE yy

\* Where kscroll_display takes cell w.
Scrolled(w) == IF w < Col THEN None ELSE w - Col

set_cursor_position(x, y) ==
  /\ cursor_x' = SetX(x)
  /\ cursor_y' = SetY(x, y)
  /\ lit' = Cell(cursor_x', cursor_y')

\* kclear_screen at boot.
Init ==
  /\ cursor_x = ClearX /\ cursor_y = 0
  /\ pc = "boot" /\ back = "boot"
  /\ i = 0 /\ left = 0 /\ wrote = None /\ lit = None
  /\ buf_index = 0 /\ start = 0

\* Entry of kprintf with the text's length n, at cursor position (x, y).
CallKprintf(n, caller, x, y) ==
  /\ pc' = "kprintf"
  /\ back' = caller
  /\ left' = n
  /\ i' = Cell(x, y)

Printing == pc = "kprintf"

\* Mutant: i is not taken to the new row.
KprintfNewline_Bug ==
  /\ Printing
  /\ left = AnyText
  /\ IF cursor_y = Row
     THEN set_cursor_position(0, cursor_y - 1) /\ wrote' = Scrolled(wrote)
     ELSE set_cursor_position(0, cursor_y + 1) /\ UNCHANGED wrote
  /\ UNCHANGED <<i, pc, back, left, buf_index, start>>

\* The '\n' loop: next row, or scroll when the cursor is already below the
\* last one (kscroll_display ends with set_cursor_position(0, cursor_y - 1)).
KprintfNewline ==
  /\ Printing
  /\ left = AnyText
  /\ IF cursor_y = Row
     THEN set_cursor_position(0, cursor_y - 1) /\ wrote' = Scrolled(wrote)
     ELSE set_cursor_position(0, cursor_y + 1) /\ UNCHANGED wrote
  /\ i' = Cell(0, cursor_y')
  /\ UNCHANGED <<pc, back, left, buf_index, start>>

\* Mutant: no scroll before the character below the screen.
KprintfChar_Bug ==
  /\ Printing
  /\ left # 0
  /\ wrote' = i
  /\ i' = i + 1
  /\ set_cursor_position(cursor_x + 1, cursor_y)
  /\ left' = IF left = AnyText THEN AnyText ELSE left - 1
  /\ UNCHANGED <<pc, back, buf_index, start>>

\* One character: scroll first if i is just below the screen, write, advance
\* i and the cursor each by its own rule.  (The call that ends kscroll_display
\* has made the attribute of the first cell of the last row WHITE by then.)
KprintfChar ==
  /\ Printing
  /\ left # 0
  /\ LET scroll == i = Cells
         at == IF scroll THEN Cell(0, Row - 1) ELSE i
         x == IF scroll THEN SetX(0) ELSE cursor_x
         y == IF scroll THEN SetY(0, cursor_y - 1) ELSE cursor_y
     IN /\ wrote' = at
        /\ i' = at + 1
        /\ set_cursor_position(x + 1, y)
  /\ left' = IF left = AnyText THEN AnyText ELSE left - 1
  /\ UNCHANGED <<pc, back, buf_index, start>>

KprintfReturn ==
  /\ Printing
  /\ left \in {0, AnyText}
  /\ pc' = back
  /\ left' = 0
  /\ UNCHANGED <<cursor_x, cursor_y, back, i, wrote, lit, buf_index, start>>

-----------------------------------------------------------------------------
\* The messages of k_main before the shell starts.
BootPrint ==
  /\ pc = "boot"
  /\ CallKprintf(AnyText, "boot", cursor_x, cursor_y)
  /\ UNCHANGED <<cursor_x, cursor_y, wrote, lit, buf_index, start>>

ShellMain ==
  /\ pc = "boot"
  /\ pc' = "prompt"
  /\ UNCHANGED <<cursor_x, cursor_y, back, i, left, wrote, lit, buf_index, start>>

PrintPrompt ==
  /\ pc = "prompt"
  /\ set_cursor_position(0, cursor_y)
  /\ CallKprintf(PromptLen, "prompted", cursor_x', cursor_y')
  /\ wrote' = None
  /\ UNCHANGED <<buf_index, start>>

\* Entry of getline.
GetlineStart ==
  /\ pc = "prompted"
  /\ pc' = "getline"
  /\ buf_index' = 0
  /\ start' = Cell(cursor_x, cursor_y)
  /\ UNCHANGED <<cursor_x, cursor_y, back, i, left, wrote, lit>>

\* A key is echoed with kprintf("%c", ch) and stored; a key without a
\* character is stored as 0, and echoing 0 prints nothing.
GetlineKey(echo) ==
  /\ pc = "getline"
  /\ buf_index < MaxLine
  /\ CallKprintf(echo, "getline", cursor_x, cursor_y)
  /\ buf_index' = buf_index + 1
  /\ UNCHANGED <<cursor_x, cursor_y, wrote, start, lit>>

\* Where BACKSPACE moves the cursor from x.
BackX(x) == IF x - 1 < PromptLen THEN PromptLen ELSE x - 1

GetlineBackspace ==
  /\ pc = "getline"
  /\ set_cursor_position(BackX(cursor_x), cursor_y)
  /\ CallKprintf(1, "erased", cursor_x', cursor_y')
  /\ wrote' = None
  /\ UNCHANGED <<buf_index, start>>

\* Mutant: the cursor stays behind the blank that erased the character.
GetlineErased_Bug2 ==
  /\ pc = "erased"
  /\ buf_index' = IF buf_index > 0 THEN buf_index - 1 ELSE 0
  /\ pc' = "getline"
  /\ wrote' = None
  /\ UNCHANGED <<cursor_x, cursor_y, back, i, left, start, lit>>

GetlineErased ==
  /\ pc = "erased"
  /\ set_cursor_position(BackX(cursor_x), cursor_y)
  /\ buf_index' = IF buf_index > 0 THEN buf_index - 1 ELSE 0
  /\ pc' = "getline"
  /\ wrote' = None
  /\ UNCHANGED <<back, i, left, start>>

\* Enter: the globals are set without set_cursor_position.
GetlineEnter ==
  /\ pc = "getline"
  /\ cursor_y' = cursor_y + 1
  /\ cursor_x' = 0
  /\ pc' = "command"
  /\ UNCHANGED <<back, i, left, wrote, lit, buf_index, start>>

CommandPrint ==
  /\ pc = "command"
  /\ CallKprintf(AnyText, "command", cursor_x, cursor_y)
  /\ UNCHANGED <<cursor_x, cursor_y, wrote, lit, buf_index, start>>

\* cmd_clear: kclear_screen.
CommandClear ==
  /\ pc = "command"
  /\ cursor_x' = ClearX /\ cursor_y' = 0
  /\ wrote' = None
  /\ UNCHANGED <<pc, back, i, left, lit, buf_index, start>>

CommandDone ==
  /\ pc = "command"
  /\ pc' = "prompt"
  /\ UNCHANGED <<cursor_x, cursor_y, back, i, left, wrote, lit, buf_index, start>>

Kprintf == KprintfNewline \/ KprintfChar \/ KprintfReturn
Boot == BootPrint \/ ShellMain
Getline ==
  \/ GetlineStart \/ GetlineBackspace \/ GetlineErased \/ GetlineEnter
  \/ \E echo \in Echoes : GetlineKey(echo)
Command == CommandPrint \/ CommandClear \/ CommandDone

Next == Kprintf \/ Boot \/ PrintPrompt \/ Getline \/ Command

Spec == Init /\ [][Next]_vars

-----------------------------------------------------------------------------
Callers == {"boot", "prompt", "prompted", "getline", "erased", "command"}

\* Every variable has its type.
TypeOK ==
  /\ cursor_x \in Nat /\ cursor_y \in Nat
  /\ pc \in Callers \union {"kprintf"}
  /\ back \in Callers
  /\ i \in Nat
  /\ left \in Nat \union {AnyText}
  /\ wrote \in Nat \union {None} /\ lit \in Nat \union {None}
  /\ buf_index \in Nat /\ start \in Nat

\* kprintf's characters are all on the screen, whatever it wrapped or scrolled
\* and whatever was edited before.  The attribute byte set_cursor_position
\* writes is too, but for one cell: when the cursor waits at the start of the
\* row below the screen, the write goes to the first cell behind the screen.
OnScreen == wrote < Cells /\ lit <= Cells

\* While kprintf runs, its own index and the cursor that the rest of the kernel
\* reads and writes are the same place.
IndexFollowsCursor == Printing => i = Cell(cursor_x, cursor_y)

\* The characters the user sees after the prompt are as many as getline has in
\* buf: echo and BACKSPACE, at the prompt and behind text, keep the two in step
\* on a line that ends before the last column.  (On a line that has wrapped
\* BACKSPACE moves the cursor within its row only, to PromptLen at the least,
\* and the two part: shell.c:49.)
EchoMatchesBuffer == pc = "getline" => Cell(cursor_x, cursor_y) = start + buf_index

\* A character never lands on or before an earlier one of the same output, as
\* the screen scrolls and from one kprintf to the next.
NoOverwrite == [][ KprintfChar => wrote' > IF i = Cells THEN Scrolled(wrote) ELSE wrote ]_vars

-----------------------------------------------------------------------------
\* The cursor is on the screen or at the start of the row below it.
CursorOnScreen ==
  \/ cursor_x < Col /\ cursor_y < Row
  \/ cursor_x = 0 /\ cursor_y = Row

\* Of the line being edited: the cursor is on the prompt's row, between the
\* prompt and the end of the text.
Erase(n) == IF n > 0 THEN n - 1 ELSE 0
Editing ==
  /\ buf_index <= MaxLine
  /\ pc = "prompted" => cursor_y < Row /\ cursor_x = PromptLen
  /\ pc = "getline" => cursor_y < Row /\ PromptLen <= cursor_x /\ cursor_x <= PromptLen + buf_index
  /\ pc = "erased" => /\ cursor_y < Row
                      /\ PromptLen + 1 <= cursor_x /\ cursor_x <= PromptLen + Erase(buf_index) + 1
  /\ Printing =>
       CASE back = "prompted" -> left \in Nat /\ cursor_x + left = PromptLen
         [] back = "getline" -> /\ left \in {0, 1} /\ cursor_y < Row
                                /\ PromptLen <= cursor_x /\ cursor_x + left <= PromptLen + buf_index
         [] back = "erased" -> /\ left \in {0, 1} /\ cursor_y < Row
                               /\ PromptLen + 1 <= cursor_x + left
                               /\ cursor_x + left <= PromptLen + Erase(buf_index) + 1
         [] OTHER -> back \in {"boot", "command"}

\* The inductive invariant of the properties above.
ConsoleInv ==
  /\ TypeOK /\ CursorOnScreen /\ IndexFollowsCursor /\ Editing
  /\ wrote < Cell(cursor_x, cursor_y) /\ lit <= Cells
=============================================================================
