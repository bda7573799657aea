--------------------------- MODULE ConsoleProofs ---------------------------
(***************************************************************************)
(* The console stays on its screen for every screen and prompt size, as    *)
(* long as a typed line ends before the last column (ShortLines).  Then the*)
(* line typed there, in the shell's parser: the arguments a command gets,  *)
(* for every sequence of lines.                                            *)
(***************************************************************************)
EXTENDS Console, Shell, FiniteSetTheorems, SequenceTheorems, WellFoundedInduction, TLAPS

ShortLines == PromptLen + MaxLine < Col

\* The arithmetic of cells, so that the products stay out of the other proofs.
LEMMA CellFacts ==
  ASSUME NEW x \in Nat, NEW y \in Nat
  PROVE  /\ Cell(x, y) \in Nat
         /\ Cell(x + 1, y) = Cell(x, y) + 1
         /\ Cell(0, y + 1) = Cell(0, y) + Col
         /\ Cell(x, y) = Cell(0, y) + x
         /\ Cell(0, Row) = Cells
         /\ Cell(0, Row - 1) + Col = Cells
         /\ Cell(0, Row - 1) \in Nat
         /\ Cells \in Nat
<1>1. Row \in Nat /\ Col \in Nat /\ Row - 1 \in Nat
  BY ScreenAssumption
<1>2. y * Col \in Nat /\ (Row - 1) * Col \in Nat /\ Row * Col \in Nat
  BY <1>1
<1>3. (y + 1) * Col = y * Col + Col /\ (Row - 1) * Col + Col = Row * Col
  BY <1>1
<1> QED BY <1>1, <1>2, <1>3 DEF Cell, Cells

\* The row of a cursor above the last row starts no later than the last row.
LEMMA RowBelow ==
  ASSUME NEW y \in Nat, y < Row
  PROVE  Cell(0, y) <= Cell(0, Row - 1)
<1>1. Row \in Nat /\ Col \in Nat
  BY ScreenAssumption
<1>2. \A a, b, c \in Nat : a <= b => a * c <= b * c
  OBVIOUS
<1>3. y <= Row - 1 /\ Row - 1 \in Nat
  BY <1>1
<1>4. y * Col <= (Row - 1) * Col
  BY <1>1, <1>2, <1>3
<1> QED BY <1>4, <1>1, <1>3 DEF Cell

\* What the constants are.
LEMMA Sizes ==
  /\ Row \in Nat /\ Row >= 1 /\ Col \in Nat /\ PromptLen \in Nat /\ PromptLen >= 1
  /\ PromptLen < Col /\ ClearX \in Nat /\ ClearX < Col /\ MaxLine \in Nat /\ MaxLine >= 1
  BY ScreenAssumption

\* A cell of the screen comes before the first one below it.
LEMMA CellInside ==
  ASSUME NEW x \in Nat, NEW y \in Nat, x < Col, y < Row
  PROVE  Cell(x, y) \in Nat /\ Cells \in Nat /\ Cell(x, y) < Cells
<1>1. Cell(0, y) <= Cell(0, Row - 1)
  BY RowBelow
<1>2. /\ Cell(x, y) \in Nat /\ Cell(0, y) \in Nat /\ Cell(x, y) = Cell(0, y) + x
      /\ Cell(0, Row - 1) + Col = Cells /\ Cell(0, Row - 1) \in Nat /\ Cells \in Nat
  BY CellFacts
<1> QED BY <1>1, <1>2, Sizes

\* A cursor on the screen or at the start of the row below it stands for a cell
\* of the screen or for the first one behind it.
LEMMA CursorCell ==
  ASSUME NEW x \in Nat, NEW y \in Nat, (x < Col /\ y < Row) \/ (x = 0 /\ y = Row)
  PROVE  Cell(x, y) \in Nat /\ Cell(x, y) <= Cells
<1>1. CASE x < Col /\ y < Row
  BY <1>1, CellInside
<1>2. CASE x = 0 /\ y = Row
  BY <1>2, CellFacts
<1> QED BY <1>1, <1>2

\* The last character is on the screen because the cursor is behind it.
LEMMA InvOnScreen == ConsoleInv => OnScreen
<1> SUFFICES ASSUME ConsoleInv PROVE wrote < Cells
  BY DEF OnScreen, ConsoleInv
<1>1. /\ cursor_x \in Nat /\ cursor_y \in Nat /\ wrote \in Nat \union {-1}
      /\ wrote < Cell(cursor_x, cursor_y) /\ CursorOnScreen
  BY DEF ConsoleInv, TypeOK, None
<1>2. CASE cursor_x < Col /\ cursor_y < Row
  BY <1>1, <1>2, CellInside
<1>3. CASE cursor_x = 0 /\ cursor_y = Row
  BY <1>1, <1>3, CellFacts
<1> QED BY <1>1, <1>2, <1>3 DEF CursorOnScreen

\* kscroll_display moves a cell above the first row off the screen and every
\* other one up by a row.
LEMMA ScrolledFacts ==
  ASSUME NEW w \in Nat \union {None}
  PROVE  /\ Scrolled(w) \in Nat \union {None}
         /\ Scrolled(w) <= w
         /\ w >= Col => Scrolled(w) = w - Col
         /\ w < Col => Scrolled(w) = -1
  BY Sizes DEF Scrolled, None

\* The console right after kclear_screen.
LEMMA InitConsole == Init => ConsoleInv
<1> SUFFICES ASSUME Init PROVE ConsoleInv
  OBVIOUS
<1>1. Cell(ClearX, 0) \in Nat /\ Cells \in Nat
  BY Sizes, CellFacts
<1> QED BY <1>1, Sizes DEF Init, ConsoleInv, TypeOK, Callers, CursorOnScreen, IndexFollowsCursor, Printing,
                           Editing, None, AnyText

\* A newline, scrolled or not.
LEMMA NewlineStep ==
  ASSUME ConsoleInv, KprintfNewline
  PROVE  ConsoleInv'
<1>1. /\ cursor_x \in Nat /\ cursor_y \in Nat /\ wrote \in Nat \union {None} /\ left = AnyText
      /\ CursorOnScreen /\ wrote < Cell(cursor_x, cursor_y)
      /\ pc = "kprintf" /\ i' = Cell(0, cursor_y')
      /\ pc' = pc /\ back' = back /\ left' = left /\ buf_index' = buf_index /\ start' = start
      /\ buf_index <= MaxLine /\ back \in {"boot", "command"}
  BY DEF ConsoleInv, TypeOK, KprintfNewline, Printing, Editing, AnyText, Callers
<1>2. /\ cursor_x' = 0 /\ cursor_y' \in Nat
      /\ cursor_y = Row => cursor_y' = Row - 1 /\ wrote' = Scrolled(wrote)
      /\ cursor_y # Row => cursor_y < Row /\ cursor_y' = cursor_y + 1 /\ wrote' = wrote
      /\ lit' = Cell(cursor_x', cursor_y')
  BY <1>1, Sizes DEF KprintfNewline, set_cursor_position, SetX, SetY, CursorOnScreen
<1>3. CursorOnScreen' /\ wrote' \in Nat \union {None}
  BY <1>1, <1>2, Sizes, ScrolledFacts DEF CursorOnScreen
<1>8. lit' \in Nat /\ lit' <= Cells
  BY <1>2, <1>3, CursorCell DEF CursorOnScreen
<1>4. wrote' < Cell(0, cursor_y')
  <2>1. CASE cursor_y = Row
    <3>1. cursor_x = 0 /\ cursor_y' = Row - 1
      BY <2>1, <1>1, <1>2 DEF CursorOnScreen
    <3>2. wrote < Cells /\ Cell(0, Row - 1) + Col = Cells /\ Cell(0, Row - 1) \in Nat /\ Cells \in Nat
      BY <3>1, <2>1, <1>1, CellFacts
    <3> QED BY <3>1, <3>2, <2>1, <1>1, <1>2, Sizes, ScrolledFacts DEF None
  <2>2. CASE cursor_y # Row
    <3>1. cursor_x < Col
      BY <2>2, <1>1 DEF CursorOnScreen
    <3>2. /\ Cell(cursor_x, cursor_y) = Cell(0, cursor_y) + cursor_x
          /\ Cell(0, cursor_y + 1) = Cell(0, cursor_y) + Col
          /\ Cell(0, cursor_y) \in Nat
      BY <1>1, CellFacts
    <3>3. wrote' = wrote /\ cursor_y' = cursor_y + 1 /\ Col \in Nat
      BY <2>2, <1>2, Sizes
    <3> QED BY <3>1, <3>2, <3>3, <1>1 DEF None
  <2> QED BY <2>1, <2>2
<1>5. i' \in Nat
  BY <1>1, <1>2, CellFacts
<1>6. TypeOK'
  BY <1>1, <1>2, <1>3, <1>5, <1>8 DEF ConsoleInv, TypeOK
<1>7. Editing'
  BY <1>1 DEF Editing, Printing
<1> QED BY <1>1, <1>2, <1>3, <1>4, <1>6, <1>7, <1>8 DEF ConsoleInv, IndexFollowsCursor

\* A character: i = Cells exactly when the cursor waits below the screen, so the
\* test on i scrolls when it must.
LEMMA CharStep ==
  ASSUME ShortLines, ConsoleInv, KprintfChar
  PROVE  /\ ConsoleInv'
         /\ wrote' > IF i = Cells THEN Scrolled(wrote) ELSE wrote
<1> DEFINE scroll == i = Cells
           at == IF scroll THEN Cell(0, Row - 1) ELSE i
           x == IF scroll THEN 0 ELSE cursor_x
           y == IF scroll THEN Row - 1 ELSE cursor_y
<1>1. /\ cursor_x \in Nat /\ cursor_y \in Nat /\ wrote \in Nat \union {None}
      /\ left \in Nat \union {AnyText} /\ left # 0 /\ back \in Callers /\ buf_index \in Nat
      /\ CursorOnScreen /\ wrote < Cell(cursor_x, cursor_y) /\ i = Cell(cursor_x, cursor_y)
      /\ pc = "kprintf" /\ pc' = pc /\ back' = back /\ buf_index' = buf_index /\ start' = start
      /\ left' = (IF left = AnyText THEN AnyText ELSE left - 1)
      /\ wrote' = at /\ i' = at + 1
  BY DEF ConsoleInv, TypeOK, KprintfChar, Printing, IndexFollowsCursor
<1>2. scroll <=> cursor_x = 0 /\ cursor_y = Row
  <2>1. CASE cursor_x < Col /\ cursor_y < Row
    BY <2>1, <1>1, CellInside
  <2>2. CASE cursor_x = 0 /\ cursor_y = Row
    BY <2>2, <1>1, CellFacts
  <2> QED BY <2>1, <2>2, <1>1 DEF CursorOnScreen
<1>3. /\ x \in Nat /\ y \in Nat /\ x < Col /\ y < Row
      /\ cursor_x' = (IF x + 1 = Col THEN 0 ELSE x + 1)
      /\ cursor_y' = (IF x + 1 = Col THEN y + 1 ELSE y)
      /\ lit' = Cell(cursor_x', cursor_y')
  BY <1>1, <1>2, Sizes DEF KprintfChar, set_cursor_position, SetX, SetY, CursorOnScreen
<1>4. at = Cell(x, y) /\ at \in Nat
  BY <1>1, <1>2, <1>3, CellFacts
<1>5. CursorOnScreen' /\ cursor_x' \in Nat /\ cursor_y' \in Nat
  BY <1>3, Sizes DEF CursorOnScreen
<1>10. lit' \in Nat /\ lit' <= Cells
  BY <1>3, <1>5, CursorCell DEF CursorOnScreen
<1>6. Cell(cursor_x', cursor_y') = at + 1
  <2> HIDE DEF x, y, at
  <2>1. /\ Cell(x + 1, y) = Cell(x, y) + 1 /\ Cell(x, y) = Cell(0, y) + x
        /\ Cell(0, y + 1) = Cell(0, y) + Col /\ Cell(0, y) \in Nat
    BY <1>3, CellFacts
  <2>2. CASE x + 1 = Col
    BY <2>1, <2>2, <1>3, <1>4
  <2>3. CASE x + 1 # Col
    BY <2>1, <2>3, <1>3, <1>4
  <2> QED BY <2>2, <2>3
<1>7. TypeOK'
  BY <1>1, <1>4, <1>5, <1>10 DEF ConsoleInv, TypeOK, AnyText
<1>8. Editing'
  <2>1. CASE back = "prompted"
    BY <2>1, <1>1, <1>2, <1>3, Sizes DEF ConsoleInv, Editing, Printing, AnyText, Erase
  <2>2. CASE back = "getline"
    <3>1. /\ left \in {0, 1} /\ cursor_y < Row /\ buf_index <= MaxLine
          /\ PromptLen <= cursor_x /\ cursor_x + left <= PromptLen + buf_index
      BY <2>2, <1>1 DEF ConsoleInv, Editing, Printing
    <3>2. ~scroll /\ left = 1 /\ left' = 0
      BY <3>1, <1>1, <1>2, Sizes DEF AnyText
    <3>3. cursor_x' = cursor_x + 1 /\ cursor_y' = cursor_y
      BY <3>1, <3>2, <1>1, <1>3, Sizes DEF ShortLines
    <3> QED BY <3>1, <3>2, <3>3, <2>2, <1>1, Sizes DEF Editing, Printing
  <2>3. CASE back = "erased"
    <3>1. /\ left \in {0, 1} /\ cursor_y < Row /\ buf_index <= MaxLine
          /\ PromptLen + 1 <= cursor_x + left
          /\ cursor_x + left <= PromptLen + Erase(buf_index) + 1
      BY <2>3, <1>1 DEF ConsoleInv, Editing, Printing
    <3>2. ~scroll /\ left = 1 /\ left' = 0 /\ Erase(buf_index) \in Nat /\ Erase(buf_index) + 1 <= MaxLine
      BY <3>1, <1>1, <1>2, Sizes DEF AnyText, Erase
    <3>3. cursor_x' = cursor_x + 1 /\ cursor_y' = cursor_y
      BY <3>1, <3>2, <1>1, <1>3, Sizes DEF ShortLines
    <3> QED BY <3>1, <3>2, <3>3, <2>3, <1>1, Sizes DEF Editing, Printing
  <2>4. CASE back \notin {"prompted", "getline", "erased"}
    BY <2>4, <1>1 DEF ConsoleInv, Editing, Printing
  <2> QED BY <2>1, <2>2, <2>3, <2>4
<1>9. wrote' > IF i = Cells THEN Scrolled(wrote) ELSE wrote
  <2>1. CASE scroll
    <3>1. wrote < Cells /\ Cell(0, Row - 1) + Col = Cells /\ Cell(0, Row - 1) \in Nat /\ Cells \in Nat
      BY <2>1, <1>1, CellFacts
    <3> QED BY <3>1, <2>1, <1>1, Sizes, ScrolledFacts DEF None
  <2>2. CASE ~scroll
    BY <2>2, <1>1
  <2> QED BY <2>1, <2>2
<1> HIDE DEF at
<1> QED BY <1>1, <1>4, <1>5, <1>6, <1>7, <1>8, <1>9, <1>10 DEF ConsoleInv, IndexFollowsCursor

\* kprintf hands the cursor back to its caller.
LEMMA ReturnStep ==
  ASSUME ConsoleInv, KprintfReturn
  PROVE  ConsoleInv'
<1>1. /\ pc = "kprintf" /\ left \in {0, AnyText} /\ pc' = back /\ left' = 0 /\ back \in Callers
      /\ cursor_x' = cursor_x /\ cursor_y' = cursor_y /\ back' = back /\ i' = i
      /\ wrote' = wrote /\ buf_index' = buf_index /\ start' = start /\ cursor_x \in Nat /\ cursor_y \in Nat
      /\ lit' = lit /\ lit <= Cells
  BY DEF KprintfReturn, Printing, ConsoleInv, TypeOK
<1>2. pc' # "kprintf"
  BY <1>1 DEF Callers
<1>3. TypeOK' /\ CursorOnScreen' /\ wrote' < Cell(cursor_x', cursor_y')
  BY <1>1 DEF ConsoleInv, TypeOK, CursorOnScreen
<1>4. Editing'
  <2>1. CASE back = "prompted"
    BY <2>1, <1>1, Sizes DEF ConsoleInv, Editing, Printing, AnyText, CursorOnScreen
  <2>2. CASE back = "getline"
    BY <2>2, <1>1, Sizes DEF ConsoleInv, TypeOK, Editing, Printing, AnyText
  <2>3. CASE back = "erased"
    BY <2>3, <1>1, Sizes DEF ConsoleInv, TypeOK, Editing, Printing, AnyText
  <2>4. CASE back \notin {"prompted", "getline", "erased"}
    BY <2>4, <1>1, <1>2 DEF ConsoleInv, Editing, Printing
  <2> QED BY <2>1, <2>2, <2>3, <2>4
<1> QED BY <1>1, <1>2, <1>3, <1>4 DEF ConsoleInv, IndexFollowsCursor, Printing

\* set_cursor_position with a column of the screen.
LEMMA CursorSet ==
  ASSUME NEW x \in Nat, NEW y \in Nat, x < Col, set_cursor_position(x, y)
  PROVE  /\ cursor_x' = x
         /\ cursor_y' = (IF y > Row THEN 0 ELSE y)
         /\ lit' = Cell(cursor_x', cursor_y')
  BY Sizes DEF set_cursor_position, SetX, SetY

\* The steps of the code that calls kprintf or moves the cursor itself.
LEMMA CallerStep ==
  ASSUME ShortLines, ConsoleInv, Boot \/ PrintPrompt \/ Getline \/ Command
  PROVE  ConsoleInv'
<1>1. /\ cursor_x \in Nat /\ cursor_y \in Nat /\ wrote \in Nat \union {None} /\ buf_index \in Nat
      /\ start \in Nat /\ buf_index <= MaxLine /\ CursorOnScreen /\ wrote < Cell(cursor_x, cursor_y)
      /\ back \in Callers /\ i \in Nat /\ left \in Nat \union {AnyText} /\ pc \in Callers \union {"kprintf"}
      /\ lit \in Nat \union {None} /\ lit <= Cells
  BY DEF ConsoleInv, TypeOK, Editing
<1>2. Cell(cursor_x, cursor_y) \in Nat
  BY <1>1, CellFacts
<1>3. CASE BootPrint \/ CommandPrint
  BY <1>1, <1>2, <1>3 DEF BootPrint, CommandPrint, CallKprintf, ConsoleInv, TypeOK, Callers, CursorOnScreen,
                         IndexFollowsCursor, Printing, Editing, AnyText
<1>4. CASE ShellMain \/ CommandDone
  BY <1>1, <1>4 DEF ShellMain, CommandDone, ConsoleInv, TypeOK, Callers, CursorOnScreen,
                   IndexFollowsCursor, Printing, Editing
<1>5. CASE PrintPrompt
  <2>1. cursor_x' = 0 /\ cursor_y' = cursor_y /\ lit' = Cell(cursor_x', cursor_y')
    BY <1>1, <1>5, Sizes, CursorSet DEF PrintPrompt, CursorOnScreen
  <2>2. Cell(cursor_x', cursor_y') \in Nat /\ Cell(cursor_x', cursor_y') <= Cells
    BY <2>1, <1>1, CursorCell, Sizes DEF CursorOnScreen
  <2> QED BY <2>1, <2>2, <1>1, <1>5, Sizes DEF PrintPrompt, CallKprintf, ConsoleInv, TypeOK, Callers,
             CursorOnScreen, IndexFollowsCursor, Printing, Editing, None
<1>6. CASE GetlineStart
  BY <1>1, <1>2, <1>6, Sizes DEF GetlineStart, ConsoleInv, TypeOK, Callers, CursorOnScreen,
             IndexFollowsCursor, Printing, Editing
<1>7. ASSUME NEW echo \in {0, 1}, GetlineKey(echo) PROVE ConsoleInv'
  BY <1>1, <1>2, <1>7, Sizes DEF GetlineKey, CallKprintf, ConsoleInv, TypeOK, Callers, CursorOnScreen,
             IndexFollowsCursor, Printing, Editing
<1>8. CASE GetlineBackspace
  <2>1. /\ cursor_y < Row /\ PromptLen <= cursor_x /\ cursor_x <= PromptLen + buf_index /\ cursor_x < Col
    BY <1>1, <1>8, Sizes DEF GetlineBackspace, ConsoleInv, Editing, ShortLines
  <2>2. /\ BackX(cursor_x) \in Nat /\ BackX(cursor_x) < Col /\ PromptLen <= BackX(cursor_x)
        /\ BackX(cursor_x) <= PromptLen + Erase(buf_index)
    BY <2>1, <1>1, Sizes DEF BackX, Erase
  <2>3. cursor_x' = BackX(cursor_x) /\ cursor_y' = cursor_y /\ lit' = Cell(cursor_x', cursor_y')
    BY <2>1, <2>2, <1>1, <1>8, Sizes, CursorSet DEF GetlineBackspace
  <2>4. Cell(cursor_x', cursor_y') \in Nat /\ lit' \in Nat /\ lit' <= Cells
    BY <2>1, <2>2, <2>3, <1>1, CursorCell
  <2>5. /\ pc' = "kprintf" /\ back' = "erased" /\ left' = 1 /\ i' = Cell(cursor_x', cursor_y')
        /\ wrote' = None /\ buf_index' = buf_index /\ start' = start
    BY <1>8 DEF GetlineBackspace, CallKprintf
  <2>6. Erase(buf_index)' = Erase(buf_index) /\ Erase(buf_index) \in Nat
    BY <2>5, <1>1 DEF Erase
  <2>7. TypeOK' /\ CursorOnScreen' /\ Editing'
    BY <2>1, <2>2, <2>3, <2>4, <2>5, <2>6, <1>1, Sizes DEF TypeOK, Callers, CursorOnScreen, Editing, Printing
  <2> QED BY <2>4, <2>5, <2>7 DEF ConsoleInv, IndexFollowsCursor, None
<1>9. CASE GetlineErased
  <2>1. /\ cursor_y < Row /\ PromptLen + 1 <= cursor_x /\ cursor_x <= PromptLen + Erase(buf_index) + 1
        /\ pc' = "getline" /\ back' = back /\ i' = i /\ left' = left /\ wrote' = None /\ start' = start
        /\ buf_index' = Erase(buf_index)
    BY <1>9 DEF GetlineErased, ConsoleInv, Editing, Erase
  <2>2. Erase(buf_index) \in Nat /\ Erase(buf_index) + 1 <= MaxLine
    BY <1>1, Sizes DEF Erase
  <2>3. BackX(cursor_x) = cursor_x - 1 /\ cursor_x - 1 \in Nat /\ cursor_x - 1 < Col
    BY <2>1, <2>2, <1>1, Sizes DEF BackX, ShortLines
  <2>4. cursor_x' = cursor_x - 1 /\ cursor_y' = cursor_y /\ lit' = Cell(cursor_x', cursor_y')
    BY <2>1, <2>3, <1>1, <1>9, Sizes, CursorSet DEF GetlineErased
  <2>5. Cell(cursor_x', cursor_y') \in Nat /\ lit' \in Nat /\ lit' <= Cells
    BY <2>1, <2>3, <2>4, <1>1, CursorCell
  <2>6. TypeOK' /\ CursorOnScreen' /\ Editing'
    BY <2>1, <2>2, <2>3, <2>4, <2>5, <1>1, Sizes DEF TypeOK, Callers, CursorOnScreen, Editing, Printing
  <2> QED BY <2>1, <2>5, <2>6 DEF ConsoleInv, IndexFollowsCursor, Printing, None
<1>10. CASE GetlineEnter
  <2>1. /\ cursor_y < Row /\ cursor_x' = 0 /\ cursor_y' = cursor_y + 1 /\ pc' = "command" /\ back' = back
        /\ i' = i /\ left' = left /\ wrote' = wrote /\ buf_index' = buf_index /\ start' = start /\ cursor_x < Col
        /\ lit' = lit
    BY <1>1, <1>10, Sizes DEF GetlineEnter, ConsoleInv, Editing, ShortLines
  <2>2. wrote' < Cell(cursor_x', cursor_y')
    BY <2>1, <1>1, <1>2, Sizes, CellFacts, SMTT(30) DEF None
  <2> QED BY <2>1, <2>2, <1>1, Sizes DEF ConsoleInv, TypeOK, Callers, CursorOnScreen, IndexFollowsCursor,
             Printing, Editing
<1>11. CASE CommandClear
  <2>1. Cell(ClearX, 0) \in Nat
    BY Sizes, CellFacts
  <2> QED BY <2>1, <1>1, <1>11, Sizes DEF CommandClear, ConsoleInv, TypeOK, Callers, CursorOnScreen,
             IndexFollowsCursor, Printing, Editing, None
<1> QED BY ScreenAssumption, <1>3, <1>4, <1>5, <1>6, <1>7, <1>8, <1>9, <1>10, <1>11 DEF Boot, Getline, Command

\* The invariant is inductive.
LEMMA ConsoleStep ==
  ASSUME ShortLines, ConsoleInv, [Next]_vars
  PROVE  ConsoleInv'
<1>1. CASE Kprintf
  BY <1>1, NewlineStep, CharStep, ReturnStep DEF Kprintf
<1>2. CASE Boot \/ PrintPrompt \/ Getline \/ Command
  BY <1>2, CallerStep
<1>3. CASE UNCHANGED vars
  BY <1>3 DEF vars, ConsoleInv, TypeOK, CursorOnScreen, IndexFollowsCursor, Printing, Editing
<1> QED BY <1>1, <1>2, <1>3 DEF Next

-----------------------------------------------------------------------------
\* On every screen, with lines that end before the last column, the cursor is on
\* the screen (or about to scroll) and kprintf's index agrees with it.
THEOREM ConsoleInvariant == ASSUME ShortLines PROVE Spec => []ConsoleInv
<1>1. Init => ConsoleInv
  BY InitConsole
<1>2. ConsoleInv /\ [Next]_vars => ConsoleInv'
  BY ConsoleStep
<1> QED BY <1>1, <1>2, PTL DEF Spec

\* kprintf's characters are on the screen, and the attribute set_cursor_position
\* writes for the cursor is at most in the first cell behind it.
THEOREM StaysOnScreen == ASSUME ShortLines PROVE Spec => []OnScreen
  BY ConsoleInvariant, InvOnScreen, PTL

\* kprintf's index and the global cursor never part while it runs.
THEOREM IndexAndCursor == ASSUME ShortLines PROVE Spec => []IndexFollowsCursor
<1>1. ConsoleInv => IndexFollowsCursor
  BY DEF ConsoleInv
<1> QED BY <1>1, ConsoleInvariant, PTL

\* No character of an output lands on or before an earlier one.
THEOREM OutputInOrder == ASSUME ShortLines PROVE Spec => NoOverwrite
<1>1. ConsoleInv /\ [Next]_vars
        => [KprintfChar => wrote' > IF i = Cells THEN Scrolled(wrote) ELSE wrote]_vars
  BY CharStep
<1> QED BY <1>1, ConsoleInvariant, PTL DEF Spec, NoOverwrite

-----------------------------------------------------------------------------
\* Echo: the exact column of the cursor while a line is edited.
EchoInv ==
  /\ pc = "getline" => cursor_x = PromptLen + buf_index
  /\ pc = "erased" => cursor_x = PromptLen + Erase(buf_index) + 1
  /\ Printing /\ back = "getline" => cursor_x + left = PromptLen + buf_index
  /\ Printing /\ back = "erased" => cursor_x + left = PromptLen + Erase(buf_index) + 1
  /\ pc \in {"getline", "erased"} \/ (Printing /\ back \in {"getline", "erased"})
        => start = Cell(PromptLen, cursor_y)

\* The exact column is kept by echo and BACKSPACE.
LEMMA EchoStep ==
  ASSUME ShortLines, Echoes = {1}, ConsoleInv, EchoInv, [Next]_vars
  PROVE  EchoInv'
<1>1. /\ cursor_x \in Nat /\ cursor_y \in Nat /\ buf_index \in Nat /\ buf_index <= MaxLine
      /\ left \in Nat \union {AnyText} /\ back \in Callers
  BY DEF ConsoleInv, TypeOK, Editing
<1>2. Erase(buf_index) \in Nat /\ Erase(buf_index) + 1 <= MaxLine
  BY <1>1, Sizes DEF Erase
<1>3. CASE KprintfNewline
  BY <1>3 DEF KprintfNewline, ConsoleInv, Editing, EchoInv, Printing, AnyText
<1>4. CASE KprintfChar
  <2>1. /\ pc = "kprintf" /\ pc' = pc /\ back' = back /\ buf_index' = buf_index /\ start' = start /\ left # 0
        /\ left' = (IF left = AnyText THEN AnyText ELSE left - 1)
    BY <1>4 DEF KprintfChar, Printing
  <2>2. CASE back \in {"getline", "erased"}
    <3>1. cursor_y < Row /\ left = 1 /\ cursor_x + 1 < Col /\ i = Cell(cursor_x, cursor_y) /\ cursor_x < Col
      BY <2>1, <2>2, <1>1, <1>2, Sizes DEF ConsoleInv, Editing, Printing, ShortLines, IndexFollowsCursor
    <3>2. i < Cells /\ i \in Nat /\ Cells \in Nat
      BY <3>1, <1>1, CellInside
    <3>3. set_cursor_position(cursor_x + 1, cursor_y)
      BY <3>2, <1>4 DEF KprintfChar
    <3>4. cursor_x' = cursor_x + 1 /\ cursor_y' = cursor_y
      BY <3>1, <3>3, <1>1, Sizes, CursorSet
    <3> QED BY <3>1, <3>4, <2>1, <1>1, <1>2, Sizes DEF EchoInv, Printing, Erase, AnyText
  <2>3. CASE back \notin {"getline", "erased"}
    BY <2>1, <2>3 DEF EchoInv, Printing
  <2> QED BY <2>2, <2>3
<1>5. CASE KprintfReturn
  <2>1. /\ pc = "kprintf" /\ left \in {0, AnyText} /\ pc' = back /\ left' = 0
        /\ cursor_x' = cursor_x /\ cursor_y' = cursor_y /\ back' = back
        /\ buf_index' = buf_index /\ start' = start
    BY <1>5 DEF KprintfReturn, Printing
  <2>2. back # "kprintf"
    BY <1>1 DEF Callers
  <2>3. back \in {"getline", "erased"} => left = 0
    BY <2>1, <1>1 DEF ConsoleInv, Editing, Printing, AnyText
  <2> QED BY <2>1, <2>2, <2>3, <1>1 DEF EchoInv, Printing, Erase
<1>6. CASE Boot \/ Command
  BY <1>6 DEF Boot, Command, BootPrint, ShellMain, CommandPrint, CommandClear, CommandDone, CallKprintf,
              EchoInv, Printing
<1>7. CASE PrintPrompt
  BY <1>7 DEF PrintPrompt, CallKprintf, EchoInv, Printing
<1>8. CASE GetlineStart
  BY <1>8, <1>1 DEF GetlineStart, ConsoleInv, Editing, EchoInv, Printing
<1>9. CASE GetlineKey(1)
  <2>1. /\ pc = "getline" /\ pc' = "kprintf" /\ back' = "getline" /\ left' = 1
        /\ cursor_x' = cursor_x /\ cursor_y' = cursor_y
        /\ buf_index' = buf_index + 1 /\ start' = start
    BY <1>9 DEF GetlineKey, CallKprintf
  <2>2. cursor_x = PromptLen + buf_index /\ start = Cell(PromptLen, cursor_y)
    BY <2>1 DEF EchoInv
  <2>3. cursor_x' + left' = PromptLen + buf_index'
    BY <2>1, <2>2, <1>1, Sizes
  <2>4. start' = Cell(PromptLen, cursor_y)'
    BY <2>1, <2>2 DEF Cell
  <2> QED BY <2>1, <2>3, <2>4 DEF EchoInv, Printing
<1>10. CASE GetlineBackspace
  <2>1. cursor_x = PromptLen + buf_index /\ cursor_y < Row /\ start = Cell(PromptLen, cursor_y)
    BY <1>10 DEF GetlineBackspace, ConsoleInv, Editing, EchoInv
  <2>2. BackX(cursor_x) = PromptLen + Erase(buf_index) /\ BackX(cursor_x) \in Nat /\ BackX(cursor_x) < Col
    BY <2>1, <1>1, <1>2, Sizes DEF BackX, Erase, ShortLines
  <2>3. cursor_x' = BackX(cursor_x) /\ cursor_y' = cursor_y
    BY <2>1, <2>2, <1>1, <1>10, Sizes, CursorSet DEF GetlineBackspace
  <2>4. pc' = "kprintf" /\ back' = "erased" /\ left' = 1 /\ buf_index' = buf_index /\ start' = start
    BY <1>10 DEF GetlineBackspace, CallKprintf
  <2> QED BY <2>1, <2>2, <2>3, <2>4, <1>2 DEF EchoInv, Printing, Erase
<1>11. CASE GetlineErased
  <2>1. /\ cursor_x = PromptLen + Erase(buf_index) + 1 /\ cursor_y < Row /\ start = Cell(PromptLen, cursor_y)
        /\ pc' = "getline" /\ start' = start /\ buf_index' = Erase(buf_index)
    BY <1>11 DEF GetlineErased, ConsoleInv, Editing, EchoInv, Erase
  <2>2. BackX(cursor_x) = PromptLen + Erase(buf_index) /\ BackX(cursor_x) \in Nat /\ BackX(cursor_x) < Col
    BY <2>1, <1>1, <1>2, Sizes DEF BackX, ShortLines
  <2>3. cursor_x' = BackX(cursor_x) /\ cursor_y' = cursor_y
    BY <2>1, <2>2, <1>1, <1>11, Sizes, CursorSet DEF GetlineErased
  <2> QED BY <2>1, <2>2, <2>3 DEF EchoInv, Printing
<1>12. CASE GetlineEnter
  BY <1>12 DEF GetlineEnter, EchoInv, Printing
<1>13. CASE UNCHANGED vars
  BY <1>13 DEF vars, EchoInv, Printing, Erase
<1> QED BY <1>3, <1>4, <1>5, <1>6, <1>7, <1>8, <1>9, <1>10, <1>11, <1>12, <1>13 DEF Next, Kprintf, Getline

\* When every key has a character, what is echoed after the prompt is what
\* getline has in its buffer.
THEOREM EchoCorrect == ASSUME ShortLines, Echoes = {1} PROVE Spec => []EchoMatchesBuffer
<1>1. Init => EchoInv
  BY DEF Init, EchoInv, Printing
<1>2. ConsoleInv /\ EchoInv /\ [Next]_vars => EchoInv'
  BY EchoStep
<1>3. ConsoleInv /\ EchoInv => EchoMatchesBuffer
  <2> SUFFICES ASSUME ConsoleInv, EchoInv, pc = "getline"
               PROVE  Cell(cursor_x, cursor_y) = start + buf_index
    BY DEF EchoMatchesBuffer
  <2>1. cursor_x = PromptLen + buf_index /\ start = Cell(PromptLen, cursor_y)
    BY DEF EchoInv
  <2>2. buf_index \in Nat /\ cursor_y \in Nat /\ cursor_x \in Nat
    BY DEF ConsoleInv, TypeOK
  <2>3. /\ Cell(cursor_x, cursor_y) = Cell(0, cursor_y) + cursor_x
        /\ Cell(PromptLen, cursor_y) = Cell(0, cursor_y) + PromptLen
        /\ Cell(0, cursor_y) \in Nat
    BY <2>2, Sizes, CellFacts
  <2> QED BY <2>1, <2>2, <2>3, Sizes
<1> QED BY <1>1, <1>2, <1>3, ConsoleInvariant, PTL DEF Spec

-----------------------------------------------------------------------------
\* The shell's parser, which goes on where the console's getline ends.

\* The least element of a set of numbers.
LEMMA LeastOf ==
  ASSUME NEW S, S \subseteq Nat, S # {}
  PROVE  \E x \in S : \A y \in S : x <= y
<1>1. PICK x \in S : \A y \in S : <<y, x>> \notin OpToRel(<, Nat)
  BY WFMin, NatLessThanWellFounded
<1>2. ASSUME NEW y \in S PROVE x <= y
  <2>1. ~(y < x)
    BY <1>1, Zenon DEF OpToRel
  <2> QED BY <2>1
<1> QED BY <1>2

\* A line that fits in the buffer, and a word of it.
IsLine(s) == (\E G : s \in Seq(G)) /\ Len(s) <= CMDLEN
IsWord(s, x, y) ==
  /\ y \in x .. Len(s) /\ \A j \in x .. y : ~Separates(s, j)
  /\ y = Len(s) \/ Separates(s, y + 1)
Earlier(s, x) == {j \in Starts(s) : j < x}

LEMMA LineFacts ==
  ASSUME NEW s, IsLine(s)
  PROVE  Len(s) \in Nat /\ DOMAIN s = 1 .. Len(s) /\ Starts(s) \subseteq 1 .. Len(s)
  BY DEF IsLine, Starts

\* Blanks behind a separator separate too, and what is no blank does not.
LEMMA BlankRun ==
  ASSUME NEW s, NEW a \in Nat \ {0}, NEW b \in Nat, Separates(s, a), \A j \in a .. b : s[j] \in Blank
  PROVE  \A j \in a .. b : Separates(s, j)
<1>1. ASSUME NEW j \in a .. b, j # a PROVE Separates(s, j)
  <2>1. j - 1 \in a .. b
    BY <1>1
  <2> QED BY <1>1, <2>1 DEF Separates, Blank
<1> QED BY <1>1

LEMMA SeparatesBlank == ASSUME NEW s, NEW j, Separates(s, j) PROVE s[j] \in Blank
  BY DEF Separates, Blank

\* The start after a word is behind the blanks after it.
LEMMA NextStart ==
  ASSUME NEW s, IsLine(s), NEW x \in Starts(s), NEW y, IsWord(s, x, y), NEW z \in y + 1 .. Len(s) + 1,
         \A j \in y + 1 .. z - 1 : s[j] \in Blank, z <= Len(s) => s[z] \notin Blank
  PROVE  /\ Earlier(s, z) = Earlier(s, x) \union {x}
         /\ z <= Len(s) => z \in Starts(s)
<1>1. PICK n \in Nat : n = Len(s) /\ DOMAIN s = 1 .. n /\ x \in 1 .. n /\ y \in x .. n /\ z \in y + 1 .. n + 1
  BY LineFacts DEF IsWord
<1>2. \A j \in y + 1 .. z - 1 : Separates(s, j)
  <2>1. CASE y = n
    BY <1>1, <2>1
  <2>2. CASE y # n
    <3>1. Separates(s, y + 1) /\ y + 1 \in Nat \ {0} /\ z - 1 \in Nat
      BY <1>1, <2>2 DEF IsWord
    <3> QED BY <3>1, BlankRun
  <2> QED BY <2>1, <2>2
<1>3. ASSUME NEW j \in Starts(s), j < z, j > x PROVE FALSE
  <2>1. j \in 1 .. n /\ ~Separates(s, j) /\ (j = 1 \/ Separates(s, j - 1))
    BY <1>1 DEF Starts
  <2>2. CASE j <= y
    <3>1. j - 1 \in x .. y /\ j # 1
      BY <1>1, <1>3, <2>1, <2>2
    <3> QED BY <2>1, <3>1 DEF IsWord
  <2>3. CASE j > y
    <3>1. j \in y + 1 .. z - 1
      BY <1>1, <1>3, <2>1, <2>3
    <3> QED BY <1>2, <2>1, <3>1
  <2> QED BY <1>1, <2>1, <2>2, <2>3
<1>4. x < z /\ Starts(s) \subseteq Nat
  BY <1>1, LineFacts
<1>5. Earlier(s, z) = Earlier(s, x) \union {x}
  <2>1. ASSUME NEW j \in Starts(s), j < z PROVE j < x \/ j = x
    BY <1>1, <1>3, <1>4, <2>1
  <2>2. ASSUME NEW j \in Starts(s), j < x \/ j = x PROVE j < z
    BY <1>1, <1>4, <2>2
  <2> QED BY <2>1, <2>2 DEF Earlier
<1>6. ASSUME z <= n PROVE z \in Starts(s)
  <2>1. ~Separates(s, z)
    BY <1>1, <1>6, SeparatesBlank
  <2>2. y # n /\ Separates(s, y + 1)
    BY <1>1, <1>6 DEF IsWord
  <2>3. z # y + 1
    BY <2>1, <2>2
  <2>4. z - 1 \in y + 1 .. z - 1
    BY <1>1, <2>3
  <2> QED BY <1>1, <1>2, <1>6, <2>1, <2>4 DEF Starts
<1> QED BY <1>1, <1>5, <1>6

\* The first start is behind the blanks in front.
LEMMA FirstStart ==
  ASSUME NEW s, IsLine(s), NEW z \in 1 .. Len(s), \A j \in 1 .. z - 1 : s[j] \in Blank, s[z] \notin Blank
  PROVE  Earlier(s, z) = {} /\ z \in Starts(s)
<1>1. PICK n \in Nat : n = Len(s) /\ DOMAIN s = 1 .. n /\ z \in 1 .. n
  BY LineFacts
<1>2. \A j \in 1 .. z - 1 : Separates(s, j)
  <2>1. CASE z = 1
    BY <2>1
  <2>2. CASE z # 1
    <3>1. s[1] \in Blank
      BY <1>1, <2>2
    <3>2. Separates(s, 1)
      BY <3>1 DEF Separates, Blank
    <3>3. 1 \in Nat \ {0} /\ z - 1 \in Nat
      BY <1>1
    <3> QED BY <3>2, <3>3, BlankRun
  <2> QED BY <2>1, <2>2
<1>3. Earlier(s, z) = {}
  BY <1>1, <1>2 DEF Earlier, Starts
<1>4. ~Separates(s, z)
  BY SeparatesBlank
<1>5. z = 1 \/ z - 1 \in 1 .. z - 1
  BY <1>1
<1> QED BY <1>1, <1>2, <1>3, <1>4, <1>5 DEF Starts

\* A start has its number, by the starts before it.
LEMMA Ranks ==
  ASSUME NEW s, IsLine(s)
  PROVE  /\ IsFiniteSet(Starts(s))
         /\ \A x : IsFiniteSet(Earlier(s, x)) /\ Cardinality(Earlier(s, x)) \in Nat
         /\ \A x \in Starts(s) : Cardinality(Earlier(s, x) \union {x}) = Cardinality(Earlier(s, x)) + 1
         /\ \A x \in Starts(s), y \in Starts(s) : Cardinality(Earlier(s, x)) = Cardinality(Earlier(s, y)) => x = y
<1>1. Len(s) \in Nat /\ Starts(s) \subseteq 1 .. Len(s)
  BY LineFacts
<1>2. IsFiniteSet(Starts(s))
  <2>1. IsFiniteSet(1 .. Len(s))
    BY <1>1, FS_Interval
  <2> QED BY <1>1, <2>1, FS_Subset
<1>3. ASSUME NEW x PROVE IsFiniteSet(Earlier(s, x)) /\ Cardinality(Earlier(s, x)) \in Nat
  <2>1. Earlier(s, x) \subseteq Starts(s)
    BY DEF Earlier
  <2> QED BY <1>2, <2>1, FS_Subset, FS_CardinalityType
<1>4. ASSUME NEW x \in Starts(s) PROVE Cardinality(Earlier(s, x) \union {x}) = Cardinality(Earlier(s, x)) + 1
  <2>1. x \notin Earlier(s, x)
    BY <1>1 DEF Earlier
  <2> QED BY <1>3, <2>1, FS_AddElement
<1>5. ASSUME NEW x \in Starts(s), NEW y \in Starts(s), x < y
      PROVE  Cardinality(Earlier(s, x)) # Cardinality(Earlier(s, y))
  <2>1. Earlier(s, x) \union {x} \subseteq Earlier(s, y)
    BY <1>1, <1>5 DEF Earlier
  <2>2. Cardinality(Earlier(s, x) \union {x}) <= Cardinality(Earlier(s, y))
    BY <1>3, <2>1, FS_Subset
  <2> QED BY <1>3, <1>4, <2>2
<1>6. ASSUME NEW x \in Starts(s), NEW y \in Starts(s), Cardinality(Earlier(s, x)) = Cardinality(Earlier(s, y))
      PROVE  x = y
  <2>1. x \in Nat /\ y \in Nat
    BY <1>1
  <2> QED BY <1>5, <1>6, <2>1
<1> QED BY <1>2, <1>3, <1>4, <1>6

LEMMA WordIs ==
  ASSUME NEW s, IsLine(s), NEW x \in Nat, NEW y, IsWord(s, x, y)
  PROVE  WordFrom(s, x) = SubSeq(s, x, y)
<1> DEFINE Ends(e) == (\A j \in x .. e : ~Separates(s, j)) /\ (e = Len(s) \/ Separates(s, e + 1))
<1>1. Len(s) \in Nat /\ y \in x .. Len(s) /\ Ends(y)
  BY LineFacts DEF IsWord
<1>2. ASSUME NEW e \in x .. Len(s), NEW f \in x .. Len(s), Ends(e), Ends(f), e < f PROVE FALSE
  <2>1. e + 1 \in x .. f /\ e # Len(s)
    BY <1>1, <1>2
  <2> QED BY <1>2, <2>1
<1>3. ASSUME NEW e \in x .. Len(s), Ends(e) PROVE e = y
  <2>1. ~(e < y) /\ ~(y < e)
    BY <1>1, <1>2, <1>3
  <2> QED BY <1>1, <2>1
<1>4. WordFrom(s, x) = SubSeq(s, x, CHOOSE e \in x .. Len(s) : Ends(e))
  BY DEF WordFrom
<1> HIDE DEF Ends
<1>5. (CHOOSE e \in x .. Len(s) : Ends(e)) = y
  BY <1>1, <1>3
<1> QED BY <1>4, <1>5

\* A word that stands in a buffer with its end marked: position j of the line
\* is at place j - o - 1.
LEMMA StringIs ==
  ASSUME CMDLEN \in Nat, NEW s, IsLine(s), NEW o \in Nat, NEW x \in o + 1 .. Len(s), NEW y \in x .. Len(s),
         \A j \in DOMAIN s : s[j] # NUL, NEW b, b[y - o] = NUL, \A j \in x .. y : b[j - o - 1] = s[j]
  PROVE  StringAt(b, x - o - 1) = SubSeq(s, x, y)
<1>1. PICK n \in Nat : n = Len(s) /\ DOMAIN s = 1 .. n /\ n <= CMDLEN /\ x \in o + 1 .. n /\ y \in x .. n
  BY LineFacts DEF IsLine
<1>2. PICK p \in Nat : p = x - o - 1
  BY <1>1
<1> DEFINE Ends(e) == b[e] = NUL /\ \A j \in p .. e - 1 : b[j] # NUL
<1>3. ASSUME NEW j \in p .. y - o - 1 PROVE b[j] = s[j + o + 1] /\ b[j] # NUL /\ j + o + 1 \in 1 .. n
  <2>1. j + o + 1 \in x .. y /\ (j + o + 1) - o - 1 = j /\ j + o + 1 \in 1 .. n
    BY <1>1, <1>2
  <2> QED BY <1>1, <2>1
<1>4. y - o \in p .. CMDLEN /\ Ends(y - o)
  BY <1>1, <1>2, <1>3
<1>5. ASSUME NEW e \in p .. CMDLEN, Ends(e) PROVE e = y - o
  <2>1. CASE e < y - o
    <3>1. e \in p .. y - o - 1
      BY <1>1, <1>2, <2>1
    <3> QED BY <1>3, <1>5, <3>1
  <2>2. CASE y - o < e
    <3>1. y - o \in p .. e - 1
      BY <1>1, <1>2, <2>2
    <3> QED BY <1>5, <3>1
  <2> QED BY <1>1, <1>2, <2>1, <2>2
<1>6. StringAt(b, p) = LET end == CHOOSE e \in p .. CMDLEN : Ends(e) IN [g \in 1 .. end - p |-> b[p + g - 1]]
  BY DEF StringAt
<1> HIDE DEF Ends
<1>7. (CHOOSE e \in p .. CMDLEN : Ends(e)) = y - o
  BY <1>4, <1>5
<1>8. PICK N \in Nat : N = y - o - p /\ N = y - x + 1
  BY <1>1, <1>2
<1>9. StringAt(b, p) = [g \in 1 .. N |-> b[p + g - 1]]
  BY <1>6, <1>7, <1>8
<1>10. \A g \in 1 .. N : b[p + g - 1] = s[x + g - 1]
  <2>1. ASSUME NEW g \in 1 .. N PROVE b[p + g - 1] = s[x + g - 1]
    <3>1. p + g - 1 \in p .. y - o - 1 /\ (p + g - 1) + o + 1 = x + g - 1
      BY <1>1, <1>2, <1>8
    <3> QED BY <1>3, <3>1
  <2> QED BY <2>1
<1>11. SubSeq(s, x, y) = [g \in 1 .. N |-> s[x + g - 1]]
  <2>1. PICK G : s \in Seq(G)
    BY DEF IsLine
  <2>2. x \in 1 .. n + 1 /\ y \in x - 1 .. n /\ \A g \in x .. y : s[g] \in G
    BY <1>1, <2>1
  <2>3. /\ SubSeq(s, x, y) \in Seq(G) /\ Len(SubSeq(s, x, y)) = N
        /\ \A g \in 1 .. N : SubSeq(s, x, y)[g] = s[x + g - 1]
    BY <1>1, <1>8, <2>1, <2>2, SubSeqProperties
  <2>4. PICK t : t = SubSeq(s, x, y) /\ t \in Seq(G) /\ Len(t) = N /\ \A g \in 1 .. N : t[g] = s[x + g - 1]
    BY <2>3
  <2>5. t \in [1 .. Len(t) -> G]
    BY <2>4, LenProperties, Zenon
  <2>6. t \in [1 .. N -> G]
    BY <2>4, <2>5, Zenon
  <2> QED BY <2>4, <2>6
<1> QED BY <1>2, <1>9, <1>10, <1>11

-----------------------------------------------------------------------------
ShellTypes ==
  /\ (\E T : todo \in Seq(T)) /\ \A n \in DOMAIN todo : IsLine(todo[n])
  /\ IsLine(typed) /\ args \in 0 .. ARGNUM /\ \E T : argtable \in [0 .. ARGNUM -> T]

\* What shell_parse gets starts behind the blanks in front.
Leading(s, o) ==
  /\ o \in 0 .. Len(s) - 1 /\ s[o + 1] \notin Blank
  /\ \A j \in 1 .. o : s[j] \in Blank

\* The first m pointers of the table are to the first m words, in order.
Table(s, o, m) ==
  \A a \in 0 .. m - 1 : /\ argtable[a] \in Nat /\ argtable[a] + o + 1 \in Starts(s)
                        /\ Cardinality(Earlier(s, argtable[a] + o + 1)) = a

\* The words before place p stand in the buffer, each with its end marked.
Cut(s, o, p, b) ==
  \A x \in Earlier(s, o + 1 + p) :
    \E y \in x .. o + p : /\ IsWord(s, x, y) /\ b[y - o] = NUL
                          /\ \A j \in x .. y : b[j - o - 1] = s[j]

\* The rest of the line stands there as typed.
Uncut(s, o, p, b) ==
  /\ p \in 0 .. Len(s) - o /\ b[Len(s) - o] = NUL
  /\ \A j \in p .. Len(s) - o - 1 : b[j] = s[o + 1 + j]
  /\ p < Len(s) - o => o + 1 + p \in Starts(s) /\ s[o + 1 + p] \notin Blank

\* The inductive invariant of ArgsRight.
ArgsInv ==
  /\ ShellTypes
  /\ ~Void(typed) =>
       /\ shell_pc \in {"parse", "args", "exec"} => Leading(typed, input)
       /\ shell_pc = "parse" => mem[Len(typed)] = NUL /\ \A j \in input .. Len(typed) - 1 : mem[j] = typed[j + 1]
       /\ shell_pc = "args" => /\ Uncut(typed, input, ccp, sc) /\ Cut(typed, input, ccp, sc)
                               /\ args = Cardinality(Earlier(typed, input + 1 + ccp)) /\ Table(typed, input, args)
       /\ shell_pc = "exec" => /\ argc = Cardinality(Starts(typed)) /\ Table(typed, input, argc) /\ argtable[argc] = NULL
                               /\ Cut(typed, input, Len(typed) - input, sc)

LEMMA ShellConsts == CMDLEN \in Nat /\ ARGNUM \in Nat
  BY ShellAssumption

\* The first place of a kind, from p on.
LEMMA FirstPlace ==
  ASSUME NEW p \in Nat, NEW r \in Nat, p <= r, NEW S, r \in S
  PROVE  \E d \in Nat : /\ p <= d /\ d <= r /\ d \in S /\ \A j \in p .. d - 1 : j \notin S
                        /\ \A f \in Nat : p <= f /\ f \in S /\ (\A j \in p .. f - 1 : j \notin S) => f = d
<1> DEFINE Q == {j \in p .. r : j \in S}
<1>1. Q \subseteq Nat /\ r \in Q
  OBVIOUS
<1>2. PICK d \in Q : \A j \in Q : d <= j
  BY <1>1, LeastOf, Zenon
<1>3. d \in Nat /\ p <= d /\ d <= r /\ d \in S
  BY <1>2
<1>4. ASSUME NEW j \in p .. d - 1, j \in S PROVE FALSE
  <2>1. j \in Q /\ j < d /\ j \in Nat
    BY <1>3, <1>4
  <2> QED BY <1>2, <1>3, <2>1
<1>5. ASSUME NEW f \in Nat, p <= f, f \in S, \A j \in p .. f - 1 : j \notin S PROVE f = d
  <2>1. ~(f < d)
    BY <1>3, <1>4, <1>5
  <2>2. ~(d < f)
    BY <1>3, <1>5
  <2> QED BY <1>3, <2>1, <2>2
<1> QED BY <1>3, <1>4, <1>5

\* The argument at p and the blanks behind it.
LEMMA ArgEnds ==
  ASSUME NEW s, IsLine(s), \A j \in DOMAIN s : s[j] # NUL, NEW o \in Nat, Leading(s, o),
         NEW p \in Nat, Uncut(s, o, p, sc), sc[p] # NUL
  PROVE  \E e \in Nat, q \in Nat :
           /\ e = ArgEnd(p) /\ q = BlankEnd(e)
           /\ p < e /\ e <= q /\ q <= Len(s) - o
           /\ o + 1 + p \in Starts(s) /\ IsWord(s, o + 1 + p, o + e)
           /\ e = q => sc[e] = NUL
           /\ \A j \in o + 1 + e .. o + q : s[j] \in Blank
           /\ q < Len(s) - o => s[o + 1 + q] \notin Blank
<1>1. PICK n \in Nat : /\ n = Len(s) /\ DOMAIN s = 1 .. n /\ n <= CMDLEN /\ CMDLEN \in Nat
                       /\ o \in 0 .. n - 1
  BY LineFacts, ShellConsts DEF IsLine, Leading
<1>2. PICK r \in Nat : r = n - o /\ r <= CMDLEN
  <2>1. n - o \in Nat /\ n - o <= CMDLEN
    BY <1>1
  <2> QED BY <2>1
<1>3. /\ p \in 0 .. r /\ sc[r] = NUL /\ \A j \in p .. r - 1 : sc[j] = s[o + 1 + j] /\ sc[j] # NUL
      /\ p < r /\ o + 1 + p \in Starts(s) /\ s[o + 1 + p] \notin Blank /\ o + 1 + r = n + 1
  <2>1. /\ p \in 0 .. r /\ sc[r] = NUL /\ \A j \in p .. r - 1 : sc[j] = s[o + 1 + j]
        /\ p < r => o + 1 + p \in Starts(s) /\ s[o + 1 + p] \notin Blank
    BY <1>1, <1>2 DEF Uncut
  <2>2. p < r
    BY <2>1
  <2>3. ASSUME NEW j \in p .. r - 1 PROVE o + 1 + j \in 1 .. n
    BY <1>1, <1>2, <2>1
  <2> QED BY <1>1, <1>2, <2>1, <2>2, <2>3
<1> DEFINE Ends(e) == sc[e] = NUL \/ sc[e] = "\t" \/ (sc[e] = " " /\ (e = 0 \/ sc[e - 1] # "\\"))
<1>4. PICK e \in Nat : p <= e /\ e <= r /\ e = ArgEnd(p) /\ Ends(e) /\ \A j \in p .. e - 1 : ~Ends(j)
  <2>1. Ends(r)
    BY <1>3
  <2>2. ArgEnd(p) = CHOOSE f \in p .. CMDLEN : Ends(f) /\ \A j \in p .. f - 1 : ~Ends(j)
    BY DEF ArgEnd
  <2> HIDE DEF Ends
  <2>8. PICK S : S = {j \in Nat : Ends(j)}
    OBVIOUS
  <2>3. p <= r /\ r \in S
    BY <1>3, <2>1, <2>8
  <2>4. PICK d \in Nat : /\ p <= d /\ d <= r /\ d \in S /\ \A j \in p .. d - 1 : j \notin S
                         /\ \A f \in Nat : p <= f /\ f \in S /\ (\A j \in p .. f - 1 : j \notin S) => f = d
    <3>1. p \in Nat /\ r \in Nat /\ p <= r /\ r \in S
      BY <2>3
    <3>2. PICK a \in Nat, b \in Nat : a = p /\ b = r
      BY <3>1
    <3>3. a <= b /\ b \in S
      BY <3>1, <3>2
    <3>4. \E d \in Nat : /\ a <= d /\ d <= b /\ d \in S /\ \A j \in a .. d - 1 : j \notin S
                         /\ \A f \in Nat : a <= f /\ f \in S /\ (\A j \in a .. f - 1 : j \notin S) => f = d
      BY <3>3, FirstPlace
    <3> QED BY <3>2, <3>4, Zenon
  <2>5. Ends(d) /\ \A j \in p .. d - 1 : ~Ends(j)
    BY <2>4, <2>8
  <2>6. ASSUME NEW f \in p .. CMDLEN, Ends(f), \A j \in p .. f - 1 : ~Ends(j) PROVE f = d
    BY <1>1, <2>4, <2>6, <2>8
  <2>7. d \in p .. CMDLEN
    BY <1>1, <1>2, <2>4
  <2> QED BY <2>2, <2>4, <2>5, <2>6, <2>7
<1>5. p < e
  <2>1. ~Ends(p)
    <3>1. sc[p] = s[o + 1 + p] /\ sc[p] # NUL
      BY <1>3
    <3> QED BY <1>3, <3>1 DEF Blank
  <2> HIDE DEF Ends
  <2>2. e # p /\ p <= e
    BY <1>4, <2>1
  <2> QED BY <2>2
<1>12. p <= e /\ e <= r /\ p < e
  BY <1>4, <1>5
<1>6. IsWord(s, o + 1 + p, o + e)
  <2>1. o + e \in o + 1 + p .. n
    BY <1>1, <1>2, <1>12
  <2>2. ASSUME NEW j \in o + 1 + p .. o + e, Separates(s, j) PROVE FALSE
    <3>1. PICK c \in p .. e - 1 : c \in p .. r - 1 /\ o + 1 + c = j
      <4>1. j - o - 1 \in p .. e - 1 /\ j - o - 1 \in p .. r - 1 /\ o + 1 + (j - o - 1) = j
        BY <1>1, <1>2, <1>12
      <4> QED BY <4>1
    <3>2. sc[c] = s[j] /\ ~Ends(c)
      BY <1>3, <1>4, <3>1
    <3>3. c # p
      BY <1>3, <2>2, <3>1, SeparatesBlank
    <3>4. c - 1 \in p .. r - 1 /\ o + 1 + (c - 1) = j - 1 /\ j # 1
      BY <1>1, <1>3, <3>1, <3>3
    <3>5. sc[c - 1] = s[j - 1]
      BY <1>3, <3>4
    <3> QED BY <2>2, <3>2, <3>4, <3>5 DEF Separates
  <2>3. ASSUME e # r PROVE Separates(s, o + e + 1)
    <3>1. e \in p .. r - 1 /\ e - 1 \in p .. r - 1 /\ o + 1 + e = o + e + 1 /\ o + 1 + (e - 1) = (o + e + 1) - 1
      <4>1. e < r
        BY <1>12, <2>3
      <4> QED BY <1>12, <4>1
    <3>2. sc[e] = s[o + e + 1] /\ sc[e] # NUL /\ sc[e - 1] = s[(o + e + 1) - 1] /\ e # 0
      BY <1>3, <1>5, <3>1
    <3> QED BY <1>4, <3>2 DEF Separates
  <2>4. e = r => o + e = n
    BY <1>1, <1>2
  <2> QED BY <1>1, <2>1, <2>2, <2>3, <2>4 DEF IsWord
<1>7. PICK q \in Nat : e <= q /\ q <= r /\ q = BlankEnd(e) /\ sc[q] \notin Blank /\ \A j \in e .. q - 1 : sc[j] \in Blank
  <2> DEFINE S == {j \in Nat : sc[j] \notin Blank}
  <2>1. e <= r /\ r \in S
    BY <1>3, <1>12 DEF NUL, Blank
  <2>2. PICK d \in Nat : /\ e <= d /\ d <= r /\ d \in S /\ \A j \in e .. d - 1 : j \notin S
                         /\ \A f \in Nat : e <= f /\ f \in S /\ (\A j \in e .. f - 1 : j \notin S) => f = d
    <3> HIDE DEF S
    <3> QED BY <2>1, FirstPlace, ZenonT(30)
  <2>3. sc[d] \notin Blank /\ \A j \in e .. d - 1 : sc[j] \in Blank
    BY <2>2
  <2>4. ASSUME NEW f \in e .. CMDLEN, sc[f] \notin Blank, \A j \in e .. f - 1 : sc[j] \in Blank PROVE f = d
    BY <1>1, <2>2, <2>4
  <2>5. d \in e .. CMDLEN
    BY <1>1, <1>2, <2>2
  <2> QED BY <2>2, <2>3, <2>4, <2>5 DEF BlankEnd
<1>8. e = q => sc[e] = NUL
  BY <1>4, <1>7 DEF Blank
<1>9. ASSUME NEW j \in o + 1 + e .. o + q PROVE s[j] \in Blank
  <2>1. PICK c \in e .. q - 1 : c \in p .. r - 1 /\ o + 1 + c = j
    <3>1. j - o - 1 \in e .. q - 1 /\ j - o - 1 \in p .. r - 1 /\ o + 1 + (j - o - 1) = j
      BY <1>1, <1>2, <1>7, <1>12
    <3> QED BY <3>1
  <2> QED BY <1>3, <1>7, <2>1
<1>10. q < r => s[o + 1 + q] \notin Blank
  BY <1>3, <1>5, <1>7
<1>11. q \in Nat /\ e <= q /\ q <= Len(s) - o /\ (q < Len(s) - o <=> q < r)
  BY <1>1, <1>2, <1>5, <1>7
<1> QED BY <1>3, <1>4, <1>5, <1>6, <1>7, <1>8, <1>9, <1>10, <1>11

\* One round of shell_gen_args.
LEMMA ArgStep ==
  ASSUME ArgsInv, gen_arg, ~Void(typed)
  PROVE  /\ Uncut(typed, input, ccp', sc') /\ Cut(typed, input, ccp', sc')
         /\ args' = Cardinality(Earlier(typed, input + 1 + ccp'))
         /\ \A a \in 0 .. args' - 1 : /\ argtable'[a] \in Nat /\ argtable'[a] + input + 1 \in Starts(typed)
                                      /\ Cardinality(Earlier(typed, argtable'[a] + input + 1)) = a
<1>1. PICK s, o : s = typed /\ o = input
  OBVIOUS
<1>2. IsLine(s) /\ Leading(s, o) /\ \A j \in DOMAIN s : s[j] # NUL
  BY <1>1 DEF ArgsInv, ShellTypes, gen_arg, Void
<1>3. PICK n \in Nat : n = Len(s) /\ DOMAIN s = 1 .. n /\ n <= CMDLEN /\ CMDLEN \in Nat /\ o \in 0 .. n - 1 /\ o \in Nat
  BY <1>2, LineFacts, ShellConsts DEF IsLine, Leading
<1>4. PICK p \in Nat : /\ p = ccp /\ Uncut(s, o, p, sc) /\ Cut(s, o, p, sc) /\ sc[p] # NUL
                       /\ args = Cardinality(Earlier(s, o + 1 + p)) /\ Table(s, o, args)
  BY <1>1, <1>3 DEF ArgsInv, gen_arg, Uncut
<1>5. PICK e \in Nat, q \in Nat :
           /\ e = ArgEnd(p) /\ q = BlankEnd(e)
           /\ p < e /\ e <= q /\ q <= n - o
           /\ o + 1 + p \in Starts(s) /\ IsWord(s, o + 1 + p, o + e)
           /\ e = q => sc[e] = NUL
           /\ \A j \in o + 1 + e .. o + q : s[j] \in Blank
           /\ q < n - o => s[o + 1 + q] \notin Blank
  BY <1>2, <1>3, <1>4, ArgEnds
<1>15. p < e /\ e <= q /\ q <= n - o
  BY <1>5
<1>6. /\ ccp' = q /\ args' = args + 1 /\ argtable' = [argtable EXCEPT ![args] = p] /\ args < ARGNUM
      /\ sc' = [j \in Places |-> IF j \in e .. q - 1 THEN NUL ELSE sc[j]]
  BY <1>4, <1>5 DEF gen_arg
<1>7. PICK x \in Nat, y \in Nat, z \in Nat : x = o + 1 + p /\ y = o + e /\ z = o + 1 + q
  BY <1>3
<1>8. /\ x \in Starts(s) /\ IsWord(s, x, y) /\ z \in y + 1 .. n + 1 /\ (\A j \in y + 1 .. z - 1 : s[j] \in Blank)
      /\ z <= n => s[z] \notin Blank
  <2>2. e <= q /\ q <= n - o
    BY <1>5
  <2>1. y + 1 = o + 1 + e /\ z - 1 = o + q /\ z \in y + 1 .. n + 1 /\ (z <= n => q < n - o)
    BY <1>3, <1>7, <2>2
  <2> QED BY <1>5, <1>7, <2>1
<1>9. Earlier(s, z) = Earlier(s, x) \union {x} /\ (z <= n => z \in Starts(s))
  BY <1>2, <1>3, <1>8, NextStart
<1>10. /\ \A j \in Places : j \notin e .. q - 1 => sc'[j] = sc[j]
       /\ \A j \in Places : j \in e .. q - 1 => sc'[j] = NUL
  BY <1>6
<1>11. Uncut(s, o, q, sc')
  <2>1. q \in 0 .. n - o /\ n - o \in Places /\ n - o \notin e .. q - 1
    BY <1>3, <1>5 DEF Places
  <2>2. sc'[n - o] = NUL
    BY <1>3, <1>4, <1>10, <2>1 DEF Uncut
  <2>3. ASSUME NEW j \in q .. n - o - 1 PROVE sc'[j] = s[o + 1 + j]
    <3>1. j \in Places /\ j \notin e .. q - 1 /\ j \in p .. n - o - 1
      BY <1>3, <1>5, <2>1 DEF Places
    <3> QED BY <1>3, <1>4, <1>10, <3>1 DEF Uncut
  <2>4. q < n - o => o + 1 + q \in Starts(s) /\ s[o + 1 + q] \notin Blank
    <3>1. q < n - o => z <= n
      BY <1>3, <1>7
    <3> QED BY <1>7, <1>8, <1>9, <3>1
  <2> QED BY <1>3, <2>1, <2>2, <2>3, <2>4 DEF Uncut
<1>12. Cut(s, o, q, sc')
  <2>1. SUFFICES ASSUME NEW w \in Earlier(s, z)
                 PROVE  \E v \in w .. o + q : /\ IsWord(s, w, v) /\ sc'[v - o] = NUL
                                              /\ \A j \in w .. v : sc'[j - o - 1] = s[j]
    BY <1>7 DEF Cut
  <2>2. CASE w = x
    <3>1. y \in w .. o + q /\ y - o = e /\ e \in Places
      BY <1>3, <1>15, <1>7, <2>2 DEF Places
    <3>2. sc'[e] = NUL
      <4>1. CASE e = q
        <5>1. e \notin e .. q - 1
          BY <4>1
        <5> QED BY <1>5, <1>10, <3>1, <4>1, <5>1
      <4>2. CASE e # q
        <5>1. e \in e .. q - 1
          BY <1>5, <4>2
        <5> QED BY <1>10, <3>1, <5>1
      <4> QED BY <4>1, <4>2
    <3>3. ASSUME NEW j \in w .. y PROVE sc'[j - o - 1] = s[j]
      <4>1. PICK c \in Nat : c \in p .. n - o - 1 /\ c \in Places /\ c \notin e .. q - 1 /\ c = j - o - 1 /\ o + 1 + c = j
        <5>1. /\ j - o - 1 \in p .. n - o - 1 /\ j - o - 1 \in 0 .. CMDLEN /\ j - o - 1 < e /\ o + 1 + (j - o - 1) = j
              /\ j - o - 1 \in Nat
          BY <1>3, <1>15, <1>7, <2>2
        <5>2. j - o - 1 \notin e .. q - 1
          BY <5>1
        <5> QED BY <5>1, <5>2 DEF Places
      <4> QED BY <1>3, <1>4, <1>10, <4>1 DEF Uncut
    <3> QED BY <1>8, <2>2, <3>1, <3>2, <3>3
  <2>3. CASE w \in Earlier(s, x)
    <3>1. w \in Starts(s) /\ w \in Nat
      BY <1>2, <1>3, <2>3, LineFacts DEF Earlier
    <3>2. PICK v \in w .. o + p : /\ IsWord(s, w, v) /\ sc[v - o] = NUL
                                  /\ \A j \in w .. v : sc[j - o - 1] = s[j]
      BY <1>4, <1>7, <2>3 DEF Cut
    <3>3. w > o
      <4>1. Earlier(s, o + 1) = {}
        <5>1. o + 1 \in 1 .. Len(s) /\ (o + 1) - 1 = o
          BY <1>3
        <5> QED BY <1>2, <5>1, FirstStart DEF Leading
      <4>2. ~(w < o + 1)
        BY <3>1, <4>1 DEF Earlier
      <4> QED BY <1>3, <3>1, <4>2
    <3>4. v \in w .. o + q /\ v - o \in 0 .. CMDLEN /\ v - o < e
      BY <1>3, <1>15, <3>1, <3>2, <3>3
    <3>5. sc'[v - o] = NUL
      <4>1. v - o \in Places /\ v - o \notin e .. q - 1
        BY <1>5, <3>4 DEF Places
      <4> QED BY <1>10, <3>2, <4>1
    <3>6. ASSUME NEW j \in w .. v PROVE sc'[j - o - 1] = s[j]
      <4>3. CMDLEN \in Nat /\ o \in Nat /\ w \in Nat /\ w > o /\ v \in Int /\ v - o <= CMDLEN /\ v - o < e
        BY <1>3, <3>1, <3>3, <3>4
      <4>1. j - o - 1 \in 0 .. CMDLEN /\ j - o - 1 < e
        BY <4>3
      <4>2. j - o - 1 \in Places /\ j - o - 1 \notin e .. q - 1
        BY <1>5, <4>1 DEF Places
      <4> QED BY <1>10, <3>2, <4>2
    <3> QED BY <3>2, <3>4, <3>5, <3>6
  <2> QED BY <1>9, <2>1, <2>2, <2>3
<1>13. args \in Nat /\ args' = Cardinality(Earlier(s, z))
  BY <1>2, <1>4, <1>6, <1>7, <1>8, <1>9, Ranks
<1>14. ASSUME NEW a \in 0 .. args' - 1
       PROVE  /\ argtable'[a] \in Nat /\ argtable'[a] + o + 1 \in Starts(s)
              /\ Cardinality(Earlier(s, argtable'[a] + o + 1)) = a
  <2>1. (\E T : argtable \in [0 .. ARGNUM -> T]) /\ ARGNUM \in Nat
    BY ShellConsts DEF ArgsInv, ShellTypes
  <2>2. CASE a = args
    <3>1. argtable'[a] = p
      BY <1>6, <1>13, <2>1, <2>2
    <3>2. p + o + 1 = x
      BY <1>3, <1>7
    <3> QED BY <1>4, <1>7, <1>8, <2>2, <3>1, <3>2
  <2>3. CASE a # args
    <3>1. a \in 0 .. args - 1
      BY <1>6, <1>13, <2>3
    <3>2. argtable'[a] = argtable[a]
      BY <1>6, <1>13, <2>1, <2>3, <3>1
    <3> QED BY <1>4, <3>1, <3>2 DEF Table
  <2> QED BY <2>2, <2>3
<1> QED BY <1>1, <1>6, <1>7, <1>11, <1>12, <1>13, <1>14

LEMMA TypesStep ==
  ASSUME ShellTypes, getline
  PROVE  (\E T : todo' \in Seq(T)) /\ (\A n \in DOMAIN todo' : IsLine(todo'[n])) /\ IsLine(typed')
<1>1. PICK T : todo \in Seq(T)
  BY DEF ShellTypes
<1>2. todo # <<>> /\ typed' = Head(todo) /\ todo' = Tail(todo)
  BY DEF getline
<1>3. /\ Head(todo) = todo[1] /\ 1 \in DOMAIN todo /\ Tail(todo) \in Seq(T)
      /\ \A n \in DOMAIN Tail(todo) : n + 1 \in DOMAIN todo /\ Tail(todo)[n] = todo[n + 1]
  BY <1>1, <1>2
<1> QED BY <1>2, <1>3 DEF ShellTypes

\* The end of getline.
LEMMA LineStep ==
  ASSUME ShellTypes, getline, ~Void(typed')
  PROVE  /\ Leading(typed', input') /\ mem'[Len(typed')] = NUL
         /\ \A j \in input' .. Len(typed') - 1 : mem'[j] = typed'[j + 1]
<1>1. PICK s, m : s = typed' /\ m = mem
  OBVIOUS
<1>2. IsLine(s) /\ (\E k \in DOMAIN s : s[k] \notin Blank)
  BY <1>1, TypesStep DEF Void
<1>3. PICK n \in Nat : n = Len(s) /\ DOMAIN s = 1 .. n /\ n <= CMDLEN /\ CMDLEN \in Nat
  BY <1>2, LineFacts, ShellConsts DEF IsLine
<1>4. PICK over : over = [j \in Places |-> IF j < n THEN s[j + 1] ELSE m[j]]
  OBVIOUS
<1>5. /\ input' = CHOOSE k \in Places : over[k] \notin Blank /\ \A j \in 0 .. k - 1 : over[j] \in Blank
      /\ mem' = [over EXCEPT ![n] = NUL]
  BY <1>1, <1>3, <1>4 DEF getline
<1>6. \A j \in 0 .. n - 1 : over[j] = s[j + 1]
  BY <1>3, <1>4 DEF Places
<1>7. PICK r \in Nat : r < n /\ over[r] \notin Blank
  <2>1. PICK k \in 1 .. n : s[k] \notin Blank
    BY <1>2, <1>3
  <2>2. k - 1 \in Nat /\ k - 1 < n /\ k - 1 \in 0 .. n - 1 /\ (k - 1) + 1 = k
    BY <1>3
  <2> QED BY <1>6, <2>1, <2>2
<1>8. PICK S : S = {j \in Nat : over[j] \notin Blank}
  OBVIOUS
<1>9. PICK d \in Nat : /\ 0 <= d /\ d <= r /\ d \in S /\ \A j \in 0 .. d - 1 : j \notin S
                       /\ \A f \in Nat : 0 <= f /\ f \in S /\ (\A j \in 0 .. f - 1 : j \notin S) => f = d
  <2>1. 0 \in Nat /\ 0 <= r /\ r \in S
    BY <1>7, <1>8
  <2> QED BY <2>1, FirstPlace
<1>10. d < n /\ d \in Places
  BY <1>3, <1>7, <1>9 DEF Places
<1>11. input' = d
  <2>1. over[d] \notin Blank /\ \A j \in 0 .. d - 1 : over[j] \in Blank
    BY <1>8, <1>9
  <2>2. ASSUME NEW f \in Places, over[f] \notin Blank, \A j \in 0 .. f - 1 : over[j] \in Blank PROVE f = d
    <3>1. f \in Nat /\ 0 <= f
      BY <1>3 DEF Places
    <3> QED BY <1>8, <1>9, <2>2, <3>1
  <2> QED BY <1>5, <1>10, <2>1, <2>2
<1>12. Leading(s, d)
  <2>1. s[d + 1] \notin Blank
    BY <1>6, <1>8, <1>9, <1>10
  <2>2. ASSUME NEW j \in 1 .. d PROVE s[j] \in Blank
    <3>1. j - 1 \in 0 .. d - 1 /\ j - 1 \in 0 .. n - 1 /\ (j - 1) + 1 = j /\ j - 1 \in Nat
      BY <1>10
    <3> QED BY <1>6, <1>8, <1>9, <3>1
  <2>3. d \in 0 .. n - 1
    BY <1>10
  <2> QED BY <1>3, <2>1, <2>2, <2>3 DEF Leading
<1>13. mem'[n] = NUL /\ \A j \in d .. n - 1 : mem'[j] = s[j + 1]
  <2>1. n \in Places /\ DOMAIN over = Places
    BY <1>3, <1>4 DEF Places
  <2>2. ASSUME NEW j \in d .. n - 1 PROVE j \in Places /\ j # n /\ j \in 0 .. n - 1
    BY <1>3 DEF Places
  <2> QED BY <1>5, <1>6, <2>1, <2>2
<1> QED BY <1>1, <1>3, <1>11, <1>12, <1>13

\* shell_gen_args starts with the line as typed.
LEMMA CopyStep ==
  ASSUME ArgsInv, shell_parse, ~Void(typed)
  PROVE  /\ Uncut(typed, input, 0, sc') /\ Earlier(typed, input + 1) = {}
<1>1. PICK s, o : s = typed /\ o = input
  OBVIOUS
<1>2. /\ IsLine(s) /\ Leading(s, o) /\ (\A j \in DOMAIN s : s[j] # NUL)
      /\ mem[Len(s)] = NUL /\ \A j \in o .. Len(s) - 1 : mem[j] = s[j + 1]
  BY <1>1 DEF ArgsInv, ShellTypes, shell_parse, Void
<1>3. PICK n \in Nat : n = Len(s) /\ DOMAIN s = 1 .. n /\ n <= CMDLEN /\ CMDLEN \in Nat /\ o \in 0 .. n - 1 /\ o \in Nat
  BY <1>2, LineFacts, ShellConsts DEF IsLine, Leading
<1>4. Earlier(s, o + 1) = {} /\ o + 1 \in Starts(s)
  <2>1. o + 1 \in 1 .. Len(s) /\ (o + 1) - 1 = o
    BY <1>3
  <2> QED BY <1>2, <2>1, FirstStart DEF Leading
<1>5. PICK t : t = SubSeq(s, o + 1, n) /\ t = StringAt(mem, o)
  <2>1. PICK x \in Nat : x = o + 1
    BY <1>3
  <2>2. x \in 0 + 1 .. Len(s) /\ n \in x .. Len(s) /\ mem[n - 0] = NUL /\ x - 0 - 1 = o /\ 0 \in Nat
    BY <1>2, <1>3, <2>1
  <2>3. ASSUME NEW j \in x .. n PROVE mem[j - 0 - 1] = s[j]
    <3>1. j - 0 - 1 \in o .. n - 1 /\ (j - 0 - 1) + 1 = j
      BY <1>3, <2>1
    <3> QED BY <1>2, <1>3, <3>1
  <2>4. StringAt(mem, x - 0 - 1) = SubSeq(s, x, n)
    BY <1>2, <1>3, <2>2, <2>3, StringIs
  <2> QED BY <2>1, <2>2, <2>4
<1>6. Len(t) = n - o /\ \A j \in 1 .. n - o : t[j] = s[o + j]
  <2>1. PICK G : s \in Seq(G)
    BY <1>2 DEF IsLine
  <2>2. o + 1 \in 1 .. n + 1 /\ n \in (o + 1) - 1 .. n /\ n - (o + 1) + 1 = n - o /\ \A g \in o + 1 .. n : s[g] \in G
    BY <1>3, <2>1
  <2>3. /\ Len(SubSeq(s, o + 1, n)) = n - (o + 1) + 1
        /\ \A g \in 1 .. n - (o + 1) + 1 : SubSeq(s, o + 1, n)[g] = s[(o + 1) + g - 1]
    BY <1>3, <2>1, <2>2, SubSeqProperties
  <2>4. \A g \in 1 .. n - o : (o + 1) + g - 1 = o + g
    BY <1>3
  <2> QED BY <1>5, <2>2, <2>3, <2>4
<1>7. sc' = strcpy(sc, 0, t)
  BY <1>1, <1>5 DEF shell_parse
<1>8. Uncut(s, o, 0, sc')
  <2>1. n - o \in Places /\ n - o \notin 0 .. 0 + (n - o) - 1 /\ 0 \in 0 .. n - o /\ n - o = 0 + (n - o)
    BY <1>3 DEF Places
  <2>2. sc'[n - o] = NUL
    BY <1>6, <1>7, <2>1 DEF strcpy
  <2>3. ASSUME NEW j \in 0 .. n - o - 1 PROVE sc'[j] = s[o + 1 + j]
    <3>1. j \in Places /\ j \in 0 .. 0 + (n - o) - 1 /\ j - 0 + 1 \in 1 .. n - o /\ o + (j - 0 + 1) = o + 1 + j
      BY <1>3 DEF Places
    <3> QED BY <1>6, <1>7, <3>1 DEF strcpy
  <2>4. o + 1 + 0 = o + 1
    BY <1>3
  <2> QED BY <1>2, <1>3, <1>4, <2>1, <2>2, <2>3, <2>4 DEF Uncut, Leading
<1> QED BY <1>1, <1>4, <1>8

\* shell_gen_args ends at the end of the line.
LEMMA DoneStep ==
  ASSUME ArgsInv, gen_done, ~Void(typed)
  PROVE  args = Cardinality(Starts(typed)) /\ Cut(typed, input, Len(typed) - input, sc)
<1>1. PICK s, o : s = typed /\ o = input
  OBVIOUS
<1>2. IsLine(s) /\ Leading(s, o) /\ \A j \in DOMAIN s : s[j] # NUL
  BY <1>1 DEF ArgsInv, ShellTypes, gen_done, Void
<1>3. PICK n \in Nat : n = Len(s) /\ DOMAIN s = 1 .. n /\ o \in 0 .. n - 1 /\ o \in Nat
  BY <1>2, LineFacts DEF Leading
<1>4. PICK p \in Nat : /\ p = ccp /\ Uncut(s, o, p, sc) /\ Cut(s, o, p, sc) /\ sc[p] = NUL
                       /\ args = Cardinality(Earlier(s, o + 1 + p))
  BY <1>1, <1>3 DEF ArgsInv, gen_done, Uncut
<1>5. p = n - o
  <2>1. p \in 0 .. n - o
    BY <1>3, <1>4 DEF Uncut
  <2>2. ASSUME p < n - o PROVE FALSE
    <3>1. p \in p .. n - o - 1 /\ o + 1 + p \in 1 .. n
      BY <1>3, <2>2
    <3> QED BY <1>2, <1>3, <1>4, <3>1 DEF Uncut
  <2> QED BY <1>3, <2>1, <2>2
<1>6. Earlier(s, o + 1 + p) = Starts(s)
  <2>1. o + 1 + p = n + 1 /\ Starts(s) \subseteq 1 .. n
    BY <1>2, <1>3, <1>5, LineFacts
  <2> QED BY <2>1 DEF Earlier
<1> QED BY <1>1, <1>3, <1>4, <1>5, <1>6

\* Every other step is back at getline, or never.
LEMMA OtherStep ==
  ASSUME shell_parse_empty \/ gen_too_many \/ ShellCommand
  PROVE  shell_pc' \in {"getline", "left"} /\ UNCHANGED <<todo, typed, args, argtable>>
<1> USE DEF Back, Usage, Calls, Leave, argVars, inputVars
<1>1. CASE shell_parse_empty \/ gen_too_many
  BY <1>1 DEF shell_parse_empty, gen_too_many
<1>2. CASE shell_exec_unknown \/ cmd_help \/ cmd_ls
  BY <1>2 DEF shell_exec_unknown, cmd_help, cmd_ls
<1>3. CASE cmd_cd \/ cmd_rmdrv \/ cmd_clear \/ cmd_ppart \/ cmd_lsdrv
  BY <1>3 DEF cmd_cd, cmd_rmdrv, cmd_clear, cmd_ppart, cmd_lsdrv, Plain
<1>4. CASE cmd_reboot \/ cmd_chload \/ cmd_dump_hangs
  BY <1>4 DEF cmd_reboot, cmd_chload, cmd_dump_hangs
<1>5. CASE cmd_more
  BY <1>5 DEF cmd_more
<1>6. CASE cmd_load_partition \/ cmd_load_other
  BY <1>6 DEF cmd_load_partition, cmd_load_other
<1>7. CASE cmd_load
  BY <1>7 DEF cmd_load
<1>8. CASE cmd_ldmod \/ cmd_root
  BY <1>8 DEF cmd_ldmod, cmd_root
<1>9. CASE cmd_dump
  BY <1>9 DEF cmd_dump
<1> QED BY <1>1, <1>2, <1>3, <1>4, <1>5, <1>6, <1>7, <1>8, <1>9 DEF ShellCommand

LEMMA ArgsInitially == ASSUME ShellInit PROVE ArgsInv
<1>1. todo \in Sessions /\ typed = <<>> /\ shell_pc = "getline" /\ args = 0 /\ argtable = [k \in 0 .. ARGNUM |-> NULL]
  BY DEF ShellInit
<1>2. (\E T : todo \in Seq(T)) /\ \A n \in DOMAIN todo : IsLine(todo[n])
  <2>1. /\ todo \in Seq(Range(todo))
        /\ \A k \in DOMAIN todo : todo[k] \in Seq(Range(todo[k])) /\ Len(todo[k]) <= CMDLEN
    BY <1>1, ShellAssumption
  <2> QED BY <2>1 DEF IsLine
<1>3. IsLine(typed)
  <2>1. <<>> \in Seq({}) /\ Len(<<>>) = 0 /\ CMDLEN \in Nat
    BY ShellConsts
  <2> QED BY <1>1, <2>1 DEF IsLine
<1>4. args \in 0 .. ARGNUM /\ argtable \in [0 .. ARGNUM -> {NULL}]
  BY <1>1, ShellConsts
<1> QED BY <1>1, <1>2, <1>3, <1>4 DEF ArgsInv, ShellTypes

LEMMA ArgsStep == ASSUME ArgsInv, [ShellNext]_shellVars PROVE ArgsInv'
<1> USE DEF inputVars, argVars
<1>t. PICK T : argtable \in [0 .. ARGNUM -> T] /\ args \in 0 .. ARGNUM /\ ARGNUM \in Nat
  BY ShellConsts DEF ArgsInv, ShellTypes
<1>1. CASE getline
  <2>1. ShellTypes'
    <3>1. UNCHANGED <<args, argtable>>
      BY <1>1 DEF getline
    <3> QED BY <1>1, <1>t, <3>1, TypesStep DEF ArgsInv, ShellTypes
  <2>2. shell_pc' = "parse"
    BY <1>1 DEF getline
  <2>3. ~Void(typed') => /\ Leading(typed', input') /\ mem'[Len(typed')] = NUL
                         /\ \A j \in input' .. Len(typed') - 1 : mem'[j] = typed'[j + 1]
    BY <1>1, LineStep DEF ArgsInv
  <2> QED BY <2>1, <2>2, <2>3 DEF ArgsInv
<1>2. CASE shell_parse
  <2>1. UNCHANGED <<todo, typed, input, argtable>> /\ ccp' = 0 /\ args' = 0 /\ shell_pc = "parse" /\ shell_pc' = "args"
    BY <1>2 DEF shell_parse
  <2>2. ShellTypes'
    <3>1. args' \in 0 .. ARGNUM /\ argtable' \in [0 .. ARGNUM -> T]
      BY <1>t, <2>1
    <3> QED BY <2>1, <3>1 DEF ArgsInv, ShellTypes
  <2>3. ASSUME ~Void(typed)
        PROVE  /\ Leading(typed, input) /\ Uncut(typed, input, 0, sc') /\ Cut(typed, input, 0, sc')
               /\ 0 = Cardinality(Earlier(typed, input + 1 + 0))
    <3>1. Leading(typed, input) /\ IsLine(typed)
      BY <2>1, <2>3 DEF ArgsInv, ShellTypes
    <3>2. input + 1 + 0 = input + 1
      BY <3>1, LineFacts DEF Leading
    <3>3. Uncut(typed, input, 0, sc') /\ Earlier(typed, input + 1 + 0) = {}
      BY <1>2, <2>3, <3>2, CopyStep
    <3> QED BY <3>1, <3>3, FS_EmptySet DEF Cut
  <2>4. Table(typed, input, 0)'
    BY <2>1 DEF Table
  <2> QED BY <2>1, <2>2, <2>3, <2>4 DEF ArgsInv
<1>3. CASE gen_arg
  <2>1. /\ UNCHANGED <<todo, typed, input, shell_pc>> /\ args' = args + 1 /\ args < ARGNUM /\ shell_pc = "args"
        /\ argtable' = [argtable EXCEPT ![args] = ccp]
    BY <1>3 DEF gen_arg
  <2>2. ShellTypes'
    <3>1. args' \in 0 .. ARGNUM /\ argtable' \in [0 .. ARGNUM -> T \union {ccp}]
      BY <1>t, <2>1
    <3> QED BY <2>1, <3>1 DEF ArgsInv, ShellTypes
  <2>3. ASSUME ~Void(typed)
        PROVE  /\ Leading(typed, input)
               /\ Uncut(typed, input, ccp', sc') /\ Cut(typed, input, ccp', sc')
               /\ args' = Cardinality(Earlier(typed, input + 1 + ccp')) /\ Table(typed, input, args)'
    BY <1>3, <2>1, <2>3, ArgStep DEF ArgsInv, Table
  <2> QED BY <2>1, <2>2, <2>3 DEF ArgsInv
<1>4. CASE gen_done
  <2>1. /\ UNCHANGED <<todo, typed, input, args, sc>> /\ argc' = args /\ shell_pc = "args" /\ shell_pc' = "exec"
        /\ argtable' = [argtable EXCEPT ![args] = NULL]
    BY <1>4 DEF gen_done
  <2>2. ShellTypes'
    <3>1. argtable' \in [0 .. ARGNUM -> T \union {NULL}]
      BY <1>t, <2>1
    <3> QED BY <2>1, <3>1 DEF ArgsInv, ShellTypes
  <2>3. argtable'[argc'] = NULL /\ \A a \in 0 .. args - 1 : argtable'[a] = argtable[a]
    BY <1>t, <2>1
  <2>4. ASSUME ~Void(typed)
        PROVE  /\ Leading(typed, input) /\ args = Cardinality(Starts(typed))
               /\ Cut(typed, input, Len(typed) - input, sc) /\ Table(typed, input, args)
    BY <1>4, <2>1, <2>4, DoneStep DEF ArgsInv
  <2>5. ~Void(typed) => Table(typed, input, argc)'
    BY <2>1, <2>3, <2>4 DEF Table
  <2> QED BY <2>1, <2>2, <2>3, <2>4, <2>5 DEF ArgsInv
<1>5. CASE shell_parse_empty \/ gen_too_many \/ ShellCommand
  <2>1. shell_pc' \in {"getline", "left"} /\ UNCHANGED <<todo, typed, args, argtable>>
    BY <1>5, OtherStep
  <2> QED BY <2>1 DEF ArgsInv, ShellTypes
<1>6. CASE UNCHANGED shellVars
  BY <1>6 DEF shellVars, ArgsInv, ShellTypes, Table
<1> QED BY <1>1, <1>2, <1>3, <1>4, <1>5, <1>6 DEF ShellNext

\* The pointers of the table are to the words of the line, in its order.
LEMMA ArgsHold == ASSUME ArgsInv PROVE ArgsRight
<1>1. SUFFICES ASSUME shell_pc = "exec", ~Void(typed)
               PROVE  /\ argc = Len(Words(typed))
                      /\ \A k \in 1 .. argc : Str(argv(k - 1)) = Words(typed)[k]
                      /\ argv(argc) = NULL
  BY DEF ArgsRight
<1>2. PICK s, o : s = typed /\ o = input
  OBVIOUS
<1>3. /\ IsLine(s) /\ Leading(s, o) /\ \A j \in DOMAIN s : s[j] # NUL
      /\ argc = Cardinality(Starts(s)) /\ Table(s, o, argc) /\ argtable[argc] = NULL
      /\ Cut(s, o, Len(s) - o, sc)
  BY <1>1, <1>2 DEF ArgsInv, ShellTypes, Void
<1>4. PICK n \in Nat : n = Len(s) /\ DOMAIN s = 1 .. n /\ Starts(s) \subseteq 1 .. n /\ o \in 0 .. n - 1 /\ o \in Nat
  BY <1>3, LineFacts DEF Leading
<1>5. PICK m \in Nat : m = argc /\ m = Cardinality(Starts(s))
  BY <1>3, Ranks, FS_CardinalityType
<1>6. /\ DOMAIN Words(s) = 1 .. m
      /\ \A k \in 1 .. m : Words(s)[k] = WordFrom(s, CHOOSE x \in Starts(s) : Cardinality(Earlier(s, x)) = k - 1)
  BY <1>5 DEF Words, Earlier
<1>7. Len(Words(s)) = m
  <2> DEFINE B(k) == WordFrom(s, CHOOSE x \in Starts(s) : Cardinality({j \in Starts(s) : j < x}) = k - 1)
  <2>3. Words(s) = [k \in 1 .. Cardinality(Starts(s)) |-> B(k)]
    BY DEF Words
  <2> HIDE DEF B
  <2>1. PICK W : W = Words(s) /\ W = [k \in 1 .. m |-> W[k]]
    BY <1>5, <2>3
  <2>2. W \in Seq({W[k] : k \in 1 .. m})
    BY <2>1
  <2> QED BY <1>6, <2>1, <2>2
<1>8. ASSUME NEW k \in 1 .. m PROVE Str(argv(k - 1)) = Words(s)[k]
  <2>1. PICK a \in Nat : a = k - 1 /\ a \in 0 .. m - 1
    <3>1. k - 1 \in 0 .. m - 1 /\ k - 1 \in Nat
      BY <1>5
    <3> QED BY <3>1
  <2>2. PICK p \in Nat : p = argtable[a] /\ p + o + 1 \in Starts(s) /\ Cardinality(Earlier(s, p + o + 1)) = a
    BY <1>3, <1>5, <2>1 DEF Table
  <2>3. PICK x \in Nat : x = p + o + 1 /\ x \in 1 .. n /\ x \in Starts(s) /\ x \in o + 1 .. n /\ x - o - 1 = p
    <3>1. p + o + 1 \in Nat /\ p + o + 1 \in 1 .. n /\ p + o + 1 \in o + 1 .. n /\ (p + o + 1) - o - 1 = p
      BY <1>4, <2>2
    <3> QED BY <2>2, <3>1
  <2>4. Words(s)[k] = WordFrom(s, x)
    <3>1. \A y \in Starts(s) : Cardinality(Earlier(s, y)) = a => y = x
      BY <1>3, <2>2, <2>3, Ranks
    <3>2. (CHOOSE y \in Starts(s) : Cardinality(Earlier(s, y)) = a) = x
      BY <2>2, <2>3, <3>1
    <3> QED BY <1>6, <2>1, <3>2
  <2>5. PICK y \in x .. n : IsWord(s, x, y) /\ sc[y - o] = NUL /\ \A j \in x .. y : sc[j - o - 1] = s[j]
    <3>1. o + 1 + (n - o) = n + 1 /\ o + (n - o) = n /\ x < n + 1
      BY <1>4, <2>3
    <3>2. x \in Earlier(s, o + 1 + (n - o))
      BY <2>3, <3>1 DEF Earlier
    <3> QED BY <1>3, <1>4, <3>1, <3>2 DEF Cut
  <2>6. WordFrom(s, x) = SubSeq(s, x, y)
    BY <1>3, <2>3, <2>5, WordIs
  <2>7. StringAt(sc, p) = SubSeq(s, x, y)
    <3>1. StringAt(sc, x - o - 1) = SubSeq(s, x, y)
      BY <1>3, <1>4, <2>3, <2>5, ShellConsts, StringIs
    <3> QED BY <2>3, <3>1
  <2>8. Str(argv(k - 1)) = StringAt(sc, p)
    <3>1. p # NULL
      BY DEF NULL
    <3> QED BY <2>1, <2>2, <3>1 DEF Str, argv
  <2> QED BY <2>4, <2>6, <2>7, <2>8
<1> QED BY <1>2, <1>3, <1>5, <1>7, <1>8 DEF argv

\* A command finds in argv the words of the line that was typed, each as typed,
\* and NULL behind them (shell_gen_args, ArgsRight), whatever the lines typed
\* before have left in the buffers and in the table.
THEOREM ArgumentsRight == ShellSpec => []ArgsRight
<1>1. ShellInit => ArgsInv
  BY ArgsInitially
<1>2. ArgsInv /\ [ShellNext]_shellVars => ArgsInv'
  BY ArgsStep
<1>3. ArgsInv => ArgsRight
  BY ArgsHold
<1> QED BY <1>1, <1>2, <1>3, PTL DEF ShellSpec
=============================================================================
