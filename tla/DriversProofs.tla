--------------------------- MODULE DriversProofs ---------------------------
(***************************************************************************)
(* drivers/keyboard.c and drivers/hd.c on one processor, for every set of  *)
(* keys, controller, machine, request and sector size: the keys getch      *)
(* returns, the drives the probe finds, errors and data of read_sector.    *)
(***************************************************************************)
EXTENDS Drivers, SequenceTheorems, FiniteSetTheorems, TLAPS

AnyKey == Keys \union Shifts
Code == [key : AnyKey, up : BOOLEAN]
Characters == AnyKey \X BOOLEAN

\* The code of a key that getch returns.
IsChar(code) == ~code.up /\ code.key \notin Shifts

KeyTypes ==
  /\ codes \in Seq(Code) /\ typed \in Seq(Characters) /\ got \in Seq(Characters)
  /\ down \subseteq AnyKey /\ strokes \in Nat
  /\ shift \in BOOLEAN /\ reading \in BOOLEAN /\ lost \in BOOLEAN /\ both \in BOOLEAN

\* What has been returned is what was typed, but for the case of a key when both
\* shift keys were held.
GotRight ==
  /\ Len(got) <= Len(typed)
  /\ \A n \in 1 .. Len(got) : got[n][1] = typed[n][1] /\ (~both => got[n][2] = typed[n][2])

\* The codes in the controller are the rest of what was typed: C counts the
\* characters among the first codes, and shift will be on after those in S.
Pending(C, S) ==
  /\ C \in [0 .. Len(codes) -> Nat]
  /\ C[0] = 0 /\ (shift <=> 0 \in S)
  /\ \A j \in 1 .. Len(codes) :
       /\ C[j] = IF IsChar(codes[j]) THEN C[j - 1] + 1 ELSE C[j - 1]
       /\ j \in S <=> IF codes[j].key \in Shifts THEN ~codes[j].up ELSE j - 1 \in S
  /\ \A m, n \in 0 .. Len(codes) : m <= n => C[m] <= C[n]
  /\ Len(typed) = Len(got) + C[Len(codes)]
  /\ \A j \in 1 .. Len(codes) :
       IsChar(codes[j]) => /\ typed[Len(got) + C[j]][1] = codes[j].key
                           /\ ~both => (typed[Len(got) + C[j]][2] <=> j - 1 \in S)
  /\ ~both => (Len(codes) \in S <=> down \cap Shifts # {})

KeyInv ==
  /\ KeyTypes
  /\ ~both => ~(Shifts \subseteq down)
  /\ ~lost => GotRight /\ \E C, S : Pending(C, S)

LEMMA KeyConsts == KeyBuffer \in Nat /\ Keys \cap Shifts = {} /\ Shifts \subseteq AnyKey
  BY KeyboardAssumption DEF AnyKey

LEMMA InitKeys == KeyInit => KeyInv
<1> SUFFICES ASSUME KeyInit PROVE KeyInv
  OBVIOUS
<1>1. codes = <<>> /\ typed = <<>> /\ got = <<>> /\ Len(codes) = 0 /\ Len(got) = 0 /\ Len(typed) = 0
  BY DEF KeyInit
<1>2. KeyTypes
  <2>1. codes \in Seq(Code) /\ typed \in Seq(Characters) /\ got \in Seq(Characters) /\ strokes \in Nat
    BY <1>1 DEF KeyInit
  <2>2. /\ shift \in BOOLEAN /\ reading \in BOOLEAN /\ lost \in BOOLEAN /\ both \in BOOLEAN
        /\ down \subseteq AnyKey
    BY Zenon DEF KeyInit
  <2> QED BY <2>1, <2>2, Zenon DEF KeyTypes
<1>3. GotRight
  BY <1>1 DEF GotRight
<1> DEFINE C == [j \in 0 .. 0 |-> 0]
<1>4. Pending(C, {})
  <2>1. 0 \notin {} /\ ~shift /\ down = {}
    BY Zenon DEF KeyInit
  <2> QED BY <1>1, <2>1 DEF Pending
<1>5. ~(Shifts \subseteq down)
  BY DEF KeyInit, Shifts
<1> QED BY <1>2, <1>3, <1>4, <1>5 DEF KeyInv

-----------------------------------------------------------------------------
\* A code that the controller takes: its place is the last.
LEMMA SendTaken ==
  ASSUME KeyTypes, NEW code \in Code, Send(code), ~lost'
  PROVE  /\ ~lost
         /\ codes' \in Seq(Code) /\ Len(codes') = Len(codes) + 1 /\ Len(codes) \in Nat
         /\ \A j \in 1 .. Len(codes) : codes'[j] = codes[j]
         /\ codes'[Len(codes) + 1] = code
<1>1. codes \in Seq(Code) /\ Len(codes) \in Nat /\ KeyBuffer \in Nat
  BY KeyConsts DEF KeyTypes
<1>2. ~lost /\ ~(Len(codes) >= KeyBuffer)
  BY Zenon DEF Send
<1>3. codes' = Append(codes, code)
  BY <1>1, <1>2 DEF Send
<1> QED BY <1>1, <1>2, <1>3, AppendProperties

\* A code more in the controller: what it does to the count and to shift is
\* what the user meant by it.
LEMMA SendPending ==
  ASSUME KeyTypes, NEW code \in Code, Send(code), ~lost', KeyInv,
         NEW b \in BOOLEAN, b <=> down \cap Shifts # {},
         typed' = IF IsChar(code) THEN Append(typed, <<code.key, b>>) ELSE typed,
         UNCHANGED <<shift, got>>,
         ~both' => ~both,
         ~both' => (down' \cap Shifts # {} <=> IF code.key \in Shifts THEN ~code.up ELSE b)
  PROVE  GotRight' /\ \E C, S : Pending(C, S)'
<1>1. /\ ~lost
      /\ codes' \in Seq(Code) /\ Len(codes') = Len(codes) + 1 /\ Len(codes) \in Nat
      /\ \A j \in 1 .. Len(codes) : codes'[j] = codes[j]
      /\ codes'[Len(codes) + 1] = code
  BY SendTaken
<1>2. GotRight /\ \E C, S : Pending(C, S)
  BY <1>1 DEF KeyInv
<1>3. PICK C, S : Pending(C, S)
  BY <1>2
<1>4. PICK L \in Nat : L = Len(codes)
  BY <1>1
<1>5. <<code.key, b>> \in Characters /\ <<code.key, b>>[1] = code.key /\ <<code.key, b>>[2] = b
  BY DEF Characters, Code
<1> DEFINE char == IsChar(code)
           D == [j \in 0 .. L + 1 |-> IF j <= L THEN C[j] ELSE IF char THEN C[L] + 1 ELSE C[L]]
           T == (S \cap (0 .. L)) \union
                {j \in {L + 1} : IF code.key \in Shifts THEN ~code.up ELSE L \in S}
<1>6. /\ typed \in Seq(Characters) /\ got \in Seq(Characters) /\ Len(typed) \in Nat /\ Len(got) \in Nat
      /\ Len(typed) = Len(got) + C[L] /\ C \in [0 .. L -> Nat] /\ C[L] \in Nat
  BY <1>3, <1>4 DEF KeyTypes, Pending
<1>7. /\ Len(typed') = (IF char THEN Len(typed) + 1 ELSE Len(typed))
      /\ \A n \in 1 .. Len(typed) : typed'[n] = typed[n]
      /\ char => typed'[Len(typed) + 1] = <<code.key, b>>
  BY <1>5, <1>6, AppendProperties
<1>8. GotRight'
  BY <1>2, <1>6, <1>7, SMTT(30) DEF GotRight
<1>9. /\ D \in [0 .. L + 1 -> Nat] /\ D[0] = 0
      /\ \A j \in 0 .. L : D[j] = C[j]
      /\ D[L + 1] = IF char THEN C[L] + 1 ELSE C[L]
  BY <1>3, <1>6 DEF Pending
<1>10. /\ \A j \in 0 .. L : j \in T <=> j \in S
       /\ L + 1 \in T <=> IF code.key \in Shifts THEN ~code.up ELSE L \in S
  OBVIOUS
<1> HIDE DEF D, T
<1>11. ASSUME NEW j \in 1 .. L + 1
       PROVE  /\ D[j] = IF IsChar(codes'[j]) THEN D[j - 1] + 1 ELSE D[j - 1]
              /\ j \in T <=> IF codes'[j].key \in Shifts THEN ~codes'[j].up ELSE j - 1 \in T
  <2>1. CASE j \in 1 .. L
    <3>1. j \in 0 .. L /\ j - 1 \in 0 .. L
      BY <2>1
    <3> QED BY <2>1, <3>1, <1>1, <1>3, <1>4, <1>9, <1>10 DEF Pending
  <2>2. CASE j = L + 1
    <3>1. codes'[j] = code /\ j - 1 = L /\ L \in 0 .. L
      BY <2>2, <1>1, <1>4
    <3> QED BY <2>2, <3>1, <1>9, <1>10
  <2> QED BY <2>1, <2>2
<1>12. ASSUME NEW m \in 0 .. L + 1, NEW n \in 0 .. L + 1, m <= n PROVE D[m] <= D[n]
  <2>1. \A p, q \in 0 .. L : p <= q => C[p] <= C[q]
    BY <1>3, <1>4 DEF Pending
  <2>2. CASE n \in 0 .. L
    BY <2>1, <2>2, <1>6, <1>9, <1>12, SMTT(30)
  <2>3. CASE m \in 0 .. L /\ n = L + 1
    <3>1. C[m] <= C[L] /\ C[m] \in Nat
      BY <2>1, <2>3, <1>6
    <3> QED BY <3>1, <2>3, <1>6, <1>9
  <2>4. CASE m = L + 1 /\ n = L + 1
    BY <2>4, <1>9
  <2> QED BY <2>2, <2>3, <2>4, <1>12
<1>13. Len(typed') = Len(got') + D[L + 1]
  <2>1. CASE char
    BY <2>1, <1>6, <1>7, <1>9
  <2>2. CASE ~char
    BY <2>2, <1>6, <1>7, <1>9
  <2> QED BY <2>1, <2>2
<1>14. ASSUME NEW j \in 1 .. L + 1, IsChar(codes'[j])
       PROVE  /\ typed'[Len(got') + D[j]][1] = codes'[j].key
              /\ ~both' => (typed'[Len(got') + D[j]][2] <=> j - 1 \in T)
  <2>1. CASE j \in 1 .. L
    <3>1. j \in 0 .. L /\ j - 1 \in 0 .. L /\ L \in 0 .. L
      BY <2>1
    <3>2. D[j] = C[j] /\ IsChar(codes[j]) /\ codes'[j] = codes[j]
      BY <1>1, <1>4, <1>9, <1>14, <2>1, <3>1
    <3>3. C[j] >= 1 /\ C[j] <= C[L]
      <4>1. C[j] = C[j - 1] + 1 /\ C[j - 1] \in Nat /\ C[j] \in Nat
        BY <2>1, <3>1, <3>2, <1>3, <1>4, <1>6 DEF Pending
      <4>2. C[j] <= C[L]
        BY <2>1, <3>1, <1>3, <1>4 DEF Pending
      <4> QED BY <4>1, <4>2
    <3>4. Len(got) + C[j] \in 1 .. Len(typed)
      BY <3>1, <3>3, <1>6
    <3>5. typed'[Len(got') + D[j]] = typed[Len(got) + C[j]]
      BY <3>2, <3>4, <1>7
    <3>6. /\ typed[Len(got) + C[j]][1] = codes[j].key
          /\ ~both => (typed[Len(got) + C[j]][2] <=> j - 1 \in S)
      BY <2>1, <3>2, <1>3, <1>4 DEF Pending
    <3> QED BY <3>1, <3>2, <3>5, <3>6, <1>10
  <2>2. CASE j = L + 1
    <3>1. codes'[j] = code /\ char /\ j - 1 = L /\ L \in 0 .. L
      BY <2>2, <1>1, <1>4, <1>14
    <3>2. Len(got') + D[j] = Len(typed) + 1
      BY <2>2, <3>1, <1>6, <1>9
    <3>3. typed'[Len(got') + D[j]] = <<code.key, b>>
      BY <3>1, <3>2, <1>7
    <3>4. ~both => (L \in S <=> b)
      BY <1>3, <1>4 DEF Pending
    <3> QED BY <3>1, <3>3, <3>4, <1>5, <1>10
  <2>3. j \in 1 .. L \/ j = L + 1
    OBVIOUS
  <2> QED BY <2>1, <2>2, <2>3, Zenon
<1>15. ~both' => (L + 1 \in T <=> down' \cap Shifts # {})
  <2>1. ~both => (L \in S <=> b)
    BY <1>3, <1>4 DEF Pending
  <2> QED BY <2>1, <1>10
<1>16. shift' <=> 0 \in T
  BY <1>3, <1>10 DEF Pending
<1>17. Pending(D, T)'
  BY <1>1, <1>4, <1>9, <1>11, <1>12, <1>13, <1>14, <1>15, <1>16 DEF Pending
<1> QED BY <1>8, <1>17

\* A press that the controller takes, of any key.
LEMMA PressStep ==
  ASSUME KeyInv, NEW k \in AnyKey, Press(k)
  PROVE  KeyInv'
<1> DEFINE code == [key |-> k, up |-> FALSE]
<1>1. KeyTypes /\ code \in Code /\ code.key = k /\ ~code.up
  BY DEF KeyInv, Code
<1>2. /\ k \in Shifts => k \notin down
      /\ down' = down \union {k} /\ both' = (both \/ Shifts \subseteq down')
      /\ Send(code)
      /\ UNCHANGED <<shift, reading, got>>
  BY DEF Press
<1> HIDE DEF code
<1>3. PICK b \in BOOLEAN : b = (down \cap Shifts # {})
  BY Zenon
<1>4. typed' = IF k \in Shifts THEN typed ELSE Append(typed, <<k, b>>)
  BY <1>3, Zenon DEF Press
<1>5. <<k, b>> \in Characters /\ <<k, b>>[1] = k /\ <<k, b>>[2] = b
  BY DEF Characters
<1>6. KeyTypes'
  <2>1. codes' \in Seq(Code) /\ strokes' \in Nat
    BY <1>1, <1>2, AppendProperties DEF Send, KeyTypes
  <2>2. typed' \in Seq(Characters) /\ got' \in Seq(Characters)
    BY <1>1, <1>2, <1>4, <1>5, AppendProperties DEF KeyTypes
  <2>3. lost' \in BOOLEAN /\ both' \in BOOLEAN
    BY <1>2, Zenon DEF Send
  <2>4. shift' \in BOOLEAN /\ reading' \in BOOLEAN /\ down' \subseteq AnyKey
    BY <1>1, <1>2, Zenon DEF KeyTypes
  <2> QED BY <2>1, <2>2, <2>3, <2>4, Zenon DEF KeyTypes
<1>7. ~both' => ~both /\ ~(Shifts \subseteq down')
  BY <1>2, Zenon
<1>8. ASSUME ~lost' PROVE GotRight' /\ \E C, S : Pending(C, S)'
  <2>1. typed' = IF IsChar(code) THEN Append(typed, <<code.key, b>>) ELSE typed
    BY <1>1, <1>4 DEF IsChar
  <2>2. down' \cap Shifts # {} <=> IF code.key \in Shifts THEN ~code.up ELSE b
    <3>1. CASE k \in Shifts
      BY <3>1, <1>1, <1>2
    <3>2. CASE k \notin Shifts
      <4>1. down' \cap Shifts = down \cap Shifts
        BY <3>2, <1>2
      <4> QED BY <3>2, <4>1, <1>1, <1>3
    <3> QED BY <3>1, <3>2
  <2>3. b <=> down \cap Shifts # {}
    BY <1>3
  <2> QED BY <1>1, <1>2, <1>7, <1>8, <2>1, <2>2, <2>3, SendPending
<1> QED BY <1>6, <1>7, <1>8 DEF KeyInv

\* Letting a key go: one shift key at most was held, unless both have been.
LEMMA ReleaseStep ==
  ASSUME KeyInv, NEW k \in AnyKey, Release(k)
  PROVE  KeyInv'
<1> DEFINE code == [key |-> k, up |-> TRUE]
<1>1. KeyTypes /\ code \in Code /\ code.key = k /\ code.up
  BY DEF KeyInv, Code
<1>2. /\ k \in down /\ down' = down \ {k}
      /\ Send(code)
      /\ UNCHANGED <<shift, reading, typed, got, both>>
  BY DEF Release
<1> HIDE DEF code
<1>3. PICK b \in BOOLEAN : b = (down \cap Shifts # {})
  BY Zenon
<1>4. KeyTypes'
  <2>1. codes' \in Seq(Code) /\ strokes' \in Nat
    BY <1>1, <1>2, AppendProperties DEF Send, KeyTypes
  <2>2. lost' \in BOOLEAN
    BY <1>2, Zenon DEF Send
  <2>3. /\ shift' \in BOOLEAN /\ reading' \in BOOLEAN /\ down' \subseteq AnyKey /\ both' \in BOOLEAN
        /\ typed' \in Seq(Characters) /\ got' \in Seq(Characters)
    BY <1>1, <1>2, Zenon DEF KeyTypes
  <2> QED BY <2>1, <2>2, <2>3, Zenon DEF KeyTypes
<1>5. ~both' => ~both /\ ~(Shifts \subseteq down) /\ ~(Shifts \subseteq down')
  BY <1>2 DEF KeyInv
<1>6. ASSUME ~lost' PROVE GotRight' /\ \E C, S : Pending(C, S)'
  <2>1. typed' = IF IsChar(code) THEN Append(typed, <<code.key, b>>) ELSE typed
    BY <1>1, <1>2 DEF IsChar
  <2>2. ~both' => (down' \cap Shifts # {} <=> IF code.key \in Shifts THEN ~code.up ELSE b)
    <3>1. CASE k \in Shifts
      <4>1. ~both' => down' \cap Shifts = {}
        BY <3>1, <1>2, <1>5 DEF Shifts
      <4> QED BY <3>1, <4>1, <1>1
    <3>2. CASE k \notin Shifts
      <4>1. down' \cap Shifts = down \cap Shifts
        BY <3>2, <1>2
      <4> QED BY <3>2, <4>1, <1>1, <1>3
    <3> QED BY <3>1, <3>2
  <2>3. b <=> down \cap Shifts # {}
    BY <1>3
  <2> QED BY <1>1, <1>2, <1>5, <1>6, <2>1, <2>2, <2>3, SendPending
<1> QED BY <1>4, <1>5, <1>6 DEF KeyInv

\* getch takes the first code: a character it returns is the next one typed.
LEMMA RawKeyStep ==
  ASSUME KeyInv, GetRawKey
  PROVE  KeyInv'
<1> DEFINE code == Head(codes)
<1>1. KeyTypes /\ codes # <<>> /\ codes' = Tail(codes) /\ UNCHANGED <<down, strokes, typed, lost, both>>
  BY DEF KeyInv, GetRawKey
<1>2. PICK b \in BOOLEAN : b = shift
  BY <1>1 DEF KeyTypes
<1>3. /\ shift' = IF code.key \in Shifts THEN ~code.up ELSE b
      /\ got' = IF IsChar(code) THEN Append(got, <<code.key, b>>) ELSE got
      /\ reading' = ~IsChar(code)
  BY <1>2, Zenon DEF GetRawKey, IsChar
<1>4. /\ code \in Code /\ codes' \in Seq(Code) /\ Len(codes') = Len(codes) - 1 /\ Len(codes) \in Nat
      /\ Len(codes) >= 1 /\ code = codes[1]
      /\ \A j \in 1 .. Len(codes) - 1 : codes'[j] = codes[j + 1]
  BY <1>1, HeadTailProperties DEF KeyTypes
<1> HIDE DEF code
<1>5. <<code.key, b>> \in Characters /\ <<code.key, b>>[1] = code.key /\ <<code.key, b>>[2] = b
  BY <1>4 DEF Characters, Code
<1>6. code.up \in BOOLEAN
  BY <1>4 DEF Code
<1>7. KeyTypes'
  <2>1. got' \in Seq(Characters)
    BY <1>1, <1>3, <1>5, AppendProperties DEF KeyTypes
  <2>2. shift' \in BOOLEAN /\ reading' \in BOOLEAN
    BY <1>3, Zenon
  <2> QED BY <2>1, <2>2, <1>1, <1>4, Zenon DEF KeyTypes
<1>8. ASSUME ~lost' PROVE GotRight' /\ \E C, S : Pending(C, S)'
  <2>1. GotRight /\ \E C, S : Pending(C, S)
    BY <1>1, <1>8 DEF KeyInv
  <2>2. PICK C, S : Pending(C, S)
    BY <2>1
  <2>3. PICK L \in Nat : L + 1 = Len(codes) /\ L = Len(codes')
    BY <1>4
  <2> DEFINE char == IsChar(code)
             D == [j \in 0 .. L |-> C[j + 1] - C[1]]
             T == {j \in 0 .. L : j + 1 \in S}
  <2>4. /\ typed \in Seq(Characters) /\ got \in Seq(Characters) /\ Len(typed) \in Nat /\ Len(got) \in Nat
        /\ Len(typed) = Len(got) + C[L + 1] /\ C \in [0 .. L + 1 -> Nat]
        /\ \A p, q \in 0 .. L + 1 : p <= q => C[p] <= C[q]
    BY <2>2, <2>3, <1>1 DEF KeyTypes, Pending
  <2>5. /\ C[1] = (IF char THEN 1 ELSE 0)
        /\ 1 \in S <=> IF code.key \in Shifts THEN ~code.up ELSE b
    <3>1. 1 \in 1 .. Len(codes) /\ 1 - 1 = 0 /\ code = codes[1]
      BY <1>4
    <3> QED BY <3>1, <2>2, <1>2 DEF Pending
  <2>6. Len(got') = Len(got) + C[1]
    BY <2>4, <2>5, <1>3, <1>5, AppendProperties
  <2>7. D \in [0 .. L -> Nat] /\ D[0] = 0 /\ \A j \in 0 .. L : D[j] = C[j + 1] - C[1]
    <3>1. \A j \in 0 .. L : C[j + 1] - C[1] \in Nat
      <4>1. ASSUME NEW j \in 0 .. L PROVE C[j + 1] - C[1] \in Nat
        <5>1. j + 1 \in 0 .. L + 1 /\ 1 \in 0 .. L + 1 /\ 1 <= j + 1
          OBVIOUS
        <5>2. C[1] <= C[j + 1] /\ C[1] \in Nat /\ C[j + 1] \in Nat
          BY <5>1, <2>4
        <5> QED BY <5>2
      <4> QED BY <4>1
    <3>2. C[1] \in Nat
      BY <2>4
    <3> QED BY <3>1, <3>2
  <2>8. \A j \in 0 .. L : j \in T <=> j + 1 \in S
    OBVIOUS
  <2> HIDE DEF D, T
  <2>9. ASSUME NEW j \in 1 .. L
        PROVE  /\ D[j] = IF IsChar(codes'[j]) THEN D[j - 1] + 1 ELSE D[j - 1]
               /\ j \in T <=> IF codes'[j].key \in Shifts THEN ~codes'[j].up ELSE j - 1 \in T
    <3>1. /\ j + 1 \in 1 .. Len(codes) /\ codes'[j] = codes[j + 1] /\ (j + 1) - 1 = j /\ (j - 1) + 1 = j
          /\ j \in 0 .. L /\ j - 1 \in 0 .. L
      BY <2>3, <1>4
    <3>2. /\ C[j + 1] = IF IsChar(codes[j + 1]) THEN C[j] + 1 ELSE C[j]
          /\ j + 1 \in S <=> IF codes[j + 1].key \in Shifts THEN ~codes[j + 1].up ELSE j \in S
      BY <3>1, <2>2 DEF Pending
    <3>3. D[j] = C[j + 1] - C[1] /\ D[j - 1] = C[j] - C[1]
      BY <3>1, <2>7
    <3>4. C[j] \in Nat /\ C[j + 1] \in Nat /\ C[1] \in Nat
      BY <3>1, <2>4
    <3>5. j \in T <=> j + 1 \in S
      BY <3>1, <2>8
    <3>6. j - 1 \in T <=> j \in S
      BY <3>1, <2>8
    <3> QED BY <3>1, <3>2, <3>3, <3>4, <3>5, <3>6
  <2>10. ASSUME NEW m \in 0 .. L, NEW n \in 0 .. L, m <= n PROVE D[m] <= D[n]
    <3>1. C[m + 1] <= C[n + 1] /\ C[m + 1] \in Nat /\ C[n + 1] \in Nat /\ C[1] \in Nat
      <4>1. m + 1 \in 0 .. L + 1 /\ n + 1 \in 0 .. L + 1 /\ 1 \in 0 .. L + 1 /\ m + 1 <= n + 1
        BY <2>10
      <4> QED BY <4>1, <2>4
    <3>2. D[m] = C[m + 1] - C[1] /\ D[n] = C[n + 1] - C[1]
      BY <2>7, Zenon
    <3> QED BY <3>1, <3>2
  <2>11. Len(typed') = Len(got') + D[L]
    <3>1. D[L] = C[L + 1] - C[1] /\ C[L + 1] \in Nat /\ C[1] \in Nat
      BY <2>4, <2>7
    <3> QED BY <3>1, <2>4, <2>6, <1>1
  <2>12. ASSUME NEW j \in 1 .. L, IsChar(codes'[j])
         PROVE  /\ typed'[Len(got') + D[j]][1] = codes'[j].key
                /\ ~both' => (typed'[Len(got') + D[j]][2] <=> j - 1 \in T)
    <3>1. /\ j + 1 \in 1 .. Len(codes) /\ codes'[j] = codes[j + 1] /\ (j + 1) - 1 = j
          /\ j - 1 \in 0 .. L /\ (j - 1) + 1 = j
      BY <2>3, <1>4
    <3>2. /\ typed[Len(got) + C[j + 1]][1] = codes[j + 1].key
          /\ ~both => (typed[Len(got) + C[j + 1]][2] <=> j \in S)
      BY <3>1, <2>2, <2>12 DEF Pending
    <3>3. Len(got') + D[j] = Len(got) + C[j + 1]
      <4>1. D[j] = C[j + 1] - C[1] /\ C[j + 1] \in Nat /\ C[1] \in Nat
        BY <2>4, <2>7
      <4> QED BY <4>1, <2>4, <2>6
    <3>4. j - 1 \in T <=> j \in S
      BY <3>1, <2>8
    <3> QED BY <3>1, <3>2, <3>3, <3>4, <1>1
  <2>13. ~both' => (L \in T <=> down' \cap Shifts # {})
    BY <2>2, <2>3, <2>8, <1>1 DEF Pending
  <2>14. shift' <=> 0 \in T
    <3>1. 0 \in T <=> 1 \in S
      BY <2>8
    <3> QED BY <3>1, <2>5, <1>3
  <2>15. Pending(D, T)'
    BY <2>3, <2>7, <2>9, <2>10, <2>11, <2>12, <2>13, <2>14 DEF Pending
  <2>16. GotRight'
    <3>1. CASE ~char
      BY <3>1, <2>1, <1>1, <1>3 DEF GotRight
    <3>2. CASE char
      <4>1. /\ Len(got') = Len(got) + 1 /\ got'[Len(got) + 1] = <<code.key, b>>
            /\ \A n \in 1 .. Len(got) : got'[n] = got[n]
        BY <3>2, <2>4, <1>3, <1>5, AppendProperties
      <4>2. /\ typed[Len(got) + 1][1] = code.key
            /\ ~both => (typed[Len(got) + 1][2] <=> 0 \in S)
        <5>1. 1 \in 1 .. Len(codes) /\ 1 - 1 = 0 /\ code = codes[1] /\ C[1] = 1
          BY <3>2, <2>5, <1>4
        <5> QED BY <5>1, <3>2, <2>2 DEF Pending
      <4>3. Len(got) + 1 <= Len(typed)
        <5>1. C[1] = 1 /\ C[1] <= C[L + 1] /\ C[L + 1] \in Nat
          BY <3>2, <2>4, <2>5
        <5> QED BY <5>1, <2>4
      <4>4. 0 \in S <=> b
        BY <2>2, <1>2 DEF Pending
      <4>5. typed[Len(got) + 1] \in Characters
        BY <4>3, <2>4
      <4>6. typed[Len(got) + 1][2] \in BOOLEAN
        BY <4>5 DEF Characters
      <4>7. ~both => typed[Len(got) + 1][2] = b
        BY <4>2, <4>4, <4>6, Zenon
      <4>8. ASSUME NEW n \in 1 .. Len(got')
            PROVE  got'[n][1] = typed'[n][1] /\ (~both' => got'[n][2] = typed'[n][2])
        <5>1. CASE n \in 1 .. Len(got)
          BY <5>1, <4>1, <2>1, <1>1 DEF GotRight
        <5>2. CASE n = Len(got) + 1
          BY <5>2, <4>1, <4>2, <4>7, <1>1, <1>5
        <5>3. n \in 1 .. Len(got) \/ n = Len(got) + 1
          BY <4>1, <2>4
        <5> QED BY <5>1, <5>2, <5>3, Zenon
      <4> QED BY <4>1, <4>3, <4>8, <1>1 DEF GotRight
    <3> QED BY <3>1, <3>2
  <2> QED BY <2>15, <2>16
<1> QED BY <1>1, <1>7, <1>8 DEF KeyInv

\* A step that leaves the keyboard alone.
LEMMA KeysUnchanged == ASSUME KeyInv, UNCHANGED keyVars PROVE KeyInv'
<1>1. UNCHANGED <<codes, down, strokes, shift, reading, typed, got, lost, both>>
  BY DEF keyVars
<1>2. KeyTypes' <=> KeyTypes
  BY <1>1, Zenon DEF KeyTypes
<1>3. GotRight' <=> GotRight
  BY <1>1, Zenon DEF GotRight
<1>4. ASSUME NEW C, NEW S PROVE Pending(C, S)' <=> Pending(C, S)
  BY <1>1, Zenon DEF Pending
<1> QED BY <1>1, <1>2, <1>3, <1>4, Zenon DEF KeyInv

LEMMA KeyStep == KeyInv /\ [Next]_vars => KeyInv'
<1> SUFFICES ASSUME KeyInv, [Next]_vars PROVE KeyInv'
  OBVIOUS
<1>1. CASE UserStep
  <2>1. PICK k \in AnyKey : Press(k) \/ Release(k)
    BY <1>1 DEF UserStep, User, AnyKey
  <2> QED BY <2>1, PressStep, ReleaseStep
<1>2. CASE KeyCode
  BY <1>2, RawKeyStep DEF KeyCode
<1>3. CASE CallGetch
  <2>1. reading' = TRUE /\ UNCHANGED <<codes, down, strokes, shift, typed, got, lost, both>>
    BY <1>3 DEF CallGetch, getch
  <2>2. KeyTypes'
    BY <2>1, Zenon DEF KeyInv, KeyTypes
  <2>3. GotRight' <=> GotRight
    BY <2>1, Zenon DEF GotRight
  <2>4. ASSUME NEW C, NEW S PROVE Pending(C, S)' <=> Pending(C, S)
    BY <2>1, Zenon DEF Pending
  <2> QED BY <2>1, <2>2, <2>3, <2>4, Zenon DEF KeyInv
<1>4. CASE CallDisk \/ DiskCode \/ DriveStep \/ UNCHANGED vars
  <2>1. UNCHANGED keyVars
    BY <1>4 DEF CallDisk, DiskCode, DriveStep, vars
  <2> QED BY <2>1, KeysUnchanged
<1> QED BY <1>1, <1>2, <1>3, <1>4 DEF Next

\* The keys of the user reach the shell in order, each once and, unless both
\* shift keys are held at once, in the right case: for every controller and
\* however disk and keyboard calls follow each other.
THEOREM KeysInOrder == Spec => []KeysRight
<1>1. Init => KeyInv
  BY InitKeys DEF Init
<1>2. KeyInv => KeysRight
  <2> SUFFICES ASSUME KeyInv, ~lost
               PROVE  /\ Len(got) <= Len(typed)
                      /\ \A n \in 1 .. Len(got) : got[n][1] = typed[n][1]
                      /\ ~both => IsPrefix(got, typed)
    BY DEF KeysRight
  <2>1. GotRight /\ KeyTypes
    BY DEF KeyInv
  <2>2. ASSUME ~both PROVE IsPrefix(got, typed)
    <3>1. got \in Seq(Characters) /\ typed \in Seq(Characters) /\ Len(got) \in Nat /\ Len(typed) \in Nat
           /\ Len(got) <= Len(typed)
      BY <2>1 DEF GotRight, KeyTypes
    <3>2. ASSUME NEW n \in 1 .. Len(got) PROVE got[n] = typed[n] /\ got[n] \in Characters /\ typed[n] \in Characters
      <4>1. got[n] \in Characters /\ typed[n] \in Characters
        BY <3>1
      <4>2. got[n][1] = typed[n][1] /\ got[n][2] = typed[n][2]
        BY <2>1, <2>2 DEF GotRight
      <4> QED BY <4>1, <4>2 DEF Characters
    <3>3. /\ SubSeq(got, 1, Len(got)) \in Seq(Characters) /\ SubSeq(typed, 1, Len(got)) \in Seq(Characters)
          /\ Len(SubSeq(got, 1, Len(got))) = Len(SubSeq(typed, 1, Len(got)))
          /\ \A i \in 1 .. Len(got) - 1 + 1 : SubSeq(got, 1, Len(got))[i] = got[1 + i - 1]
          /\ \A i \in 1 .. Len(got) - 1 + 1 : SubSeq(typed, 1, Len(got))[i] = typed[1 + i - 1]
          /\ Len(SubSeq(got, 1, Len(got))) = Len(got)
      BY <3>1, <3>2, SubSeqProperties
    <3>4. \A i \in 1 .. Len(got) : SubSeq(got, 1, Len(got))[i] = SubSeq(typed, 1, Len(got))[i]
      BY <3>1, <3>2, <3>3
    <3>5. SubSeq(got, 1, Len(got)) = SubSeq(typed, 1, Len(got))
      BY <3>3, <3>4, SeqEqual
    <3> QED BY <3>1, <3>5 DEF IsPrefix
  <2> QED BY <2>1, <2>2 DEF GotRight
<1> QED BY <1>1, <1>2, KeyStep, PTL DEF Spec

-----------------------------------------------------------------------------
(***************************************************************************)
(* hd.c.  The drives run beside the code, so the invariant says of every   *)
(* place of the code what the drive it talks to may be doing.              *)
(***************************************************************************)
D2 == 0 .. 1
Word == {Junk} \union (D2 \X Nat \X Nat) \union (D2 \X {"id"} \X Nat)
Request == [drive : D2, lba : Nat, num : Nat \ {0}]
FirstRequest == [drive |-> 0, lba |-> 0, num |-> 1]
Commands == {"none", "read_sector", "write_sector", "ident", "atapi_ident"}

\* The addresses the four registers can hold.
Limit == Base * Base * Base * Nib

IdeTypes ==
  /\ kind \in [D2 -> {"ata", "atapi", "none"}] /\ streams \in [D2 -> BOOLEAN]
  /\ busy \in [D2 -> BOOLEAN] /\ drq \in [D2 -> BOOLEAN] /\ err \in [D2 -> BOOLEAN]
  /\ cmd \in [D2 -> Commands] /\ fifo \in [D2 -> Seq(Word)]
  /\ left \in [D2 -> Int] /\ at \in Nat /\ select \in D2
  /\ arg \in Request /\ arg \in Requests \union {FirstRequest} /\ buf \in Seq(Word)
  /\ op \in {"none", "probe", "read_sector", "write_sector"}
  /\ drive \in 0 .. 2

\* Where there is no drive nothing answers.
NoDrive ==
  \A d \in D2 : kind[d] = "none" => ~busy[d] /\ ~drq[d] /\ ~err[d] /\ cmd[d] = "none"

LEMMA IdeConsts ==
  /\ Base \in Nat \ {0} /\ Nib \in Nat \ {0} /\ Words \in Nat \ {0}
  /\ Requests \subseteq Request /\ FirstRequest \in Request
  /\ FirstRequest.lba = 0 /\ Limit \in Nat /\ 0 < Limit
<1>1. Base \in Nat \ {0} /\ Nib \in Nat \ {0} /\ Words \in Nat \ {0} /\ Requests \subseteq Request
  BY IdeAssumption DEF Request, D2
<1>2. FirstRequest \in Request /\ FirstRequest.lba = 0
  BY DEF FirstRequest, Request, D2
<1>3. Base * Base \in Nat \ {0}
  BY <1>1
<1>4. Base * Base * Base \in Nat \ {0}
  BY <1>1, <1>3
<1>5. Limit \in Nat \ {0}
  BY <1>1, <1>4 DEF Limit
<1> QED BY <1>1, <1>2, <1>5

\* What a sector and an answer to IDENT are made of.
LEMMA SectorFacts ==
  ASSUME NEW d \in D2, NEW lba \in Nat
  PROVE  /\ SectorWords(d, lba) \in Seq(Word) /\ Len(SectorWords(d, lba)) = Words
         /\ IdentWords(d) \in Seq(Word)
<1>1. Words \in Nat
  BY IdeConsts
<1>2. \A k \in 1 .. Words : (IF <<d, lba>> \in overwritten THEN Junk ELSE <<d, lba, k>>) \in Word
  BY DEF Word
<1>3. \A k \in 1 .. Words : <<d, "id", k>> \in Word
  BY DEF Word
<1>4. SectorWords(d, lba) \in Seq(Word) /\ IdentWords(d) \in Seq(Word)
  BY <1>1, <1>2, <1>3, IsASeq DEF SectorWords, IdentWords
<1> QED BY <1>1, <1>4 DEF SectorWords

-----------------------------------------------------------------------------
\* The address registers.  Quotients of quotients:
LEMMA DivIs ==
  ASSUME NEW n \in Int, NEW m \in Nat \ {0}, NEW k \in Int, NEW r \in 0 .. m - 1, n = k * m + r
  PROVE  n \div m = k /\ n % m = r
  OBVIOUS

LEMMA DivSplit ==
  ASSUME NEW n \in Nat, NEW m \in Nat \ {0}
  PROVE  \E q \in Nat, r \in 0 .. m - 1 : n = q * m + r /\ n \div m = q /\ n % m = r
<1>1. n \div m \in Int /\ n % m \in 0 .. m - 1 /\ n = (n \div m) * m + (n % m)
  OBVIOUS
<1>2. n \div m \in Nat
  OBVIOUS
<1> QED BY <1>1, <1>2

LEMMA DivDiv ==
  ASSUME NEW n \in Nat, NEW a \in Nat \ {0}, NEW b \in Nat \ {0}
  PROVE  n \div (a * b) = (n \div a) \div b
<1>1. PICK q \in Nat, r \in 0 .. a - 1 : n = q * a + r /\ n \div a = q
  BY DivSplit
<1>2. PICK p \in Nat, s \in 0 .. b - 1 : q = p * b + s /\ q \div b = p
  BY DivSplit
<1>3. a * b \in Nat \ {0}
  OBVIOUS
<1>4. n = p * (a * b) + (s * a + r)
  BY <1>1, <1>2
<1>5. s * a + r \in 0 .. a * b - 1
  <2>1. s * a <= (b - 1) * a
    BY <1>2
  <2>2. (b - 1) * a = a * b - a
    OBVIOUS
  <2>3. s * a \in Nat
    BY <1>2
  <2> QED BY <2>1, <2>2, <2>3, <1>1, <1>3
<1>6. n \div (a * b) = p
  <2>1. PICK m \in Nat \ {0} : m = a * b
    BY <1>3
  <2>2. PICK u \in 0 .. m - 1 : u = s * a + r
    BY <1>5, <2>1
  <2>3. n = p * m + u
    BY <1>4, <2>1, <2>2
  <2>4. n \div m = p
    BY <2>3, <1>2, DivIs
  <2> QED BY <2>1, <2>4
<1> QED BY <1>1, <1>2, <1>6

\* The drive sees the address the driver wrote, if it has 28 bits.
LEMMA AddressRight ==
  ASSUME NEW lba \in Nat
  PROVE  /\ Address(Bytes(lba)) \in Nat
         /\ lba < Limit => Address(Bytes(lba)) = lba
<1>1. Base \in Nat \ {0} /\ Nib \in Nat \ {0} /\ Base * Base \in Nat \ {0}
  BY IdeConsts
<1>2. PICK q1 \in Nat, r1 \in 0 .. Base - 1 : lba = q1 * Base + r1 /\ lba \div Base = q1 /\ lba % Base = r1
  BY <1>1, DivSplit
<1>3. PICK q2 \in Nat, r2 \in 0 .. Base - 1 : q1 = q2 * Base + r2 /\ q1 \div Base = q2 /\ q1 % Base = r2
  BY <1>1, DivSplit
<1>4. PICK q3 \in Nat, r3 \in 0 .. Base - 1 : q2 = q3 * Base + r3 /\ q2 \div Base = q3 /\ q2 % Base = r3
  BY <1>1, DivSplit
<1>5. PICK q4 \in Nat, r4 \in 0 .. Nib - 1 : q3 = q4 * Nib + r4 /\ q3 \div Nib = q4 /\ q3 % Nib = r4
  BY <1>1, DivSplit
<1>6. lba \div (Base * Base) = q2
  BY <1>1, <1>2, <1>3, DivDiv
<1>7. lba \div (Base * Base * Base) = q3
  <2>1. PICK m \in Nat \ {0} : m = Base * Base
    BY <1>1
  <2>2. lba \div (m * Base) = (lba \div m) \div Base
    BY <1>1, DivDiv, ZenonT(30)
  <2> QED BY <2>1, <2>2, <1>4, <1>6
<1>8. Bytes(lba) = <<r1, r2, r3, r4>>
  BY <1>2, <1>3, <1>4, <1>5, <1>6, <1>7 DEF Bytes
<1>9. Address(Bytes(lba)) = r1 + Base * (r2 + Base * (r3 + Base * r4))
  BY <1>8 DEF Address
<1>10. Address(Bytes(lba)) \in Nat
  <2>1. Base * r4 \in Nat
    BY <1>1, <1>5
  <2>2. Base * (r3 + Base * r4) \in Nat
    BY <1>1, <1>4, <2>1
  <2>3. Base * (r2 + Base * (r3 + Base * r4)) \in Nat
    BY <1>1, <1>3, <2>2
  <2> QED BY <2>3, <1>2, <1>9
<1>11. ASSUME lba < Limit PROVE Address(Bytes(lba)) = lba
  <2>1. q4 = 0
    <3>1. SUFFICES ASSUME q4 >= 1 PROVE FALSE
      OBVIOUS
    <3>2. q3 >= Nib
      <4>1. q4 * Nib >= Nib
        BY <1>1, <3>1
      <4> QED BY <4>1, <1>1, <1>5
    <3>3. q2 >= Base * Nib
      <4>1. q3 * Base >= Base * Nib
        BY <1>1, <1>4, <3>2
      <4> QED BY <4>1, <1>1, <1>4
    <3>4. q1 >= Base * Base * Nib
      <4>1. q2 * Base >= (Base * Nib) * Base
        BY <1>1, <3>3
      <4>2. (Base * Nib) * Base = Base * Base * Nib
        BY <1>1
      <4> QED BY <4>1, <4>2, <1>1, <1>3
    <3>5. lba >= Limit
      <4>1. q1 * Base >= (Base * Base * Nib) * Base
        BY <1>1, <3>4
      <4>2. (Base * Base * Nib) * Base = Limit
        BY <1>1 DEF Limit
      <4> QED BY <4>1, <4>2, <1>1, <1>2
    <3> QED BY <3>5, <1>11, IdeConsts
  <2>2. q3 = r4
    BY <2>1, <1>1, <1>5
  <2>3. q2 = r3 + Base * r4
    BY <2>2, <1>1, <1>4
  <2>4. q1 = r2 + Base * (r3 + Base * r4)
    BY <2>3, <1>1, <1>3
  <2> QED BY <2>4, <1>1, <1>2, <1>9
<1> QED BY <1>10, <1>11

-----------------------------------------------------------------------------
\* A step of hd.c, its callers or a drive.
IdeNext ==
  \/ \E what \in {"read_sector", "write_sector"}, r \in Requests : Call(what, r)
  \/ IdeCode
  \/ \E d \in D2 : DriveWorks(d)

\* The status and the words of the drives.
StatusTypes ==
  /\ busy \in [D2 -> BOOLEAN] /\ drq \in [D2 -> BOOLEAN] /\ err \in [D2 -> BOOLEAN]
  /\ cmd \in [D2 -> Commands] /\ fifo \in [D2 -> Seq(Word)] /\ left \in [D2 -> Int]

\* A command changes the status of one drive that is there.
LEMMA CommandTypes ==
  ASSUME IdeTypes, NoDrive, NEW d \in D2, NEW what \in Commands, NEW num \in Int,
         Command(d, what, num), UNCHANGED kind
  PROVE  StatusTypes' /\ NoDrive'
<1>1. CASE kind[d] = "none"
  BY <1>1 DEF Command, IdeTypes, NoDrive, StatusTypes
<1>2. CASE kind[d] # "none"
  <2>1. /\ cmd' = [cmd EXCEPT ![d] = what] /\ busy' = [busy EXCEPT ![d] = TRUE]
        /\ drq' = [drq EXCEPT ![d] = FALSE] /\ err' = [err EXCEPT ![d] = FALSE]
        /\ fifo' = [fifo EXCEPT ![d] = <<>>] /\ left' = [left EXCEPT ![d] = num]
    BY <1>2 DEF Command
  <2>2. <<>> \in Seq(Word)
    OBVIOUS
  <2>3. StatusTypes'
    BY <2>1, <2>2 DEF IdeTypes, StatusTypes
  <2>4. NoDrive'
    BY <2>1, <1>2 DEF IdeTypes, NoDrive
  <2> QED BY <2>3, <2>4
<1> QED BY <1>1, <1>2

\* A word read from the data port: nothing, the next of the sector, or the last.
LEMMA TakeWordCases ==
  ASSUME IdeTypes, NEW d \in D2, TakeWord(d)
  PROVE  \/ (~drq[d] \/ fifo[d] = <<>>) /\ UNCHANGED <<busy, drq, fifo, left, at>>
         \/ /\ drq[d] /\ fifo[d] # <<>> /\ Len(fifo[d]) > 1
            /\ fifo' = [fifo EXCEPT ![d] = Tail(fifo[d])] /\ UNCHANGED <<busy, drq, left, at>>
         \/ /\ drq[d] /\ fifo[d] # <<>> /\ Len(fifo[d]) = 1
            /\ \E more, next \in BOOLEAN :
                 /\ more <=> left[d] > 1
                 /\ next <=> more /\ streams[d] /\ <<d, at + 1>> \notin defects
                 /\ left' = [left EXCEPT ![d] = left[d] - 1]
                 /\ at' = IF more THEN at + 1 ELSE at
                 /\ fifo' = [fifo EXCEPT ![d] = IF next THEN SectorWords(d, at + 1) ELSE <<>>]
                 /\ drq' = [drq EXCEPT ![d] = next]
                 /\ busy' = [busy EXCEPT ![d] = more /\ ~next]
<1>1. CASE ~drq[d] \/ fifo[d] = <<>>
  <2>1. PortWord(d) = Junk
    BY <1>1 DEF PortWord
  <2> QED BY <1>1, <2>1 DEF TakeWord
<1>2. CASE drq[d] /\ fifo[d] # <<>>
  <2>1. PICK l \in Nat \ {0} : l = Len(fifo[d])
    <3>1. fifo[d] \in Seq(Word)
      BY DEF IdeTypes
    <3> QED BY <1>2, <3>1
  <2>2. CASE l > 1
    <3>1. Len(fifo[d]) > 1
      BY <2>1, <2>2
    <3> QED BY <1>2, <3>1 DEF TakeWord
  <2>3. CASE l = 1
    <3>1. Len(fifo[d]) = 1 /\ ~(Len(fifo[d]) > 1)
      BY <2>1, <2>3
    <3> DEFINE m == left[d] > 1
               n == m /\ streams[d] /\ <<d, at + 1>> \notin defects
    <3>2. PICK more \in BOOLEAN : more = m
      <4>1. m = TRUE \/ m = FALSE
        OBVIOUS
      <4> HIDE DEF m
      <4> QED BY <4>1, Zenon
    <3>3. PICK next \in BOOLEAN : next = n
      BY Zenon
    <3>4. /\ left' = [left EXCEPT ![d] = left[d] - 1]
          /\ at' = IF m THEN at + 1 ELSE at
          /\ fifo' = [fifo EXCEPT ![d] = IF n THEN SectorWords(d, at + 1) ELSE <<>>]
          /\ drq' = [drq EXCEPT ![d] = n]
          /\ busy' = [busy EXCEPT ![d] = m /\ ~n]
      BY <1>2, <3>1, Zenon DEF TakeWord
    <3> HIDE DEF m, n
    <3>5. /\ left' = [left EXCEPT ![d] = left[d] - 1]
          /\ at' = IF more THEN at + 1 ELSE at
          /\ fifo' = [fifo EXCEPT ![d] = IF next THEN SectorWords(d, at + 1) ELSE <<>>]
          /\ drq' = [drq EXCEPT ![d] = next]
          /\ busy' = [busy EXCEPT ![d] = more /\ ~next]
      BY <3>2, <3>3, <3>4, Zenon
    <3>6. more <=> left[d] > 1
      BY <3>2 DEF m
    <3>7. next <=> more /\ streams[d] /\ <<d, at + 1>> \notin defects
      BY <3>2, <3>3 DEF n
    <3>8. \E mr, nx \in BOOLEAN :
            /\ mr <=> left[d] > 1
            /\ nx <=> mr /\ streams[d] /\ <<d, at + 1>> \notin defects
            /\ left' = [left EXCEPT ![d] = left[d] - 1]
            /\ at' = IF mr THEN at + 1 ELSE at
            /\ fifo' = [fifo EXCEPT ![d] = IF nx THEN SectorWords(d, at + 1) ELSE <<>>]
            /\ drq' = [drq EXCEPT ![d] = nx]
            /\ busy' = [busy EXCEPT ![d] = mr /\ ~nx]
      <4> WITNESS more \in BOOLEAN, next \in BOOLEAN
      <4> QED BY <3>5, <3>6, <3>7, Zenon
    <3> QED BY <1>2, <3>1, <3>8, Zenon
  <2>4. l > 1 \/ l = 1
    OBVIOUS
  <2> QED BY <2>2, <2>3, <2>4, Zenon
<1> QED BY <1>1, <1>2, Zenon

LEMMA TakeWordTypes ==
  ASSUME IdeTypes, NoDrive, NEW d \in D2, TakeWord(d), UNCHANGED <<kind, err, cmd>>
  PROVE  StatusTypes' /\ NoDrive' /\ at' \in Nat
<1>1. CASE UNCHANGED <<busy, drq, fifo, left, at>>
  BY <1>1 DEF IdeTypes, NoDrive, StatusTypes
<1>2. CASE /\ drq[d] /\ fifo[d] # <<>>
           /\ fifo' = [fifo EXCEPT ![d] = Tail(fifo[d])] /\ UNCHANGED <<busy, drq, left, at>>
  <2>1. Tail(fifo[d]) \in Seq(Word)
    BY <1>2, HeadTailProperties DEF IdeTypes
  <2> QED BY <1>2, <2>1 DEF IdeTypes, NoDrive, StatusTypes
<1>3. ASSUME drq[d], NEW more \in BOOLEAN, NEW next \in BOOLEAN,
             left' = [left EXCEPT ![d] = left[d] - 1],
             at' = IF more THEN at + 1 ELSE at,
             fifo' = [fifo EXCEPT ![d] = IF next THEN SectorWords(d, at + 1) ELSE <<>>],
             drq' = [drq EXCEPT ![d] = next],
             busy' = [busy EXCEPT ![d] = more /\ ~next]
      PROVE  StatusTypes' /\ NoDrive' /\ at' \in Nat
  <2>1. at + 1 \in Nat /\ at' \in Nat
    BY <1>3 DEF IdeTypes
  <2>2. (IF next THEN SectorWords(d, at + 1) ELSE <<>>) \in Seq(Word)
    BY <2>1, SectorFacts
  <2>3. PICK b \in BOOLEAN : b = (more /\ ~next)
    BY Zenon
  <2>4. busy' = [busy EXCEPT ![d] = b]
    BY <1>3, <2>3, Zenon
  <2>5. StatusTypes'
    BY <1>3, <2>2, <2>4 DEF IdeTypes, StatusTypes
  <2>6. kind[d] # "none"
    BY <1>3 DEF NoDrive
  <2>7. NoDrive'
    BY <1>3, <2>4, <2>6 DEF NoDrive, IdeTypes
  <2> QED BY <2>1, <2>5, <2>7
<1> QED BY <1>1, <1>2, <1>3, TakeWordCases

-----------------------------------------------------------------------------
\* The probe: the drives before this one are known, and the drive asked has
\* IDENT or its answer to it, a packet drive neither.
ProbeInv ==
  op = "probe" =>
    /\ pc \in {"issue", "poll", "atapi", "pollatapi"}
    /\ pc # "issue" => drive < 2
    /\ ide_drive = {d \in D2 : d < drive /\ kind[d] = "ata"}
    /\ num_ide_drives = Cardinality(ide_drive)
    /\ \A d \in D2 : cmd[d] # "read_sector"
    /\ pc \in {"poll", "pollatapi"} => select = drive
    /\ pc = "poll" /\ kind[drive] = "ata" =>
         cmd[drive] = "ident" /\ (busy[drive] \/ (drq[drive] /\ fifo[drive] = IdentWords(drive)))
    /\ pc = "poll" /\ kind[drive] = "atapi" => cmd[drive] = "ident" /\ ~drq[drive]
    /\ pc \in {"atapi", "pollatapi"} => kind[drive] # "ata"

\* read_sector waits: the drive has the command and the address, and when it is
\* no longer busy the first sector or an error.
Waiting(D, L, N) ==
  /\ select = D /\ buf = <<>>
  /\ kind[D] # "none" => cmd[D] = "read_sector" /\ left[D] = N
  /\ L < Limit => at = L
  /\ busy[D] => ~err[D]
  /\ kind[D] = "ata" /\ L < Limit /\ ~busy[D] =>
       IF <<D, L>> \in defects THEN err[D]
       ELSE ~err[D] /\ drq[D] /\ fifo[D] = SectorWords(D, L)
  /\ kind[D] = "atapi" /\ ~busy[D] => err[D]

\* The sectors up to s come without a second look at the status.
Good(D, L, s) == s = 0 \/ (streams[D] /\ \A t \in 1 .. s : <<D, L + t>> \notin defects)

\* The words read are those on the disk, and the drive is as far as the buffer.
BufOK(D, L, N) ==
  \A s \in 0 .. N - 1, j \in 1 .. Words :
    s * Words + j <= Len(buf) /\ Good(D, L, s) => buf[s * Words + j] = SectorWords(D, L + s)[j]
DrvOK(D, L, N) ==
  \A s \in 0 .. N - 1, j \in 0 .. Words - 1 :
    Len(buf) = s * Words + j /\ Good(D, L, s) =>
      /\ drq[D] /\ ~busy[D] /\ at = L + s /\ left[D] = N - s
      /\ Len(fifo[D]) = Words - j
      /\ \A i \in 1 .. Words - j : fifo[D][i] = SectorWords(D, L + s)[j + i]

Moving(D, L, N) ==
  /\ select = D
  /\ kind[D] # "none" => cmd[D] = "read_sector"
  /\ kind[D] # "atapi"
  /\ kind[D] = "ata" /\ L < Limit => <<D, L>> \notin defects /\ BufOK(D, L, N) /\ DrvOK(D, L, N)

ReadInv ==
  op = "read_sector" =>
    /\ pc = "issue" => buf = <<>>
    /\ pc = "poll" => Waiting(arg.drive, arg.lba, arg.num)
    /\ pc = "words" => Moving(arg.drive, arg.lba, arg.num)

WriteInv ==
  op = "write_sector" /\ pc \in {"poll", "written"} =>
    select = arg.drive /\ cmd[select] # "read_sector"

IdeInv ==
  /\ IdeTypes /\ NoDrive
  /\ ProbeInv /\ ReadInv /\ WriteInv
  /\ ProbeRight /\ DataRight
  /\ arg.lba < Limit => ErrorSeen

-----------------------------------------------------------------------------
\* IdeInv is kept, an action at a time.
LEMMA CallKeeps ==
  ASSUME IdeInv, NEW what \in {"read_sector", "write_sector"}, NEW r \in Requests, Call(what, r)
  PROVE  IdeInv'
<1>1. IdeTypes /\ NoDrive /\ ProbeRight
  BY DEF IdeInv
<1>2. r \in Request
  BY IdeConsts
<1>3. <<>> \in Seq(Word)
  OBVIOUS
<1>4. IdeTypes' /\ NoDrive'
  BY <1>1, <1>2, <1>3 DEF Call, IdeTypes, NoDrive, worldVars, portVars, probeVars
<1>5. op = "none" /\ op' \in {"read_sector", "write_sector"} /\ pc' = "issue" /\ buf' = <<>>
  BY DEF Call
<1>6. ProbeRight'
  BY <1>1, <1>5 DEF Call, ProbeRight, worldVars, probeVars
<1>7. ProbeInv' /\ ReadInv' /\ WriteInv' /\ DataRight' /\ ErrorSeen'
  BY <1>5 DEF ProbeInv, ReadInv, WriteInv, DataRight, ErrorSeen
<1> QED BY <1>4, <1>6, <1>7 DEF IdeInv

LEMMA IssueKeeps ==
  ASSUME IdeInv, Issue
  PROVE  IdeInv'
<1>1. IdeTypes /\ NoDrive /\ ProbeRight
  BY DEF IdeInv
<1>2. PICK D \in D2, L \in Nat, N \in Nat \ {0} : D = arg.drive /\ L = arg.lba /\ N = arg.num
  BY <1>1 DEF IdeTypes, Request
<1>3. /\ op \in {"read_sector", "write_sector"} /\ op' = op /\ pc' = "poll" /\ select' = D
      /\ at' = Address(Bytes(L)) /\ Command(D, op, N) /\ arg' = arg
      /\ UNCHANGED <<kind, streams, defects, overwritten, buf, drive, num_ide_drives, ide_drive>>
  BY <1>2 DEF Issue, IssueTransfer, worldVars, probeVars
<1>4. op \in Commands /\ N \in Int
  BY <1>3 DEF Commands
<1>5. StatusTypes' /\ NoDrive'
  BY <1>1, <1>3, <1>4, CommandTypes
<1>6. at' \in Nat /\ (L < Limit => at' = L)
  BY <1>3, AddressRight
<1>7. IdeTypes'
  BY <1>1, <1>3, <1>5, <1>6 DEF IdeTypes, StatusTypes
<1>8. ProbeRight'
  BY <1>1, <1>3 DEF ProbeRight
<1>9. ProbeInv' /\ DataRight' /\ ErrorSeen'
  BY <1>3 DEF ProbeInv, DataRight, ErrorSeen
<1>10. /\ kind[D] # "none" => cmd'[D] = op /\ busy'[D] /\ left'[D] = N /\ ~err'[D]
       /\ kind[D] = "none" => cmd'[D] = "none" /\ ~busy'[D]
  <2>1. CASE kind[D] = "none"
    BY <1>1, <1>3, <2>1 DEF Command, NoDrive
  <2>2. CASE kind[D] # "none"
    BY <1>1, <1>3, <2>2 DEF Command, IdeTypes
  <2> QED BY <2>1, <2>2
<1>11. WriteInv'
  BY <1>2, <1>3, <1>10 DEF WriteInv
<1>12. ReadInv'
  <2>1. SUFFICES ASSUME op = "read_sector" PROVE Waiting(D, L, N)'
    BY <1>2, <1>3 DEF ReadInv
  <2>2. buf = <<>>
    BY <2>1 DEF IdeInv, ReadInv, Issue
  <2> QED BY <1>3, <1>6, <1>10, <2>1, <2>2 DEF Waiting
<1> QED BY <1>5, <1>7, <1>8, <1>9, <1>11, <1>12 DEF IdeInv

\* A word's place in the buffer.
LEMMA Place ==
  ASSUME NEW s \in Nat
  PROVE  /\ s * Words \in Nat
         /\ s * Words = 0 => s = 0
         /\ (s + 1) * Words = s * Words + Words
         /\ \A n \in Nat : s < n => (s + 1) * Words <= Words * n
<1>1. Words \in Nat \ {0}
  BY IdeConsts
<1>2. ASSUME NEW n \in Nat, s < n PROVE (s + 1) * Words <= Words * n
  <2>1. PICK k \in Nat : n = s + 1 + k
    <3>1. n - s - 1 \in Nat
      BY <1>2
    <3> WITNESS n - s - 1 \in Nat
    <3> QED OBVIOUS
  <2>2. Words * n = (s + 1) * Words + k * Words
    BY <2>1, <1>1
  <2>3. k * Words \in Nat /\ (s + 1) * Words \in Nat
    BY <1>1
  <2> QED BY <2>2, <2>3
<1> QED BY <1>1, <1>2

\* What the routines that only return leave alone.
LEMMA ReturnTypes ==
  ASSUME IdeTypes, NoDrive, UNCHANGED <<kind, streams, defects, portVars, arg, buf, drive>>,
         op' \in {"none", "read_sector"}
  PROVE  IdeTypes' /\ NoDrive'
  BY DEF IdeTypes, NoDrive, portVars

LEMMA ReadTestKeeps ==
  ASSUME IdeInv, ReadTest
  PROVE  IdeInv'
<1>1. IdeTypes /\ NoDrive /\ ProbeRight /\ ReadInv
  BY DEF IdeInv
<1>2. PICK D \in D2, L \in Nat, N \in Nat \ {0} : D = arg.drive /\ L = arg.lba /\ N = arg.num
  BY <1>1 DEF IdeTypes, Request
<1>3. /\ op = "read_sector" /\ pc = "poll" /\ ~busy[select] /\ arg' = arg
      /\ UNCHANGED <<kind, streams, defects, overwritten, select, regs, cmd, busy, drq, err, fifo, left, at,
                     buf, drive, num_ide_drives, ide_drive>>
  BY DEF ReadTest, Polled, worldVars, portVars, probeVars
<1>4. Waiting(D, L, N)
  BY <1>1, <1>2, <1>3 DEF ReadInv
<1>5. op' \in {"none", "read_sector"}
  BY <1>3 DEF ReadTest, Return
<1>6. IdeTypes' /\ NoDrive'
  BY <1>1, <1>3, <1>5, ReturnTypes DEF portVars
<1>7. ProbeRight' /\ ProbeInv' /\ WriteInv'
  BY <1>1, <1>3, <1>5 DEF ProbeRight, ProbeInv, WriteInv
<1>8. CASE err[select] /\ Return("IO_ERROR")
  <2>1. op' = "none" /\ result' = "IO_ERROR"
    BY <1>8 DEF Return
  <2>2. ReadInv' /\ DataRight'
    BY <2>1 DEF ReadInv, DataRight
  <2>3. ASSUME L < Limit PROVE ErrorSeen'
    <3>1. SUFFICES ASSUME kind[D] # "none" PROVE kind[D] = "atapi" \/ <<D, L>> \in defects
      BY <1>2, <1>3, <2>1 DEF ErrorSeen
    <3>2. CASE kind[D] = "ata"
      BY <1>3, <1>4, <1>8, <2>3, <3>2 DEF Waiting
    <3>3. kind[D] \in {"ata", "atapi", "none"}
      BY <1>1 DEF IdeTypes
    <3> QED BY <3>1, <3>2, <3>3
  <2> QED BY <1>2, <1>3, <1>6, <1>7, <2>2, <2>3 DEF IdeInv
<1>9. CASE ~err[select] /\ pc' = "words" /\ UNCHANGED <<op, result>>
  <2>1. DataRight' /\ ErrorSeen'
    BY <1>3, <1>9 DEF DataRight, ErrorSeen
  <2>2. ASSUME kind[D] = "ata", L < Limit
        PROVE  <<D, L>> \notin defects /\ BufOK(D, L, N)' /\ DrvOK(D, L, N)'
    <3>1. /\ <<D, L>> \notin defects /\ drq[D] /\ ~busy[D] /\ fifo[D] = SectorWords(D, L) /\ at = L
          /\ left[D] = N /\ buf = <<>>
      BY <1>3, <1>4, <1>9, <2>2 DEF Waiting
    <3>2. Len(buf) = 0 /\ buf' = buf
      BY <3>1, <1>3
    <3>3. Words \in Nat
      BY IdeConsts
    <3>4. BufOK(D, L, N)'
      <4>1. SUFFICES ASSUME NEW s \in 0 .. N - 1, NEW j \in 1 .. Words, s * Words + j <= 0 PROVE FALSE
        BY <3>2 DEF BufOK
      <4>2. s * Words \in Nat
        BY Place
      <4> QED BY <3>3, <4>1, <4>2
    <3>5. DrvOK(D, L, N)'
      <4>1. SUFFICES ASSUME NEW s \in 0 .. N - 1, NEW j \in 0 .. Words - 1, 0 = s * Words + j
            PROVE  /\ drq'[D] /\ ~busy'[D] /\ at' = L + s /\ left'[D] = N - s
                   /\ Len(fifo'[D]) = Words - j
                   /\ \A i \in 1 .. Words - j : fifo'[D][i] = SectorWords(D, L + s)'[j + i]
        BY <3>2 DEF DrvOK
      <4>2. PICK p \in Nat : p = s * Words /\ (p = 0 => s = 0)
        BY Place
      <4>3. s = 0 /\ j = 0
        BY <4>1, <4>2, <3>3
      <4>4. SectorWords(D, L + 0)' = fifo[D] /\ Len(fifo[D]) = Words
        <5>1. L + 0 = L
          OBVIOUS
        <5>2. SectorWords(D, L)' = SectorWords(D, L)
          BY <1>3 DEF SectorWords
        <5> QED BY <3>1, <5>1, <5>2, SectorFacts
      <4> QED BY <1>3, <3>1, <3>3, <4>3, <4>4
    <3> QED BY <3>1, <3>4, <3>5
  <2>3. kind[D] # "atapi"
    BY <1>3, <1>4, <1>9 DEF Waiting
  <2>4. Moving(D, L, N)'
    BY <1>3, <1>4, <2>2, <2>3 DEF Moving, Waiting
  <2>5. ReadInv'
    BY <1>2, <1>3, <1>9, <2>4 DEF ReadInv
  <2> QED BY <1>6, <1>7, <2>1, <2>5 DEF IdeInv
<1> QED BY <1>8, <1>9 DEF ReadTest

LEMMA ReadWordKeeps ==
  ASSUME IdeInv, ReadWord
  PROVE  IdeInv'
<1>1. IdeTypes /\ NoDrive /\ ProbeRight /\ ReadInv
  BY DEF IdeInv
<1>2. PICK D \in D2, L \in Nat, N \in Nat \ {0} : D = arg.drive /\ L = arg.lba /\ N = arg.num
  BY <1>1 DEF IdeTypes, Request
<1>3. /\ op = "read_sector" /\ pc = "words" /\ buf' = Append(buf, PortWord(select)) /\ TakeWord(select)
      /\ UNCHANGED <<kind, streams, defects, overwritten, select, regs, cmd, err, op, pc, arg, result,
                     drive, num_ide_drives, ide_drive>>
  BY DEF ReadWord, worldVars, probeVars
<1>4. Moving(D, L, N)
  BY <1>1, <1>2, <1>3 DEF ReadInv
<1>5. select = D
  BY <1>4 DEF Moving
<1>6. PICK w \in Word : /\ w = PortWord(D)
                        /\ drq[D] /\ fifo[D] # <<>> => w = fifo[D][1]
  <2>1. fifo[D] \in Seq(Word)
    BY <1>1 DEF IdeTypes
  <2>2. Junk \in Word
    BY DEF Word
  <2> QED BY <2>1, <2>2 DEF PortWord
<1>7. buf \in Seq(Word)
  BY <1>1 DEF IdeTypes
<1>8. PICK n \in Nat : /\ n = Len(buf) /\ Len(buf') = n + 1 /\ buf' \in Seq(Word) /\ buf'[n + 1] = w
                       /\ \A i \in 1 .. n : buf'[i] = buf[i]
  <2>1. buf' = Append(buf, w)
    BY <1>3, <1>5, <1>6
  <2> QED BY <2>1, <1>7, AppendProperties
<1>9. StatusTypes' /\ NoDrive' /\ at' \in Nat
  BY <1>1, <1>3, <1>5, TakeWordTypes
<1>10. IdeTypes'
  BY <1>1, <1>3, <1>8, <1>9 DEF IdeTypes, StatusTypes
<1>11. ProbeRight' /\ ProbeInv' /\ WriteInv' /\ DataRight' /\ ErrorSeen'
  BY <1>1, <1>3 DEF ProbeRight, ProbeInv, WriteInv, DataRight, ErrorSeen
<1>12. ASSUME kind[D] = "ata", L < Limit
       PROVE  BufOK(D, L, N)' /\ DrvOK(D, L, N)'
  <2>1. BufOK(D, L, N) /\ DrvOK(D, L, N)
    BY <1>4, <1>12 DEF Moving
  <2>2. \A s \in Nat : (Good(D, L, s)' <=> Good(D, L, s)) /\ SectorWords(D, L + s)' = SectorWords(D, L + s)
    BY <1>3 DEF Good, SectorWords
  <2>3. PICK W \in Nat \ {0} : W = Words
    BY IdeConsts
  <2>4. BufOK(D, L, N)'
    <3> SUFFICES ASSUME NEW s \in 0 .. N - 1, NEW j \in 1 .. Words,
                        s * Words + j <= Len(buf'), Good(D, L, s)'
                 PROVE  buf'[s * Words + j] = SectorWords(D, L + s)'[j]
      BY Zenon DEF BufOK
    <3> s \in Nat
      OBVIOUS
    <3>1. s * Words + j <= n + 1 /\ Good(D, L, s)
      BY <1>8, <2>2
    <3>7. SectorWords(D, L + s)' = SectorWords(D, L + s)
      BY <2>2
    <3>2. PICK p \in Nat : p = s * Words
      BY Place
    <3>3. CASE p + j <= n
      <4>1. p + j \in 1 .. n /\ s * Words + j <= Len(buf)
        BY <2>3, <3>2, <3>3, <1>8
      <4>2. buf[s * Words + j] = SectorWords(D, L + s)[j]
        BY <2>1, <3>1, <4>1 DEF BufOK
      <4> QED BY <1>8, <3>7, <3>2, <4>1, <4>2
    <3>4. CASE p + j = n + 1
      <4>1. PICK i \in 0 .. Words - 1 : i = j - 1 /\ Len(buf) = s * Words + i
        BY <2>3, <3>2, <3>4, <1>8, SMTT(30)
      <4>2. drq[D] /\ Len(fifo[D]) = Words - i
            /\ \A k \in 1 .. Words - i : fifo[D][k] = SectorWords(D, L + s)[i + k]
        BY <2>1, <3>1, <4>1 DEF DrvOK
      <4>3. fifo[D][1] = SectorWords(D, L + s)[j]
        <5>1. 1 \in 1 .. Words - i /\ i + 1 = j
          BY <2>3, <4>1
        <5>2. fifo[D][1] = SectorWords(D, L + s)[i + 1]
          BY <4>2, <5>1, Zenon
        <5> QED BY <5>1, <5>2, Zenon
      <4>4. fifo[D] # <<>>
        <5>1. Words - i >= 1 /\ fifo[D] \in Seq(Word)
          BY <2>3, <4>1, <1>1 DEF IdeTypes
        <5> QED BY <4>2, <5>1
      <4> QED BY <1>6, <1>8, <3>7, <3>2, <3>4, <4>2, <4>3, <4>4
    <3>5. p + j <= n \/ p + j = n + 1
      BY <2>3, <3>1, <3>2
    <3> QED BY <3>3, <3>4, <3>5, Zenon
  <2>5. DrvOK(D, L, N)'
    <3> SUFFICES ASSUME NEW s \in 0 .. N - 1, NEW j \in 0 .. Words - 1,
                        Len(buf') = s * Words + j, Good(D, L, s)'
                 PROVE  /\ drq'[D] /\ ~busy'[D] /\ at' = L + s /\ left'[D] = N - s
                        /\ Len(fifo'[D]) = Words - j
                        /\ \A i \in 1 .. Words - j : fifo'[D][i] = SectorWords(D, L + s)'[j + i]
      BY Zenon DEF DrvOK
    <3> s \in Nat
      OBVIOUS
    <3>1. n + 1 = s * Words + j /\ Good(D, L, s)
      BY <1>8, <2>2
    <3>7. SectorWords(D, L + s)' = SectorWords(D, L + s)
      BY <2>2
    <3>2. PICK p \in Nat : p = s * Words /\ (p = 0 => s = 0)
      BY Place
    <3>3. fifo[D] \in Seq(Word)
      BY <1>1 DEF IdeTypes
    <3>4. CASE j >= 1
      <4>1. PICK i \in 0 .. Words - 1 : i = j - 1 /\ Len(buf) = s * Words + i
        BY <2>3, <3>1, <3>2, <3>4, <1>8
      <4>2. /\ drq[D] /\ ~busy[D] /\ at = L + s /\ left[D] = N - s /\ Len(fifo[D]) = Words - i
            /\ \A k \in 1 .. Words - i : fifo[D][k] = SectorWords(D, L + s)[i + k]
        BY <2>1, <3>1, <4>1 DEF DrvOK
      <4>3. Words - i > 1 /\ Words - i \in Nat
        BY <2>3, <3>4, <4>1
      <4>4. fifo[D] # <<>> /\ Len(fifo[D]) > 1 /\ ~(Len(fifo[D]) = 1)
        BY <3>3, <4>2, <4>3
      <4>5. fifo' = [fifo EXCEPT ![D] = Tail(fifo[D])] /\ UNCHANGED <<busy, drq, left, at>>
        BY <1>1, <1>3, <1>5, <4>2, <4>4, TakeWordCases, ZenonT(30)
      <4>6. fifo'[D] = Tail(fifo[D])
        BY <1>1, <4>5 DEF IdeTypes
      <4>7. Len(fifo'[D]) = Words - i - 1 /\ \A k \in 1 .. Words - i - 1 : fifo'[D][k] = fifo[D][k + 1]
        BY <3>3, <4>2, <4>3, <4>4, <4>6, HeadTailProperties
      <4>8. Words - i - 1 = Words - j
        BY <2>3, <4>1
      <4>9. ASSUME NEW k \in 1 .. Words - j PROVE fifo'[D][k] = SectorWords(D, L + s)[j + k]
        <5>1. k + 1 \in 1 .. Words - i /\ i + (k + 1) = j + k /\ k \in 1 .. Words - i - 1
          BY <2>3, <4>1
        <5> QED BY <4>2, <4>7, <5>1
      <4> QED BY <3>7, <4>2, <4>5, <4>7, <4>8, <4>9
    <3>5. CASE j = 0
      <4>1. s >= 1
        BY <2>3, <3>1, <3>2, <3>5
      <4>2. PICK t \in 0 .. N - 1 : t = s - 1 /\ s = t + 1
        BY <4>1
      <4>3. Good(D, L, t) /\ streams[D] /\ <<D, L + s>> \notin defects
        <5>1. streams[D] /\ \A u \in 1 .. s : <<D, L + u>> \notin defects
          <6>1. s # 0
            BY <4>1
          <6> QED BY <3>1, <6>1, Zenon DEF Good
        <5>2. \A u \in 1 .. t : u \in 1 .. s
          BY <4>2
        <5>3. Good(D, L, t)
          BY <5>1, <5>2, Zenon DEF Good
        <5>4. s \in 1 .. s
          BY <4>1
        <5>5. <<D, L + s>> \notin defects
          BY <5>1, <5>4, Zenon
        <5> QED BY <5>1, <5>3, <5>5, Zenon
      <4>4. PICK i \in 0 .. Words - 1 : i = Words - 1 /\ Len(buf) = t * Words + i
        <5>1. PICK q \in Nat : q = t * Words /\ s * Words = q + Words
          <6>1. t \in Nat /\ (t + 1) * Words = s * Words
            BY <4>2
          <6> QED BY <6>1, Place
        <5>2. PICK i \in 0 .. Words - 1 : i = Words - 1
          BY <2>3
        <5>3. n = q + i
          BY <2>3, <3>1, <3>5, <5>1, <5>2
        <5> QED BY <5>1, <5>2, <5>3, <1>8
      <4>5. drq[D] /\ ~busy[D] /\ at = L + t /\ left[D] = N - t /\ Len(fifo[D]) = Words - i
        BY <2>1, <4>3, <4>4 DEF DrvOK
      <4>6. Len(fifo[D]) = 1 /\ fifo[D] # <<>> /\ ~(Len(fifo[D]) > 1)
        <5>1. Words - i = 1
          BY <2>3, <4>4
        <5> QED BY <3>3, <4>5, <5>1
      <4>7. left[D] > 1 /\ left[D] - 1 = N - s /\ at + 1 = L + s
        BY <4>2, <4>5
      <4>8. PICK more \in BOOLEAN, next \in BOOLEAN :
              /\ more <=> left[D] > 1
              /\ next <=> more /\ streams[D] /\ <<D, at + 1>> \notin defects
              /\ left' = [left EXCEPT ![D] = left[D] - 1]
              /\ at' = IF more THEN at + 1 ELSE at
              /\ fifo' = [fifo EXCEPT ![D] = IF next THEN SectorWords(D, at + 1) ELSE <<>>]
              /\ drq' = [drq EXCEPT ![D] = next]
              /\ busy' = [busy EXCEPT ![D] = more /\ ~next]
        BY <1>1, <1>3, <1>5, <4>5, <4>6, TakeWordCases, Zenon
      <4>9. more = TRUE /\ next = TRUE
        BY <4>3, <4>7, <4>8
      <4>10. /\ left' = [left EXCEPT ![D] = N - s] /\ at' = L + s
             /\ fifo' = [fifo EXCEPT ![D] = SectorWords(D, L + s)]
             /\ drq' = [drq EXCEPT ![D] = TRUE] /\ busy' = [busy EXCEPT ![D] = FALSE]
        <5>1. (TRUE /\ ~TRUE) = FALSE
          OBVIOUS
        <5> QED BY <4>7, <4>8, <4>9, <5>1, Zenon
      <4>11. drq'[D] /\ ~busy'[D] /\ at' = L + s /\ left'[D] = N - s /\ fifo'[D] = SectorWords(D, L + s)
        BY <1>1, <4>10 DEF IdeTypes
      <4>12. Len(SectorWords(D, L + s)) = Words
        BY SectorFacts
      <4> QED BY <2>3, <3>7, <3>5, <4>11, <4>12
    <3>6. j >= 1 \/ j = 0
      BY <2>3
    <3> QED BY <3>4, <3>5, <3>6, Zenon
  <2> QED BY <2>4, <2>5
<1>13. Moving(D, L, N)'
  BY <1>3, <1>4, <1>12 DEF Moving
<1>14. ReadInv'
  BY <1>2, <1>3, <1>13 DEF ReadInv
<1> QED BY <1>9, <1>10, <1>11, <1>14 DEF IdeInv

LEMMA ReadDoneKeeps ==
  ASSUME IdeInv, ReadDone
  PROVE  IdeInv'
<1>1. IdeTypes /\ NoDrive /\ ProbeRight /\ ReadInv
  BY DEF IdeInv
<1>2. PICK D \in D2, L \in Nat, N \in Nat \ {0} : D = arg.drive /\ L = arg.lba /\ N = arg.num
  BY <1>1 DEF IdeTypes, Request
<1>3. /\ op = "read_sector" /\ pc = "words" /\ op' = "none" /\ result' = "NOERROR" /\ Len(buf) = Words * N
      /\ UNCHANGED <<kind, streams, defects, overwritten, select, regs, cmd, busy, drq, err, fifo, left, at,
                     arg, buf, drive, num_ide_drives, ide_drive>>
  BY <1>2 DEF ReadDone, Return, worldVars, portVars, probeVars
<1>4. Moving(D, L, N)
  BY <1>1, <1>2, <1>3 DEF ReadInv
<1>5. IdeTypes' /\ NoDrive'
  BY <1>1, <1>3, ReturnTypes DEF portVars
<1>6. ProbeRight' /\ ProbeInv' /\ WriteInv' /\ ReadInv'
  BY <1>1, <1>3 DEF ProbeRight, ProbeInv, WriteInv, ReadInv
<1>7. ASSUME L < Limit PROVE ErrorSeen'
  <2>1. SUFFICES ASSUME kind[D] # "none" PROVE ~(kind[D] = "atapi" \/ <<D, L>> \in defects)
    BY <1>2, <1>3 DEF ErrorSeen
  <2>2. kind[D] \in {"ata", "atapi", "none"}
    BY <1>1 DEF IdeTypes
  <2> QED BY <1>4, <1>7, <2>1, <2>2 DEF Moving
<1>8. DataRight'
  <2>1. SUFFICES ASSUME kind[D] = "ata", L < Limit, NEW s \in 0 .. N - 1, Good(D, L, s)
                 PROVE  SubSeq(buf, s * Words + 1, (s + 1) * Words) = SectorWords(D, L + s)
    <3>1. \A s \in 0 .. N - 1 : SectorWords(D, L + s)' = SectorWords(D, L + s)
      BY <1>3 DEF SectorWords
    <3>2. /\ arg'.drive = D /\ arg'.lba = L /\ arg'.num = N /\ buf' = buf
          /\ kind' = kind /\ streams' = streams /\ defects' = defects
      BY <1>2, <1>3
    <3> SUFFICES ASSUME kind'[D] = "ata", L < Limit, NEW s \in 0 .. N - 1,
                        s = 0 \/ (streams'[D] /\ \A t \in 1 .. s : <<D, L + t>> \notin defects')
                 PROVE  SubSeq(buf', s * Words + 1, (s + 1) * Words) = SectorWords(D, L + s)'
      BY <3>2 DEF DataRight, Limit
    <3> QED BY <3>1, <3>2 DEF Good
  <2>2. BufOK(D, L, N)
    BY <1>4, <2>1 DEF Moving
  <2>3. PICK W \in Nat \ {0} : W = Words
    BY IdeConsts
  <2>4. s \in Nat /\ s < N
    OBVIOUS
  <2>5. PICK p \in Nat : p = s * Words /\ (s + 1) * Words = p + W /\ p + W <= Len(buf)
    BY <1>3, <2>3, <2>4, Place
  <2>6. buf \in Seq(Word) /\ Len(buf) \in Nat
    BY <1>1 DEF IdeTypes
  <2>7. /\ Len(SubSeq(buf, p + 1, p + W)) = W /\ SubSeq(buf, p + 1, p + W) \in Seq(Word)
        /\ \A i \in 1 .. W : SubSeq(buf, p + 1, p + W)[i] = buf[p + i]
    <3>1. \A i \in p + 1 .. p + W : buf[i] \in Word
      BY <2>5, <2>6
    <3>2. /\ SubSeq(buf, p + 1, p + W) \in Seq(Word)
          /\ Len(SubSeq(buf, p + 1, p + W)) = p + W - (p + 1) + 1
          /\ \A i \in 1 .. p + W - (p + 1) + 1 : SubSeq(buf, p + 1, p + W)[i] = buf[p + 1 + i - 1]
      BY <2>5, <2>6, <3>1, SubSeqProperties, SMTT(30)
    <3>3. p + W - (p + 1) + 1 = W /\ \A i \in 1 .. W : p + 1 + i - 1 = p + i
      OBVIOUS
    <3> QED BY <3>2, <3>3
  <2>8. ASSUME NEW i \in 1 .. W PROVE SubSeq(buf, p + 1, p + W)[i] = SectorWords(D, L + s)[i]
    <3>1. i \in 1 .. Words /\ s * Words + i <= Len(buf)
      BY <2>3, <2>5, <2>6
    <3>2. buf[s * Words + i] = SectorWords(D, L + s)[i]
      BY <2>1, <2>2, <3>1 DEF BufOK
    <3> QED BY <2>5, <2>7, <3>2
  <2>9. SectorWords(D, L + s) \in Seq(Word) /\ Len(SectorWords(D, L + s)) = W
    BY <2>3, <2>4, SectorFacts
  <2>10. SubSeq(buf, p + 1, p + W) = SectorWords(D, L + s)
    BY <2>7, <2>8, <2>9, SeqEqual
  <2> QED BY <2>5, <2>10
<1> QED BY <1>2, <1>3, <1>5, <1>6, <1>7, <1>8 DEF IdeInv

LEMMA WriteKeeps ==
  ASSUME IdeInv, WriteWords \/ WriteDone
  PROVE  IdeInv'
<1>1. IdeTypes /\ NoDrive /\ ProbeRight /\ WriteInv
  BY DEF IdeInv
<1>2. CASE WriteWords
  <2>1. /\ op = "write_sector" /\ op' = op /\ pc = "poll" /\ ~busy[select]
        /\ buf' = [k \in 1 .. Words * arg.num |-> Junk]
        /\ drq' = [drq EXCEPT ![select] = FALSE] /\ busy' = [busy EXCEPT ![select] = drq[select]]
        /\ UNCHANGED <<kind, streams, defects, select, regs, cmd, err, fifo, left, at, arg, result,
                       drive, num_ide_drives, ide_drive>>
    BY <1>2 DEF WriteWords, Polled, worldVars, probeVars
  <2>2. buf' \in Seq(Word)
    <3>1. PICK n \in Nat : n = Words * arg.num
      BY <1>1, IdeConsts DEF IdeTypes, Request
    <3>2. \A k \in 1 .. n : Junk \in Word
      BY DEF Word
    <3> QED BY <2>1, <3>1, <3>2, IsASeq
  <2>3. PICK S \in D2 : S = select
    BY <1>1 DEF IdeTypes
  <2>4. PICK b \in BOOLEAN : b = drq[S]
    BY <1>1 DEF IdeTypes
  <2>5. busy' = [busy EXCEPT ![S] = b] /\ drq' = [drq EXCEPT ![S] = FALSE]
    BY <2>1, <2>3, <2>4, Zenon
  <2>6. IdeTypes'
    BY <1>1, <2>1, <2>2, <2>5 DEF IdeTypes
  <2>7. NoDrive'
    BY <1>1, <2>1, <2>4, <2>5 DEF NoDrive, IdeTypes
  <2>8. ProbeInv' /\ ProbeRight' /\ ReadInv' /\ DataRight' /\ ErrorSeen'
    BY <1>1, <2>1 DEF ProbeInv, ProbeRight, ReadInv, DataRight, ErrorSeen
  <2>9. WriteInv'
    BY <1>1, <2>1 DEF WriteInv
  <2> QED BY <2>6, <2>7, <2>8, <2>9 DEF IdeInv
<1>3. CASE WriteDone
  <2>1. /\ op = "write_sector" /\ op' = "none" /\ pc = "written"
        /\ UNCHANGED <<kind, streams, defects, overwritten, select, regs, cmd, busy, drq, err, fifo, left, at,
                       arg, buf, drive, num_ide_drives, ide_drive>>
    BY <1>3 DEF WriteDone, Return, worldVars, portVars, probeVars
  <2>2. IdeTypes' /\ NoDrive'
    BY <1>1, <2>1, ReturnTypes DEF portVars
  <2>3. cmd'[select'] # "read_sector"
    BY <1>1, <2>1 DEF WriteInv
  <2>4. ProbeInv' /\ ProbeRight' /\ ReadInv' /\ WriteInv' /\ DataRight' /\ ErrorSeen'
    BY <1>1, <2>1, <2>3 DEF ProbeInv, ProbeRight, ReadInv, WriteInv, DataRight, ErrorSeen
  <2> QED BY <2>2, <2>4 DEF IdeInv
<1> QED BY <1>2, <1>3

-----------------------------------------------------------------------------
\* The steps of the probe.
LEMMA ProbeOnly ==
  ASSUME op' = "probe"
  PROVE  ReadInv' /\ WriteInv' /\ ProbeRight' /\ DataRight' /\ ErrorSeen'
  BY DEF ReadInv, WriteInv, ProbeRight, DataRight, ErrorSeen

LEMMA ProbeIssueKeeps ==
  ASSUME IdeInv, ProbeIssue
  PROVE  IdeInv'
<1>1. IdeTypes /\ NoDrive /\ ProbeInv
  BY DEF IdeInv
<1>2. PICK V \in D2 : V = drive
  BY <1>1 DEF ProbeIssue, IdeTypes, D2
<1>3. PICK what \in {"ident", "atapi_ident"} :
        /\ what = (IF pc = "issue" THEN "ident" ELSE "atapi_ident")
        /\ Command(V, what, 1)
  <2>1. (IF pc = "issue" THEN "ident" ELSE "atapi_ident") \in {"ident", "atapi_ident"}
    OBVIOUS
  <2> QED BY <1>2, <2>1 DEF ProbeIssue
<1>4. /\ op = "probe" /\ op' = "probe" /\ pc \in {"issue", "atapi"} /\ select' = V
      /\ pc' = (IF pc = "issue" THEN "poll" ELSE "pollatapi")
      /\ UNCHANGED <<kind, streams, defects, overwritten, regs, at, arg, buf, result,
                     drive, num_ide_drives, ide_drive>>
  BY <1>2 DEF ProbeIssue, worldVars, probeVars
<1>5. what \in Commands
  BY DEF Commands
<1>6. StatusTypes' /\ NoDrive'
  BY <1>1, <1>3, <1>4, <1>5, CommandTypes
<1>7. IdeTypes'
  BY <1>1, <1>4, <1>6 DEF IdeTypes, StatusTypes
<1>8. /\ kind[V] # "none" => cmd'[V] = what /\ busy'[V] /\ ~drq'[V]
      /\ \A d \in D2 : cmd'[d] # "read_sector"
  <2>1. \A d \in D2 : cmd[d] # "read_sector"
    BY <1>1, <1>4 DEF ProbeInv
  <2>2. CASE kind[V] = "none"
    BY <1>3, <2>1, <2>2 DEF Command
  <2>3. CASE kind[V] # "none"
    BY <1>1, <1>3, <2>1, <2>3 DEF Command, IdeTypes
  <2> QED BY <2>2, <2>3
<1>9. ProbeInv'
  <2>1. /\ ide_drive' = {d \in D2 : d < drive' /\ kind'[d] = "ata"}
        /\ num_ide_drives' = Cardinality(ide_drive')
    BY <1>1, <1>4 DEF ProbeInv
  <2>2. drive' < 2 /\ drive' = V
    BY <1>2, <1>4 DEF D2
  <2>3. CASE pc = "issue"
    BY <1>3, <1>4, <1>8, <2>1, <2>2, <2>3 DEF ProbeInv
  <2>4. CASE pc = "atapi"
    <3>1. kind[V] # "ata"
      BY <1>1, <1>2, <1>4, <2>4 DEF ProbeInv
    <3> QED BY <1>3, <1>4, <1>8, <2>1, <2>2, <2>4, <3>1 DEF ProbeInv
  <2> QED BY <1>4, <2>3, <2>4
<1> QED BY <1>4, <1>6, <1>7, <1>9, ProbeOnly DEF IdeInv

\* The set of hard disks found, one drive later.
LEMMA OneMore ==
  ASSUME NEW V \in D2, NEW K, NEW S, S = {d \in D2 : d < V /\ K[d] = "ata"}
  PROVE  /\ K[V] = "ata" => S \union {V} = {d \in D2 : d < V + 1 /\ K[d] = "ata"}
         /\ K[V] # "ata" => S = {d \in D2 : d < V + 1 /\ K[d] = "ata"}
<1>1. \A d \in D2 : d < V + 1 <=> d < V \/ d = V
  BY DEF D2
<1>2. K[V] = "ata" => S \union {V} = {d \in D2 : d < V + 1 /\ K[d] = "ata"}
  BY <1>1
<1>3. K[V] # "ata" => S = {d \in D2 : d < V + 1 /\ K[d] = "ata"}
  BY <1>1
<1> QED BY <1>2, <1>3

LEMMA OneMoreCounted ==
  ASSUME NEW V \in D2, NEW S, S \subseteq D2, V \notin S
  PROVE  Cardinality(S \union {V}) = Cardinality(S) + 1
<1>1. 0 \in Int /\ 1 \in Int
  OBVIOUS
<1>2. IsFiniteSet(D2)
  BY <1>1, FS_Interval, Zenon DEF D2
<1>3. IsFiniteSet(S)
  BY <1>2, FS_Subset, Zenon
<1> QED BY <1>3, FS_AddElement

LEMMA ProbeAtaKeeps ==
  ASSUME IdeInv, ProbeAta
  PROVE  IdeInv'
<1>1. IdeTypes /\ NoDrive /\ ProbeInv
  BY DEF IdeInv
<1>2. /\ op = "probe" /\ op' = "probe" /\ pc = "poll" /\ pc' = "issue" /\ ~busy[select] /\ drq[select]
      /\ ide_drive' = (IF fifo[select] = IdentWords(drive) THEN ide_drive \union {drive} ELSE ide_drive)
      /\ fifo' = [fifo EXCEPT ![select] = <<>>] /\ drq' = [drq EXCEPT ![select] = FALSE]
      /\ num_ide_drives' = num_ide_drives + 1 /\ drive' = drive + 1
      /\ UNCHANGED <<kind, streams, defects, overwritten, select, regs, cmd, busy, err, left, at, arg, buf, result>>
  BY DEF ProbeAta, Polled, worldVars
<1>3. drive < 2 /\ select = drive
  BY <1>1, <1>2 DEF ProbeInv
<1>4. PICK V \in D2 : V = drive /\ V = select
  BY <1>1, <1>3 DEF IdeTypes, D2
<1>5. kind[V] = "ata" /\ fifo[V] = IdentWords(V)
  <2>1. kind[V] \in {"ata", "atapi", "none"}
    BY <1>1 DEF IdeTypes
  <2>2. kind[V] # "none"
    BY <1>1, <1>2, <1>4 DEF NoDrive
  <2>3. kind[V] # "atapi"
    BY <1>1, <1>2, <1>4 DEF ProbeInv
  <2> QED BY <1>1, <1>2, <1>4, <2>1, <2>2, <2>3 DEF ProbeInv
<1>6. ide_drive = {d \in D2 : d < V /\ kind[d] = "ata"} /\ num_ide_drives = Cardinality(ide_drive)
  BY <1>1, <1>2, <1>4 DEF ProbeInv
<1>7. ide_drive' = ide_drive \union {V}
  BY <1>2, <1>4, <1>5
<1>8. /\ ide_drive' = {d \in D2 : d < V + 1 /\ kind[d] = "ata"}
      /\ num_ide_drives' = Cardinality(ide_drive')
  <2>1. PICK S : S = ide_drive
    OBVIOUS
  <2>2. S = {d \in D2 : d < V /\ kind[d] = "ata"}
    BY <1>6, <2>1, Zenon
  <2>3. /\ S \union {V} = {d \in D2 : d < V + 1 /\ kind[d] = "ata"}
        /\ Cardinality(S \union {V}) = Cardinality(S) + 1
    <3>1. kind[V] = "ata"
      BY <1>5
    <3>2. S \union {V} = {d \in D2 : d < V + 1 /\ kind[d] = "ata"}
      BY <2>2, <3>1, OneMore, Zenon
    <3>3. S \subseteq D2 /\ V \notin S
      BY <2>2 DEF D2
    <3>4. Cardinality(S \union {V}) = Cardinality(S) + 1
      BY <3>3, OneMoreCounted
    <3> QED BY <3>2, <3>4, Zenon
  <2> QED BY <1>2, <1>6, <1>7, <2>1, <2>3, Zenon
<1>9. drive' \in 0 .. 2 /\ drive' = V + 1
  BY <1>2, <1>4 DEF D2
<1>10. <<>> \in Seq(Word)
  OBVIOUS
<1>11. IdeTypes'
  BY <1>1, <1>2, <1>4, <1>9, <1>10 DEF IdeTypes
<1>12. NoDrive'
  BY <1>1, <1>2, <1>4, <1>5 DEF NoDrive, IdeTypes
<1>13. ProbeInv'
  BY <1>1, <1>2, <1>8, <1>9 DEF ProbeInv
<1> QED BY <1>2, <1>11, <1>12, <1>13, ProbeOnly DEF IdeInv

LEMMA ProbeRestKeeps ==
  ASSUME IdeInv, ProbeNoAta \/ ProbeAtapi \/ ProbeDone
  PROVE  IdeInv'
<1>1. IdeTypes /\ NoDrive /\ ProbeInv
  BY DEF IdeInv
<1>2. op = "probe" /\ UNCHANGED <<kind, streams, defects, overwritten, select, regs, cmd, busy, drq, err, fifo,
                                  left, at, arg, buf, num_ide_drives, ide_drive>>
  BY DEF ProbeNoAta, ProbeAtapi, ProbeDone, worldVars, portVars, probeVars
<1>3. /\ ide_drive = {d \in D2 : d < drive /\ kind[d] = "ata"} /\ num_ide_drives = Cardinality(ide_drive)
      /\ \A d \in D2 : cmd[d] # "read_sector"
  BY <1>1, <1>2 DEF ProbeInv
<1>4. CASE ProbeNoAta
  <2>1. op' = "probe" /\ pc = "poll" /\ pc' = "atapi" /\ ~busy[select] /\ ~drq[select] /\ drive' = drive
    BY <1>2, <1>4 DEF ProbeNoAta, Polled, probeVars
  <2>2. IdeTypes' /\ NoDrive'
    BY <1>1, <1>2, <2>1 DEF IdeTypes, NoDrive
  <2>3. drive < 2 /\ kind[drive] # "ata"
    BY <1>1, <1>2, <2>1 DEF ProbeInv
  <2>4. ProbeInv'
    BY <1>2, <1>3, <2>1, <2>3 DEF ProbeInv
  <2> QED BY <2>1, <2>2, <2>4, ProbeOnly DEF IdeInv
<1>5. CASE ProbeAtapi
  <2>1. op' = "probe" /\ pc = "pollatapi" /\ pc' = "issue" /\ drive' = drive + 1
    BY <1>2, <1>5 DEF ProbeAtapi
  <2>2. drive < 2 /\ kind[drive] # "ata"
    BY <1>1, <1>2, <2>1 DEF ProbeInv
  <2>3. PICK V \in D2 : V = drive
    BY <1>1, <2>2 DEF IdeTypes, D2
  <2>4. drive' \in 0 .. 2 /\ drive' = V + 1
    BY <2>1, <2>3 DEF D2
  <2>5. IdeTypes' /\ NoDrive'
    BY <1>1, <1>2, <2>1, <2>4 DEF IdeTypes, NoDrive
  <2>6. ide_drive' = {d \in D2 : d < V + 1 /\ kind[d] = "ata"}
    <3>1. PICK S : S = ide_drive
      OBVIOUS
    <3>2. S = {d \in D2 : d < V /\ kind[d] = "ata"}
      BY <1>3, <2>3, <3>1, Zenon
    <3>3. kind[V] # "ata"
      BY <2>2, <2>3
    <3>4. S = {d \in D2 : d < V + 1 /\ kind[d] = "ata"}
      BY <3>2, <3>3, OneMore, Zenon
    <3> QED BY <1>2, <3>1, <3>4, Zenon
  <2>7. ProbeInv'
    BY <1>2, <1>3, <2>1, <2>4, <2>6 DEF ProbeInv
  <2> QED BY <2>1, <2>5, <2>7, ProbeOnly DEF IdeInv
<1>6. CASE ProbeDone
  <2>1. op' = "none" /\ drive = 2 /\ drive' = drive
    BY <1>2, <1>6 DEF ProbeDone, Return, probeVars
  <2>2. IdeTypes' /\ NoDrive'
    BY <1>1, <1>2, <2>1 DEF IdeTypes, NoDrive
  <2>3. ide_drive = {d \in 0 .. 1 : kind[d] = "ata"}
    BY <1>3, <2>1 DEF D2
  <2>4. ProbeRight'
    BY <1>2, <1>3, <2>3 DEF ProbeRight
  <2>5. cmd'[select'] # "read_sector"
    BY <1>1, <1>2, <1>3 DEF IdeTypes
  <2>6. ProbeInv' /\ ReadInv' /\ WriteInv' /\ DataRight' /\ ErrorSeen'
    BY <2>1, <2>5 DEF ProbeInv, ReadInv, WriteInv, DataRight, ErrorSeen
  <2> QED BY <2>2, <2>4, <2>6 DEF IdeInv
<1> QED BY <1>4, <1>5, <1>6

-----------------------------------------------------------------------------
\* What a drive does to its own status, and to no other's.
LEMMA DriveEffect ==
  ASSUME IdeTypes, NEW d \in D2, DriveWorks(d)
  PROVE  /\ busy[d] /\ busy' = [busy EXCEPT ![d] = FALSE]
         /\ UNCHANGED <<kind, streams, defects, overwritten, select, regs, cmd, left, at, op, pc, arg, buf,
                        result, drive, num_ide_drives, ide_drive>>
         /\ \E words \in Seq(Word), dr, er \in BOOLEAN :
              /\ fifo' = [fifo EXCEPT ![d] = words]
              /\ drq' = [drq EXCEPT ![d] = dr] /\ err' = [err EXCEPT ![d] = er]
              /\ kind[d] = "ata" /\ cmd[d] = "read_sector" =>
                   IF <<d, at>> \in defects THEN er
                   ELSE dr /\ er = err[d] /\ words = SectorWords(d, at)
              /\ kind[d] = "ata" /\ cmd[d] = "ident" => dr /\ words = IdentWords(d)
              /\ kind[d] = "atapi" /\ cmd[d] # "atapi_ident" => er /\ dr = drq[d]
<1> DEFINE Effect(words, dr, er) ==
      /\ fifo' = [fifo EXCEPT ![d] = words]
      /\ drq' = [drq EXCEPT ![d] = dr] /\ err' = [err EXCEPT ![d] = er]
      /\ kind[d] = "ata" /\ cmd[d] = "read_sector" =>
           IF <<d, at>> \in defects THEN er
           ELSE dr /\ er = err[d] /\ words = SectorWords(d, at)
      /\ kind[d] = "ata" /\ cmd[d] = "ident" => dr /\ words = IdentWords(d)
      /\ kind[d] = "atapi" /\ cmd[d] # "atapi_ident" => er /\ dr = drq[d]
<1>1. /\ busy[d] /\ busy' = [busy EXCEPT ![d] = FALSE]
      /\ UNCHANGED <<kind, streams, defects, select, regs, cmd, left, at, op, pc, arg, buf,
                     result, drive, num_ide_drives, ide_drive>>
  BY DEF DriveWorks, worldVars, probeVars
<1>2. /\ fifo = [fifo EXCEPT ![d] = fifo[d]] /\ drq = [drq EXCEPT ![d] = drq[d]]
      /\ err = [err EXCEPT ![d] = err[d]]
      /\ fifo[d] \in Seq(Word) /\ drq[d] \in BOOLEAN /\ err[d] \in BOOLEAN /\ at \in Nat
  BY DEF IdeTypes
<1>3. /\ IdentWords(d) \in Seq(Word) /\ SectorWords(d, at) \in Seq(Word)
      /\ <<Junk>> \in Seq(Word)
  <2>1. Junk \in Word
    BY DEF Word
  <2> QED BY <1>2, <2>1, SectorFacts
<1>4. CASE kind[d] = "ata" /\ cmd[d] = "read_sector" /\ <<d, at>> \notin defects /\ Ready(d, SectorWords(d, at))
  <2>1. Effect(SectorWords(d, at), TRUE, err[d]) /\ overwritten' = overwritten
    BY <1>2, <1>4 DEF Ready
  <2> QED BY <1>1, <1>2, <1>3, <2>1
<1>5. CASE kind[d] = "ata" /\ cmd[d] = "read_sector" /\ ~(<<d, at>> \notin defects) /\ Abort(d)
  <2>1. Effect(fifo[d], drq[d], TRUE) /\ overwritten' = overwritten
    BY <1>2, <1>5 DEF Abort
  <2> QED BY <1>1, <1>2, <2>1
<1>6. CASE kind[d] = "ata" /\ cmd[d] = "write_sector" /\ Ready(d, <<Junk>>)
  <2>1. Effect(<<Junk>>, TRUE, err[d]) /\ overwritten' = overwritten
    BY <1>2, <1>6 DEF Ready
  <2> QED BY <1>1, <1>2, <1>3, <2>1
<1>7. CASE kind[d] = "ata" /\ cmd[d] = "write_sector" /\ UNCHANGED <<err, fifo, drq, overwritten>>
  <2>1. Effect(fifo[d], drq[d], err[d]) /\ overwritten' = overwritten
    BY <1>2, <1>7
  <2> QED BY <1>1, <1>2, <2>1
<1>8. CASE kind[d] = "ata" /\ cmd[d] = "ident" /\ Ready(d, IdentWords(d))
  <2>1. Effect(IdentWords(d), TRUE, err[d]) /\ overwritten' = overwritten
    BY <1>2, <1>8 DEF Ready
  <2> QED BY <1>1, <1>2, <1>3, <2>1
<1>9. CASE kind[d] = "atapi" /\ cmd[d] = "atapi_ident" /\ Ready(d, IdentWords(d))
  <2>1. Effect(IdentWords(d), TRUE, err[d]) /\ overwritten' = overwritten
    BY <1>2, <1>9 DEF Ready
  <2> QED BY <1>1, <1>2, <1>3, <2>1
<1>10. CASE kind[d] = "atapi" /\ cmd[d] # "atapi_ident" /\ Abort(d)
  <2>1. Effect(fifo[d], drq[d], TRUE) /\ overwritten' = overwritten
    BY <1>2, <1>10 DEF Abort
  <2> QED BY <1>1, <1>2, <2>1
<1> HIDE DEF Effect
<1> QED BY <1>4, <1>5, <1>6, <1>7, <1>8, <1>9, <1>10, Zenon DEF DriveWorks

LEMMA DriveKeeps ==
  ASSUME IdeInv, NEW d \in D2, DriveWorks(d)
  PROVE  IdeInv'
<1>1. IdeTypes /\ NoDrive /\ ProbeInv /\ ReadInv /\ WriteInv /\ ProbeRight /\ DataRight
      /\ (arg.lba < Limit => ErrorSeen)
  BY DEF IdeInv
<1>2. PICK words \in Seq(Word), dr \in BOOLEAN, er \in BOOLEAN :
        /\ fifo' = [fifo EXCEPT ![d] = words]
        /\ drq' = [drq EXCEPT ![d] = dr] /\ err' = [err EXCEPT ![d] = er]
        /\ kind[d] = "ata" /\ cmd[d] = "read_sector" =>
             IF <<d, at>> \in defects THEN er
             ELSE dr /\ er = err[d] /\ words = SectorWords(d, at)
        /\ kind[d] = "ata" /\ cmd[d] = "ident" => dr /\ words = IdentWords(d)
        /\ kind[d] = "atapi" /\ cmd[d] # "atapi_ident" => er /\ dr = drq[d]
  BY <1>1, DriveEffect, Zenon
<1>3. /\ busy[d] /\ busy' = [busy EXCEPT ![d] = FALSE]
      /\ UNCHANGED <<kind, streams, defects, overwritten, select, regs, cmd, left, at, op, pc, arg, buf,
                     result, drive, num_ide_drives, ide_drive>>
  BY <1>1, DriveEffect, Zenon
<1>4. IdeTypes'
  BY <1>1, <1>2, <1>3 DEF IdeTypes
<1>5. kind[d] # "none"
  BY <1>1, <1>3 DEF NoDrive
<1>6. /\ fifo'[d] = words /\ drq'[d] = dr /\ err'[d] = er /\ ~busy'[d]
      /\ \A c \in D2 : c # d => fifo'[c] = fifo[c] /\ drq'[c] = drq[c] /\ err'[c] = err[c] /\ busy'[c] = busy[c]
  BY <1>1, <1>2, <1>3 DEF IdeTypes
<1>7. NoDrive'
  BY <1>1, <1>3, <1>5, <1>6 DEF NoDrive
<1>8. WriteInv' /\ ProbeRight' /\ (arg'.lba < Limit => ErrorSeen')
  BY <1>1, <1>3 DEF WriteInv, ProbeRight, ErrorSeen
<1>9. \A D, L : SectorWords(D, L)' = SectorWords(D, L)
  BY <1>3 DEF SectorWords
<1>10. DataRight'
  BY <1>1, <1>3, <1>9, ZenonT(30) DEF DataRight
<1>11. ProbeInv'
  <2>1. SUFFICES ASSUME op = "probe" PROVE ProbeInv'
    BY <1>3 DEF ProbeInv
  <2>2. CASE pc = "poll"
    <3>1. PICK V \in D2 : V = drive /\ V = select
      BY <1>1, <2>1, <2>2 DEF ProbeInv, IdeTypes, D2
    <3>2. kind[V] = "ata" => cmd[V] = "ident" /\ (busy'[V] \/ (drq'[V] /\ fifo'[V] = IdentWords(V)))
      <4>1. CASE V = d
        BY <1>1, <1>2, <1>6, <2>1, <2>2, <3>1, <4>1 DEF ProbeInv
      <4>2. CASE V # d
        BY <1>1, <1>6, <2>1, <2>2, <3>1, <4>2 DEF ProbeInv
      <4> QED BY <4>1, <4>2
    <3>3. kind[V] = "atapi" => cmd[V] = "ident" /\ ~drq'[V]
      <4>1. CASE V = d
        BY <1>1, <1>2, <1>6, <2>1, <2>2, <3>1, <4>1 DEF ProbeInv
      <4>2. CASE V # d
        BY <1>1, <1>6, <2>1, <2>2, <3>1, <4>2 DEF ProbeInv
      <4> QED BY <4>1, <4>2
    <3>4. IdentWords(V)' = IdentWords(V)
      BY DEF IdentWords
    <3> QED BY <1>1, <1>3, <2>1, <2>2, <3>1, <3>2, <3>3, <3>4 DEF ProbeInv
  <2>3. CASE pc # "poll"
    BY <1>1, <1>3, <2>1, <2>3 DEF ProbeInv
  <2> QED BY <2>2, <2>3
<1>12. ReadInv'
  <2>1. PICK D \in D2, L \in Nat, N \in Nat \ {0} : D = arg.drive /\ L = arg.lba /\ N = arg.num
    BY <1>1 DEF IdeTypes, Request
  <2>2. ASSUME op = "read_sector", pc = "poll" PROVE Waiting(D, L, N)'
    <3>1. Waiting(D, L, N)
      BY <1>1, <2>1, <2>2 DEF ReadInv
    <3>2. CASE D # d
      <4>1. SectorWords(D, L)' = SectorWords(D, L)
        BY <1>9
      <4> QED BY <1>3, <1>6, <3>1, <3>2, <4>1 DEF Waiting
    <3>3. CASE D = d
      <4>1. cmd[d] = "read_sector" /\ ~err[d] /\ (L < Limit => at = L) /\ SectorWords(D, L)' = SectorWords(D, L)
        BY <1>3, <1>5, <1>9, <3>1, <3>3 DEF Waiting
      <4>2. kind[d] = "ata" /\ L < Limit =>
              IF <<d, L>> \in defects THEN er ELSE ~er /\ dr /\ words = SectorWords(d, L)
        BY <1>2, <4>1
      <4>3. kind[d] = "atapi" => er
        BY <1>2, <4>1
      <4> QED BY <1>3, <1>6, <3>1, <3>3, <4>1, <4>2, <4>3 DEF Waiting
    <3> QED BY <3>2, <3>3
  <2>3. ASSUME op = "read_sector", pc = "words" PROVE Moving(D, L, N)'
    <3>1. Moving(D, L, N)
      BY <1>1, <2>1, <2>3 DEF ReadInv
    <3>2. ASSUME kind[D] = "ata", L < Limit PROVE BufOK(D, L, N)' /\ DrvOK(D, L, N)'
      <4>1. BufOK(D, L, N) /\ DrvOK(D, L, N)
        BY <3>1, <3>2 DEF Moving
      <4>2. \A s : (Good(D, L, s)' <=> Good(D, L, s)) /\ SectorWords(D, L + s)' = SectorWords(D, L + s)
        BY <1>3, <1>9 DEF Good
      <4>3. BufOK(D, L, N)'
        BY <1>3, <4>1, <4>2 DEF BufOK
      <4>4. DrvOK(D, L, N)'
        <5> SUFFICES ASSUME NEW s \in 0 .. N - 1, NEW j \in 0 .. Words - 1,
                            Len(buf') = s * Words + j, Good(D, L, s)'
                     PROVE  /\ drq'[D] /\ ~busy'[D] /\ at' = L + s /\ left'[D] = N - s
                            /\ Len(fifo'[D]) = Words - j
                            /\ \A i \in 1 .. Words - j : fifo'[D][i] = SectorWords(D, L + s)'[j + i]
          BY Zenon DEF DrvOK
        <5>1. Len(buf) = s * Words + j /\ Good(D, L, s)
          BY <1>3, <4>2
        <5>2. /\ drq[D] /\ ~busy[D] /\ at = L + s /\ left[D] = N - s /\ Len(fifo[D]) = Words - j
              /\ \A i \in 1 .. Words - j : fifo[D][i] = SectorWords(D, L + s)[j + i]
          BY <4>1, <5>1, Zenon DEF DrvOK
        <5>3. D # d
          BY <1>3, <5>2
        <5>4. fifo'[D] = fifo[D] /\ drq'[D] = drq[D] /\ busy'[D] = busy[D] /\ at' = at /\ left'[D] = left[D]
          BY <1>3, <1>6, <5>3
        <5>5. SectorWords(D, L + s)' = SectorWords(D, L + s)
          BY <4>2
        <5> QED BY <5>2, <5>4, <5>5, Zenon
      <4> QED BY <4>3, <4>4
    <3> QED BY <1>3, <3>1, <3>2 DEF Moving
  <2> QED BY <1>1, <1>3, <2>1, <2>2, <2>3 DEF ReadInv
<1> QED BY <1>4, <1>7, <1>8, <1>10, <1>11, <1>12 DEF IdeInv

-----------------------------------------------------------------------------
LEMMA IdeStep ==
  ASSUME IdeInv, [Next]_vars
  PROVE  IdeInv'
<1>1. CASE UNCHANGED ideVars
  <2>1. IdeTypes' /\ NoDrive' /\ WriteInv' /\ ProbeRight' /\ (arg'.lba < Limit => ErrorSeen')
    BY <1>1 DEF ideVars, IdeInv, IdeTypes, NoDrive, WriteInv, ProbeRight, ErrorSeen
  <2>2. ProbeInv'
    BY <1>1 DEF ideVars, IdeInv, ProbeInv, IdentWords
  <2>3. DataRight'
    BY <1>1 DEF ideVars, IdeInv, DataRight, SectorWords
  <2>4. ReadInv'
    <3>1. PICK D \in D2, L \in Nat, N \in Nat : D = arg.drive /\ L = arg.lba /\ N = arg.num
      BY DEF IdeInv, IdeTypes, Request
    <3>2. Waiting(D, L, N) => Waiting(D, L, N)'
      BY <1>1 DEF ideVars, Waiting, SectorWords
    <3>3. Moving(D, L, N) => Moving(D, L, N)'
      <4>1. BufOK(D, L, N) => BufOK(D, L, N)'
        BY <1>1 DEF ideVars, BufOK, SectorWords, Good
      <4>2. DrvOK(D, L, N) => DrvOK(D, L, N)'
        <5>1. \A s : SectorWords(D, L + s)' = SectorWords(D, L + s) /\ (Good(D, L, s)' <=> Good(D, L, s))
          BY <1>1 DEF ideVars, SectorWords, Good
        <5>2. UNCHANGED <<drq, busy, at, left, fifo, buf>>
          BY <1>1 DEF ideVars
        <5>6. SUFFICES ASSUME DrvOK(D, L, N) PROVE DrvOK(D, L, N)'
          OBVIOUS
        <5> SUFFICES ASSUME NEW s \in 0 .. N - 1, NEW j \in 0 .. Words - 1,
                            Len(buf') = s * Words + j, Good(D, L, s)'
                     PROVE  /\ drq'[D] /\ ~busy'[D] /\ at' = L + s /\ left'[D] = N - s
                            /\ Len(fifo'[D]) = Words - j
                            /\ \A i \in 1 .. Words - j : fifo'[D][i] = SectorWords(D, L + s)'[j + i]
          BY Zenon DEF DrvOK
        <5>3. Len(buf) = s * Words + j /\ Good(D, L, s)
          BY <5>1, <5>2
        <5>4. /\ drq[D] /\ ~busy[D] /\ at = L + s /\ left[D] = N - s /\ Len(fifo[D]) = Words - j
              /\ \A i \in 1 .. Words - j : fifo[D][i] = SectorWords(D, L + s)[j + i]
          BY <5>3, <5>6, Zenon DEF DrvOK
        <5>5. SectorWords(D, L + s)' = SectorWords(D, L + s)
          BY <5>1
        <5> QED BY <5>2, <5>4, <5>5, Zenon
      <4> QED BY <1>1, <4>1, <4>2 DEF ideVars, Moving
    <3> QED BY <1>1, <3>1, <3>2, <3>3 DEF ideVars, IdeInv, ReadInv
  <2> QED BY <2>1, <2>2, <2>3, <2>4 DEF IdeInv
<1>2. CASE IdeNext
  <2>1. CASE IdeCode
    BY <2>1, IssueKeeps, ReadTestKeeps, ReadWordKeeps, ReadDoneKeeps, WriteKeeps, ProbeIssueKeeps,
       ProbeAtaKeeps, ProbeRestKeeps DEF IdeCode
  <2> QED BY <1>2, <2>1, CallKeeps, DriveKeeps DEF IdeNext
<1>3. UNCHANGED ideVars \/ IdeNext
  BY DEF Next, vars, IdeNext, D2, CallDisk, CallGetch, DiskCode, KeyCode, DriveStep, UserStep
<1> QED BY <1>1, <1>2, <1>3

LEMMA IdeStart == Init => IdeInv
<1> SUFFICES ASSUME IdeInit PROVE IdeInv
  BY DEF Init
<1>1. PICK m \in Machines : kind = m.kind /\ streams = m.streams /\ defects = m.defects
  BY DEF IdeInit
<1>2. kind \in [D2 -> {"ata", "atapi", "none"}] /\ streams \in [D2 -> BOOLEAN]
  BY <1>1, IdeAssumption DEF D2
<1>3. <<>> \in Seq(Word)
  OBVIOUS
<1>4. IdeTypes /\ NoDrive
  BY <1>2, <1>3, IdeConsts DEF IdeInit, IdeTypes, NoDrive, Commands, D2, FirstRequest
<1>5. ProbeInv
  <2>1. {c \in D2 : c < 0 /\ kind[c] = "ata"} = {}
    BY DEF D2
  <2>2. Cardinality({}) = 0
    BY FS_EmptySet
  <2> QED BY <2>1, <2>2 DEF IdeInit, ProbeInv, D2
<1>6. ReadInv /\ WriteInv /\ ProbeRight /\ DataRight /\ ErrorSeen
  BY DEF IdeInit, ReadInv, WriteInv, ProbeRight, DataRight, ErrorSeen
<1> QED BY <1>4, <1>5, <1>6 DEF IdeInv

\* hd.c keeps its invariant, whatever is connected, asked for and typed.
THEOREM DiskInvariant == Spec => []IdeInv
  BY IdeStart, IdeStep, PTL DEF Spec

\* read_sector: no error means that the buffer has the sectors asked for, for
\* every number of sectors and words, every defect and every drive, up to what
\* the one look at the status can promise.
THEOREM SectorsReadRight == Spec => []DataRight
<1>1. IdeInv => DataRight
  BY DEF IdeInv
<1> QED BY <1>1, DiskInvariant, PTL

\* probe_ide_drives: exactly the hard disks are found, each with its geometry.
THEOREM ProbeFindsDisks == Spec => []ProbeRight
<1>1. IdeInv => ProbeRight
  BY DEF IdeInv
<1> QED BY <1>1, DiskInvariant, PTL

\* read_sector: an error is returned exactly when the first sector asked for
\* cannot be read, if callers ask for addresses of 28 bits only.
THEOREM ErrorsReported ==
  ASSUME \A r \in Requests : r.lba < Base * Base * Base * Nib
  PROVE  Spec => []ErrorSeen
<1>1. IdeInv => ErrorSeen
  <2>1. SUFFICES ASSUME IdeInv PROVE arg.lba < Limit
    BY DEF IdeInv
  <2>2. arg \in Requests \union {FirstRequest}
    BY <2>1 DEF IdeInv, IdeTypes
  <2>3. CASE arg \in Requests
    BY <2>3 DEF Limit
  <2>4. CASE arg = FirstRequest
    BY <2>4, IdeConsts
  <2> QED BY <2>2, <2>3, <2>4
<1> QED BY <1>1, DiskInvariant, PTL
=============================================================================
