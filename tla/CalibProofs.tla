---------------------------- MODULE CalibProofs ----------------------------
(***************************************************************************)
(* The timer interrupt and the calibration for every length of a tick,     *)
(* cost of a statement, PRECISION and MILLISEC: interrupts only come to a  *)
(* handler that is ready, and the count found is right up to the time      *)
(* around a measurement.                                                   *)
(***************************************************************************)
EXTENDS Calib, FiniteSetTheorems, FunctionTheorems, TLAPS

\* Powers of two, counted as subsets: the library knows how many a set has.
LEMMA SubsetCount ==
  ASSUME NEW n \in Nat
  PROVE  IsFiniteSet(SUBSET (1 .. n)) /\ Cardinality(SUBSET (1 .. n)) = 2^n
<1>1. 1 \in Int /\ n \in Int
  OBVIOUS
<1>2. IsFiniteSet(1 .. n) /\ Cardinality(1 .. n) = IF 1 > n THEN 0 ELSE n - 1 + 1
  BY <1>1, FS_Interval, Zenon
<1>3. Cardinality(1 .. n) = n
  BY <1>2
<1> QED BY <1>2, <1>3, FS_SUBSET, Zenon

LEMMA PowerNext ==
  ASSUME NEW n \in Nat
  PROVE  2^n \in Nat /\ 2^(n + 1) = 2 * 2^n
<1> DEFINE S == SUBSET (1 .. n)
           T == {A \in SUBSET (1 .. n + 1) : n + 1 \in A}
           F == [A \in S |-> A \union {n + 1}]
<1>1. IsFiniteSet(S) /\ Cardinality(S) = 2^n
  BY SubsetCount, Zenon
<1>2. Cardinality(S) \in Nat
  BY <1>1, FS_CardinalityType, Zenon
<1>3. \A x : x \in 1 .. n + 1 <=> x \in 1 .. n \/ x = n + 1
  OBVIOUS
<1>4. n + 1 \notin 1 .. n
  OBVIOUS
<1>5. S \union T = SUBSET (1 .. n + 1)
  BY <1>3, Zenon
<1>6. S \cap T = {}
  BY <1>4, Zenon
<1>7. F \in [S -> T]
  BY <1>3, Zenon
<1>8. ASSUME NEW A \in S, NEW B \in S, F[A] = F[B] PROVE A = B
  BY <1>4, <1>8
<1>9. ASSUME NEW B \in T PROVE \E A \in S : F[A] = B
  <2>1. B \ {n + 1} \in S
    BY <1>3
  <2>2. F[B \ {n + 1}] = B
    BY <2>1
  <2> QED BY <2>1, <2>2
<1>10. ExistsBijection(S, T)
  <2> HIDE DEF S, T, F
  <2>1. F \in Bijection(S, T)
    BY <1>7, <1>8, <1>9, Fun_IsBij
  <2> QED BY <2>1, Fun_ExistsBij
<1> HIDE DEF S, T
<1>11. IsFiniteSet(T) /\ Cardinality(T) = Cardinality(S)
  BY <1>1, <1>10, FS_Bijection
<1>12. Cardinality(S \union T) = Cardinality(S) + Cardinality(T) - Cardinality({})
  BY <1>1, <1>6, <1>11, FS_Union
<1>13. Cardinality({}) = 0
  BY FS_EmptySet
<1>14. n + 1 \in Nat
  OBVIOUS
<1>15. Cardinality(S \union T) = 2^(n + 1)
  BY <1>5, <1>14, SubsetCount, Zenon
<1>16. PICK k \in Nat : k = 2^n /\ k = Cardinality(S)
  BY <1>1, <1>2
<1>17. 2^(n + 1) = k + k - 0
  BY <1>11, <1>12, <1>13, <1>15, <1>16, Zenon
<1>18. k + k - 0 = 2 * k
  OBVIOUS
<1> QED BY <1>16, <1>17, <1>18, Zenon

-----------------------------------------------------------------------------
(***************************************************************************)
(* The inductive invariant.  While line 0 is open an interrupt is taken    *)
(* before the next statement, so irr tells at every place of the code      *)
(* whether a tick is still to be counted, and phase how long ago it was.   *)
(***************************************************************************)
Before == {"Init8259", "getch_8259", "InitIDT", "getch_pit", "init_pit", "getch_timer", "set_vector",
           "enable_irq"}
After == {"getch_end", "done"}
Measuring == {"wait", "start", "loop"}
Open == {"coarse", "fine", "finish"} \union Measuring
Places == Before \union Open \union After

\* The order of the set-up.
SetUp ==
  /\ pc \in Places /\ ~isr
  /\ pc \in {"Init8259", "getch_8259", "InitIDT"} => ~iflag
  /\ pc \notin {"Init8259", "getch_8259", "InitIDT"} => iflag
  /\ pc # "Init8259" => vec = M_VEC
  /\ pc \in Before \ {"Init8259"} => 0 \in imr
  /\ pc \in Open => 0 \notin imr
  /\ pc \in After => 0 \in imr
  /\ pc \notin Before \ {"enable_irq"} => idt[M_VEC] = "pit_delay_ISR"

PowerOfTwo(n) == \E m \in Nat : n = 2^m

\* Stage 1: the count is a power of two, and its half is shorter than a tick.
Coarse ==
  stage = 1 =>
    /\ pc \in Before \union Measuring \union {"coarse"} /\ i = 0
    /\ pc \in Before \union {"coarse"} => PowerOfTwo(delay_count) /\ delay_count >= 1 /\ delay_count < period
    /\ pc \in Measuring =>
         \E h \in Nat \ {0} : PowerOfTwo(h) /\ delay_count = 2 * h /\ h < period

\* Stage 2, between two measurements: the bits below calib_bit are clear, and
\* calib_bit is the first count halved i times.
Found ==
  /\ PowerOfTwo(calib_bit) /\ calib_bit >= 1
  /\ \E q \in Nat : delay_count = q * calib_bit
  /\ delay_count < period /\ period <= delay_count + calib_bit + Slack
  /\ calib_bit * 2^i <= delay_count

\* During a measurement of n + calib_bit, n the bits found before.
Trying ==
  /\ PowerOfTwo(calib_bit) /\ calib_bit >= 1 /\ i < PRECISION
  /\ \E q, n \in Nat :
       /\ n = q * (2 * calib_bit) /\ delay_count = n + calib_bit
       /\ n < period /\ period <= n + 2 * calib_bit + Slack
       /\ (2 * calib_bit) * 2^i <= n

Fine ==
  stage = 2 =>
    /\ pc \in Measuring \union After \union {"fine", "finish"}
    /\ pc \in {"fine", "finish"} => Found
    /\ pc \in Measuring => Trying

\* The loop on ticks ends just after one.
Waits ==
  /\ pc = "wait" =>
       \/ ticks = prevtick /\ (irr => phase <= Cost)
       \/ ticks = (prevtick + 1) % WordMod /\ ~irr /\ phase <= 2 * Cost
  /\ pc = "start" => ~irr /\ phase <= 2 * Cost + 1

\* In __delay: k ticks have been counted since prevtick.
Counted(k) ==
  /\ ticks = (prevtick + k) % WordMod
  /\ irr => phase = 0 /\ (k + 1) * period <= Slack + c + k * Cost
  /\ ~irr => k * period + phase <= Slack + c + k * Cost
  /\ k = 0 /\ ~irr => c <= phase
  /\ k > 0 \/ irr => period <= c + Slack

Delays == pc = "loop" => c <= delay_count /\ \E k \in 0 .. 3 : Counted(k)

CalibInv == TypeOK /\ SetUp /\ Coarse /\ Fine /\ Waits /\ Delays /\ Calibrated

-----------------------------------------------------------------------------
\* The constants, as the proofs use them.
LEMMA Consts ==
  /\ Cost \in Nat /\ PRECISION \in Nat /\ MILLISEC \in Nat \ {0} /\ WordMod \in Nat
  /\ \A p \in Periods : p \in Nat /\ p > 4 * Cost + 4 /\ 4 * p < WordMod
  BY CalibAssumption

\* The numbers among the variables.
LEMMA Numbers ==
  ASSUME TypeOK
  PROVE  /\ period \in Nat /\ period > 4 * Cost + 4 /\ 4 * period < WordMod /\ period \in Periods
         /\ phase \in 0 .. period - 1 /\ i \in Nat /\ Cost \in Nat /\ WordMod \in Nat
         /\ ticks \in 0 .. WordMod - 1 /\ prevtick \in 0 .. WordMod - 1 /\ delay_count \in 0 .. WordMod - 1
         /\ calib_bit \in 0 .. WordMod - 1 /\ c \in 0 .. WordMod - 1
  BY Consts DEF TypeOK

LEMMA Wraps ==
  ASSUME NEW n \in Nat, NEW m \in Nat \ {0}, n < 2 * m
  PROVE  n % m = IF n < m THEN n ELSE n - m
  OBVIOUS

\* Time passes: a tick is on the way or it is not.
LEMMA Elapsed ==
  ASSUME TypeOK, NEW d \in Nat, d < period, Elapse(d)
  PROVE  /\ phase' \in 0 .. period - 1 /\ irr' \in BOOLEAN
         /\ phase + d < period => phase' = phase + d /\ irr' = irr
         /\ phase + d >= period => phase' = phase + d - period /\ irr'
<1>1. period \in Nat \ {0} /\ phase \in 0 .. period - 1
  BY Numbers
<1>2. PICK n \in Nat : n = phase + d /\ n < 2 * period
  BY <1>1
<1>3. phase' = n % period /\ irr' = (irr \/ n >= period)
  BY <1>2 DEF Elapse
<1>4. phase' = IF n < period THEN n ELSE n - period
  BY <1>1, <1>2, <1>3, Wraps
<1>5. phase' \in 0 .. period - 1
  BY <1>1, <1>2, <1>4
<1>6. CASE n < period
  <2>1. ~(n >= period) /\ irr \in BOOLEAN
    BY <1>1, <1>2, <1>6 DEF TypeOK
  <2>2. irr' = irr
    BY <1>3, <2>1
  <2> QED BY <1>1, <1>2, <1>4, <1>5, <1>6, <2>1, <2>2
<1>7. CASE n >= period
  <2>1. irr' /\ irr' \in BOOLEAN
    BY <1>3, <1>7, Zenon
  <2>2. ~(n < period)
    BY <1>1, <1>2, <1>7
  <2>3. ~(phase + d < period) /\ phase' = phase + d - period
    BY <1>1, <1>2, <1>4, <2>2
  <2> QED BY <1>5, <2>1, <2>3, Zenon
<1>8. n < period \/ n >= period
  BY <1>1, <1>2
<1> QED BY <1>6, <1>7, <1>8

\* A statement takes less than a tick.
LEMMA StatementTakes ==
  ASSUME TypeOK, NEW p, Statement(p)
  PROVE  /\ pc = p /\ ~Interrupted /\ period' = period /\ ticks' = ticks
         /\ phase' \in 0 .. period - 1 /\ irr' \in BOOLEAN
         /\ \E d \in 0 .. Cost :
              /\ phase + d < period => phase' = phase + d /\ irr' = irr
              /\ phase + d >= period => phase' = phase + d - period /\ irr'
<1>1. PICK d \in 0 .. Cost : Elapse(d)
  BY DEF Statement
<1>2. d \in Nat /\ d < period
  BY Numbers
<1> QED BY <1>1, <1>2, Elapsed DEF Statement

\* A round of __delay and a look at ticks take one.
LEMMA RoundTakes ==
  ASSUME TypeOK, Elapse(1)
  PROVE  /\ phase' \in 0 .. period - 1 /\ irr' \in BOOLEAN
         /\ phase + 1 < period => phase' = phase + 1 /\ irr' = irr
         /\ phase + 1 = period => phase' = 0 /\ irr'
<1>1. 1 \in Nat /\ 1 < period /\ period \in Nat /\ phase \in Nat
  BY Numbers
<1>2. phase + 1 = period => phase + 1 >= period /\ phase + 1 - period = 0
  BY <1>1
<1> QED BY <1>1, <1>2, Elapsed

\* While line 0 is open a tick is counted before anything else happens.
LEMMA Taken ==
  ASSUME SetUp, pc \in Open
  PROVE  Interrupted <=> irr
  BY DEF SetUp, Open, Measuring, Interrupted

-----------------------------------------------------------------------------
\* The set-up: nothing is counted, nothing is calibrated.
LEMMA BeforeKeeps ==
  ASSUME CalibInv, pc \in Before, pc' \in Before \union {"coarse"}, TypeOK', UNCHANGED <<calibVars, period>>
  PROVE  Coarse' /\ Fine' /\ Waits' /\ Delays' /\ Calibrated'
<1>1. stage = 1
  BY DEF CalibInv, Fine, TypeOK, Before, After, Measuring
<1>2. Coarse'
  BY <1>1 DEF CalibInv, Coarse, calibVars, Before, Measuring
<1>3. Fine' /\ Waits' /\ Delays' /\ Calibrated'
  BY <1>1 DEF Fine, Waits, Delays, Calibrated, calibVars, Before
<1> QED BY <1>2, <1>3

\* A key: while the code waits for one, line 0 is masked.
LEMMA KeyKeeps ==
  ASSUME CalibInv, getch
  PROVE  CalibInv'
<1>1. TypeOK /\ SetUp
  BY DEF CalibInv
<1>2. pc \in {"getch_8259", "getch_pit", "getch_timer", "getch_end"}
  BY DEF getch, AfterKey
<1>3. /\ pc = "getch_8259" => pc' = "InitIDT"
      /\ pc = "getch_pit" => pc' = "init_pit"
      /\ pc = "getch_timer" => pc' = "set_vector"
      /\ pc = "getch_end" => pc' = "done"
  BY <1>2 DEF getch, AfterKey
<1>4. /\ phase' \in 0 .. period - 1 /\ irr' \in BOOLEAN
      /\ UNCHANGED <<period, ticks, picVars, cpuVars, calibVars>>
  BY <1>1 DEF getch, TypeOK
<1>5. TypeOK'
  BY <1>1, <1>2, <1>3, <1>4 DEF TypeOK, picVars, cpuVars, calibVars
<1>6. SetUp'
  BY <1>1, <1>2, <1>3, <1>4 DEF SetUp, Places, After, Before, Open, Measuring, picVars, cpuVars
<1>7. CASE pc = "getch_end"
  <2>1. stage = 2
    BY <1>1, <1>7 DEF CalibInv, Coarse, TypeOK, Measuring, Before
  <2>2. Coarse' /\ Fine' /\ Waits' /\ Delays'
    BY <1>3, <1>4, <1>7, <2>1 DEF Coarse, Fine, Waits, Delays, Measuring, After, calibVars
  <2>3. Calibrated'
    BY <1>3, <1>4, <1>7 DEF CalibInv, Calibrated, Slack, calibVars
  <2> QED BY <1>5, <1>6, <2>2, <2>3 DEF CalibInv
<1>8. CASE pc # "getch_end"
  <2>1. pc \in Before /\ pc' \in Before
    BY <1>2, <1>3, <1>8 DEF Before
  <2> QED BY <1>4, <1>5, <1>6, <2>1, BeforeKeeps DEF CalibInv
<1> QED BY <1>7, <1>8

LEMMA SetUpKeeps ==
  ASSUME CalibInv, Init8259 \/ InitIDT \/ init_pit \/ calib_vector \/ calib_enable
  PROVE  CalibInv'
<1>1. TypeOK /\ SetUp
  BY DEF CalibInv
<1>2. CASE Init8259
  <2>1. TypeOK'
    BY <1>1, <1>2 DEF Init8259, TypeOK, Lines, Vectors, M_VEC, calibVars
  <2>2. SetUp'
    BY <1>1, <1>2 DEF Init8259, SetUp, Lines, Places, After, Before, Open, Measuring
  <2> QED BY <1>2, <2>1, <2>2, BeforeKeeps DEF CalibInv, Init8259, Before
<1>3. CASE InitIDT
  <2>1. phase' \in 0 .. period - 1 /\ irr' \in BOOLEAN /\ pc = "InitIDT" /\ period' = period /\ ticks' = ticks
    BY <1>1, <1>3, StatementTakes DEF InitIDT
  <2>2. \A v \in Vectors : (IF v > 16 THEN "int_null" ELSE IF v = 11 THEN "none" ELSE "fault")
                             \in {"none", "int_null", "fault", "pit_delay_ISR"}
    OBVIOUS
  <2>3. idt' \in [Vectors -> {"none", "int_null", "fault", "pit_delay_ISR"}]
    BY <1>3, <2>2 DEF InitIDT
  <2>4. TypeOK'
    BY <1>1, <1>3, <2>1, <2>3 DEF InitIDT, TypeOK, calibVars, picVars
  <2>5. SetUp'
    BY <1>1, <1>3, <2>1 DEF InitIDT, SetUp, Places, After, Before, Open, Measuring, picVars
  <2> QED BY <1>3, <2>1, <2>4, <2>5, BeforeKeeps DEF CalibInv, InitIDT, Before
<1>4. CASE init_pit
  <2>1. TypeOK'
    BY <1>1, <1>4 DEF init_pit, TypeOK, calibVars, picVars, cpuVars
  <2>2. SetUp'
    BY <1>1, <1>4 DEF init_pit, SetUp, Places, After, Before, Open, Measuring, picVars, cpuVars
  <2> QED BY <1>4, <2>1, <2>2, BeforeKeeps DEF CalibInv, init_pit, Before
<1>5. CASE calib_vector
  <2>1. phase' \in 0 .. period - 1 /\ irr' \in BOOLEAN /\ pc = "set_vector" /\ period' = period /\ ticks' = ticks
    BY <1>1, <1>5, StatementTakes DEF calib_vector
  <2>2. M_VEC \in Vectors /\ idt' = [idt EXCEPT ![M_VEC] = "pit_delay_ISR"]
    BY <1>5 DEF calib_vector, set_vector, Vectors
  <2>3. /\ idt'[M_VEC] = "pit_delay_ISR"
        /\ idt' \in [Vectors -> {"none", "int_null", "fault", "pit_delay_ISR"}]
    BY <1>1, <2>2 DEF TypeOK
  <2>4. TypeOK'
    BY <1>1, <1>5, <2>1, <2>3 DEF calib_vector, TypeOK, calibVars, picVars
  <2>5. SetUp'
    BY <1>1, <1>5, <2>1, <2>3 DEF calib_vector, SetUp, Places, After, Before, Open, Measuring, picVars
  <2> QED BY <1>5, <2>1, <2>4, <2>5, BeforeKeeps DEF CalibInv, calib_vector, Before
<1>6. CASE calib_enable
  <2>1. phase' \in 0 .. period - 1 /\ irr' \in BOOLEAN /\ pc = "enable_irq" /\ period' = period /\ ticks' = ticks
    BY <1>1, <1>6, StatementTakes DEF calib_enable
  <2>2. irq_mask' \subseteq Lines /\ imr' \subseteq Lines /\ 0 \notin imr'
    BY <1>1, <1>6 DEF calib_enable, enable_irq, SetMask, TypeOK
  <2>3. TypeOK'
    BY <1>1, <1>6, <2>1, <2>2 DEF calib_enable, TypeOK, calibVars, cpuVars
  <2>4. SetUp'
    BY <1>1, <1>6, <2>1, <2>2 DEF calib_enable, SetUp, Places, After, Before, Open, Measuring, cpuVars
  <2> QED BY <1>6, <2>1, <2>3, <2>4, BeforeKeeps DEF CalibInv, calib_enable, Before
<1> QED BY <1>2, <1>3, <1>4, <1>5, <1>6

-----------------------------------------------------------------------------
LEMMA PowerPositive ==
  ASSUME NEW n \in Nat
  PROVE  2^n \in Nat /\ 2^n >= 1
<1>1. IsFiniteSet(SUBSET (1 .. n)) /\ Cardinality(SUBSET (1 .. n)) = 2^n
  BY SubsetCount, Zenon
<1>2. SUBSET (1 .. n) # {}
  OBVIOUS
<1>3. Cardinality(SUBSET (1 .. n)) # 0
  BY <1>1, <1>2, FS_EmptySet
<1>4. 2^n \in Nat
  BY PowerNext, Zenon
<1> QED BY <1>1, <1>3, <1>4

\* Halving and doubling of powers of two.
LEMMA Doubled ==
  ASSUME NEW h \in Nat, PowerOfTwo(h)
  PROVE  PowerOfTwo(2 * h)
<1>1. PICK m \in Nat : h = 2^m
  BY Zenon DEF PowerOfTwo
<1>2. m + 1 \in Nat /\ 2^(m + 1) = 2 * 2^m
  BY PowerNext
<1> QED BY <1>1, <1>2, Zenon DEF PowerOfTwo

LEMMA Halved ==
  ASSUME NEW b \in Nat, PowerOfTwo(b), b \div 2 # 0
  PROVE  \E h \in Nat \ {0} : PowerOfTwo(h) /\ b = 2 * h /\ b \div 2 = h
<1>1. PICK m \in Nat : b = 2^m
  BY Zenon DEF PowerOfTwo
<1>2. m # 0
  <2>1. SUFFICES ASSUME m = 0 PROVE FALSE
    OBVIOUS
  <2>2. 2^0 = 1
    OBVIOUS
  <2>3. b = 1
    BY <1>1, <2>1, <2>2
  <2> QED BY <2>3
<1>3. PICK l \in Nat : m = l + 1
  <2>1. m - 1 \in Nat /\ m = (m - 1) + 1
    BY <1>2
  <2> QED BY <2>1
<1>4. PICK h \in Nat : h = 2^l /\ h >= 1
  BY PowerPositive, Zenon
<1>5. 2^(l + 1) = 2 * 2^l
  BY PowerNext
<1>6. b = 2 * h
  BY <1>1, <1>3, <1>4, <1>5, Zenon
<1>7. PowerOfTwo(h)
  BY <1>4, Zenon DEF PowerOfTwo
<1> QED BY <1>4, <1>6, <1>7

LEMMA DivIs ==
  ASSUME NEW n \in Int, NEW m \in Nat \ {0}, NEW k \in Int, NEW r \in 0 .. m - 1, n = k * m + r
  PROVE  n \div m = k /\ n % m = r
  OBVIOUS

\* Setting a bit that is clear, and clearing it again.
LEMMA BitSet ==
  ASSUME NEW q \in Nat, NEW b \in Nat \ {0}, NEW n \in Nat, n = q * (2 * b)
  PROVE  SetBit(n, b) = n + b /\ ClearBit(n + b, b) = n
<1>1. n = (2 * q) * b + 0
  OBVIOUS
<1>2. n + b = (2 * q + 1) * b + 0
  OBVIOUS
<1>3. n \div b = 2 * q /\ (n + b) \div b = 2 * q + 1
  <2>1. PICK e \in Nat : e = 2 * q
    OBVIOUS
  <2>2. n = e * b + 0 /\ n + b = (e + 1) * b + 0 /\ 0 \in 0 .. b - 1
    BY <1>1, <1>2, <2>1
  <2>3. n \div b = e
    BY <2>2, DivIs
  <2>4. (n + b) \div b = e + 1
    <3>1. PICK s \in Nat : s = n + b
      OBVIOUS
    <3>2. PICK f \in Nat : f = e + 1
      OBVIOUS
    <3>3. s \div b = f
      BY <2>2, <3>1, <3>2, DivIs
    <3> QED BY <3>1, <3>2, <3>3
  <2> QED BY <2>1, <2>3, <2>4
<1>4. (2 * q) % 2 = 0 /\ (2 * q + 1) % 2 = 1
  OBVIOUS
<1>5. ~Has(n, b) /\ Has(n + b, b)
  BY <1>3, <1>4 DEF Has
<1> QED BY <1>5 DEF SetBit, ClearBit

-----------------------------------------------------------------------------
\* What does not change the place's group or the count.
LEMMA OpenSetUp ==
  ASSUME SetUp, pc \in Open, pc' \in Open, UNCHANGED <<picVars, cpuVars>>
  PROVE  SetUp'
  BY DEF SetUp, Places, After, Before, Open, Measuring, picVars, cpuVars

LEMMA MeasuringKeeps ==
  ASSUME CalibInv, pc \in Measuring, pc' \in Measuring,
         UNCHANGED <<stage, delay_count, calib_bit, i, period>>
  PROVE  Coarse' /\ Fine' /\ Calibrated'
<1>1. Coarse'
  BY DEF CalibInv, Coarse, Measuring, Before
<1>2. Fine'
  BY DEF CalibInv, Fine, Trying, Slack, Measuring
<1>3. Calibrated'
  BY DEF Calibrated, Measuring
<1> QED BY <1>1, <1>2, <1>3

LEMMA WaitKeeps ==
  ASSUME CalibInv, wait_tick
  PROVE  CalibInv'
<1>1. TypeOK /\ SetUp /\ Waits
  BY DEF CalibInv
<1>2. /\ pc = "wait" /\ ~Interrupted /\ Elapse(1) /\ pc' = (IF prevtick = ticks THEN "wait" ELSE "start")
      /\ UNCHANGED <<period, ticks, picVars, cpuVars, calibVars>>
  BY DEF wait_tick
<1>3. ~irr
  BY <1>1, <1>2, Taken DEF Open, Measuring
<1>4. /\ phase' \in 0 .. period - 1 /\ irr' \in BOOLEAN
      /\ phase + 1 < period => phase' = phase + 1 /\ irr' = irr
      /\ phase + 1 = period => phase' = 0 /\ irr'
  BY <1>1, <1>2, RoundTakes
<1>5. TypeOK'
  BY <1>1, <1>2, <1>4 DEF TypeOK, picVars, cpuVars, calibVars
<1>6. pc' \in {"wait", "start"}
  BY <1>2
<1>7. SetUp' /\ Coarse' /\ Fine' /\ Calibrated' /\ Delays'
  BY <1>1, <1>2, <1>6, OpenSetUp, MeasuringKeeps DEF Open, Measuring, calibVars, Delays
<1>8. Waits'
  <2>1. period \in Nat /\ phase \in 0 .. period - 1 /\ Cost \in Nat /\ period > 4 * Cost + 4
    BY <1>1, Numbers
  <2>2. CASE prevtick = ticks
    <3>1. pc' = "wait" /\ ticks' = prevtick'
      BY <1>2, <2>2 DEF calibVars
    <3>2. irr' => phase' <= Cost
      <4>1. phase + 1 < period \/ phase + 1 = period
        BY <2>1
      <4>2. CASE phase + 1 < period
        BY <1>3, <1>4, <4>2, Zenon
      <4>3. CASE phase + 1 = period
        BY <1>4, <2>1, <4>3
      <4> QED BY <4>1, <4>2, <4>3, Zenon
    <3> QED BY <3>1, <3>2 DEF Waits
  <2>3. CASE prevtick # ticks
    <3>1. pc' = "start" /\ phase <= 2 * Cost
      BY <1>1, <1>2, <2>3 DEF Waits
    <3>2. phase + 1 < period
      BY <2>1, <3>1
    <3>3. ~irr' /\ phase' <= 2 * Cost + 1
      BY <1>3, <1>4, <2>1, <3>1, <3>2
    <3> QED BY <3>1, <3>3 DEF Waits
  <2> QED BY <2>2, <2>3
<1> QED BY <1>5, <1>7, <1>8 DEF CalibInv

LEMMA StartKeeps ==
  ASSUME CalibInv, start
  PROVE  CalibInv'
<1>1. TypeOK /\ SetUp /\ Waits
  BY DEF CalibInv
<1>2. /\ pc = "start" /\ prevtick' = ticks /\ c' = 0 /\ pc' = "loop" /\ ticks' = ticks /\ period' = period
      /\ UNCHANGED <<stage, delay_count, calib_bit, i, picVars, cpuVars>>
      /\ phase' \in 0 .. period - 1 /\ irr' \in BOOLEAN
  BY <1>1, StatementTakes DEF start
<1>3. PICK d \in 0 .. Cost :
        /\ phase + d < period => phase' = phase + d /\ irr' = irr
        /\ phase + d >= period => phase' = phase + d - period /\ irr'
  BY <1>1, StatementTakes DEF start
<1>4. ~irr /\ phase <= 2 * Cost + 1
  BY <1>1, <1>2 DEF Waits
<1>5. /\ period \in Nat /\ phase \in 0 .. period - 1 /\ Cost \in Nat /\ period > 4 * Cost + 4
      /\ WordMod \in Nat /\ ticks \in 0 .. WordMod - 1 /\ delay_count \in Nat
  BY <1>1, Numbers
<1>6. phase + d < period
  BY <1>4, <1>5
<1>7. ~irr' /\ phase' <= Slack
  BY <1>3, <1>4, <1>5, <1>6 DEF Slack
<1>8. TypeOK'
  BY <1>1, <1>2, <1>5 DEF TypeOK, picVars, cpuVars
<1>9. SetUp' /\ Coarse' /\ Fine' /\ Calibrated' /\ Waits'
  BY <1>1, <1>2, OpenSetUp, MeasuringKeeps DEF Open, Measuring, Waits
<1>10. Delays'
  <2>1. Counted(0)'
    <3>1. (ticks + 0) % WordMod = ticks
      <4>1. ticks + 0 = ticks
        BY <1>5
      <4>2. ticks % WordMod = ticks
        BY <1>5
      <4> QED BY <4>1, <4>2
    <3>2. 0 * period' + phase' = phase' /\ Slack + 0 + 0 * Cost = Slack /\ Slack \in Nat
      <4>1. PICK f \in Nat : f = phase'
        BY <1>2, <1>5
      <4>2. PICK p \in Nat : p = period'
        BY <1>2, <1>5
      <4>3. 0 * p + f = f
        OBVIOUS
      <4>4. Slack \in Nat /\ 0 * Cost = 0
        BY <1>5 DEF Slack
      <4>5. Slack + 0 + 0 = Slack
        BY <4>4
      <4> QED BY <4>1, <4>2, <4>3, <4>4, <4>5
    <3>3. Slack' = Slack
      BY DEF Slack
    <3> QED BY <1>2, <1>7, <3>1, <3>2, <3>3 DEF Counted
  <2>2. 0 \in 0 .. 3
    OBVIOUS
  <2> QED BY <1>2, <1>5, <2>1, <2>2 DEF Delays
<1> QED BY <1>8, <1>9, <1>10 DEF CalibInv

\* What is measured is less than two ticks.
LEMMA CountBound ==
  ASSUME CalibInv, pc \in Measuring
  PROVE  delay_count <= 2 * period - 2
<1>1. TypeOK /\ stage \in {1, 2}
  BY DEF CalibInv, TypeOK
<1>2. period \in Nat /\ i \in Nat /\ calib_bit \in Nat
  BY <1>1, Numbers
<1>3. CASE stage = 1
  <2>1. PICK h \in Nat \ {0} : delay_count = 2 * h /\ h < period
    BY <1>3 DEF CalibInv, Coarse
  <2> QED BY <1>2, <2>1
<1>4. CASE stage = 2
  <2>1. PICK n \in Nat : delay_count = n + calib_bit /\ n < period /\ (2 * calib_bit) * 2^i <= n
    BY <1>4 DEF CalibInv, Fine, Trying
  <2>2. PICK w \in Nat : w = 2^i /\ w >= 1
    BY <1>2, PowerPositive, Zenon
  <2>3. PICK e \in Nat : e = 2 * calib_bit /\ e * w <= n
    BY <1>2, <2>1, <2>2
  <2>4. e <= e * w
    BY <2>2
  <2>5. e <= n
    BY <2>2, <2>3, <2>4
  <2> QED BY <1>2, <2>1, <2>3, <2>5
<1> QED BY <1>1, <1>3, <1>4

LEMMA RoundKeeps ==
  ASSUME CalibInv, DelayRound
  PROVE  CalibInv'
<1>1. TypeOK /\ SetUp /\ Delays
  BY DEF CalibInv
<1>2. /\ pc = "loop" /\ c < delay_count /\ ~Interrupted /\ Elapse(1) /\ c' = c + 1
      /\ UNCHANGED <<pc, period, ticks, stage, prevtick, delay_count, calib_bit, i, picVars, cpuVars>>
  BY DEF DelayRound
<1>3. ~irr
  BY <1>1, <1>2, Taken DEF Open, Measuring
<1>4. /\ phase' \in 0 .. period - 1 /\ irr' \in BOOLEAN
      /\ phase + 1 < period => phase' = phase + 1 /\ irr' = irr
      /\ phase + 1 = period => phase' = 0 /\ irr'
  BY <1>1, <1>2, RoundTakes
<1>5. /\ period \in Nat /\ phase \in 0 .. period - 1 /\ Cost \in Nat /\ WordMod \in Nat
      /\ c \in 0 .. WordMod - 1 /\ delay_count \in 0 .. WordMod - 1
  BY <1>1, Numbers
<1>6. c' \in 0 .. WordMod - 1 /\ c' <= delay_count
  BY <1>2, <1>5
<1>7. TypeOK'
  BY <1>1, <1>2, <1>4, <1>6 DEF TypeOK, picVars, cpuVars
<1>8. SetUp' /\ Coarse' /\ Fine' /\ Calibrated' /\ Waits'
  BY <1>1, <1>2, OpenSetUp, MeasuringKeeps DEF Open, Measuring, Waits
<1>9. Delays'
  <2>1. PICK k \in 0 .. 3 : Counted(k)
    BY <1>1, <1>2 DEF Delays
  <2>2. PICK kp \in Nat, kc \in Nat, sl \in Nat :
          kp = k * period /\ kc = k * Cost /\ (k + 1) * period = kp + period /\ sl = Slack
    BY <1>5 DEF Slack
  <2>3. /\ ticks = (prevtick + k) % WordMod /\ kp + phase <= sl + c + kc
        /\ k = 0 => c <= phase
        /\ k > 0 => period <= c + sl
    BY <1>3, <2>1, <2>2 DEF Counted
  <2>4. Slack' = Slack
    BY DEF Slack
  <2>5. CASE phase + 1 < period
    <3>1. ~irr' /\ phase' = phase + 1
      BY <1>3, <1>4, <2>5, Zenon
    <3>2. kp + phase' <= sl + c' + kc /\ (k = 0 => c' <= phase') /\ (k > 0 => period <= c' + sl)
      BY <1>2, <1>5, <2>2, <2>3, <3>1
    <3>3. Counted(k)'
      BY <1>2, <2>2, <2>3, <2>4, <3>1, <3>2 DEF Counted
    <3> QED BY <1>2, <1>6, <3>3 DEF Delays
  <2>6. CASE phase + 1 = period
    <3>1. irr' /\ phase' = 0
      BY <1>4, <2>6, Zenon
    <3>2. kp + period <= sl + c' + kc
      BY <1>2, <1>5, <2>2, <2>3, <2>6
    <3>3. period <= c' + sl
      <4>1. CASE k = 0
        <5>1. kp = 0 /\ kc = 0
          BY <1>5, <2>2, <4>1
        <5> QED BY <1>2, <1>5, <2>3, <2>6, <5>1
      <4>2. CASE k > 0
        BY <1>2, <1>5, <2>3, <4>2
      <4>3. k = 0 \/ k > 0
        OBVIOUS
      <4> QED BY <4>1, <4>2, <4>3, Zenon
    <3>4. Counted(k)'
      BY <1>2, <2>2, <2>3, <2>4, <3>1, <3>2, <3>3 DEF Counted
    <3> QED BY <1>2, <1>6, <3>4 DEF Delays
  <2>7. phase + 1 < period \/ phase + 1 = period
    BY <1>5
  <2> QED BY <2>5, <2>6, <2>7, Zenon
<1> QED BY <1>7, <1>8, <1>9 DEF CalibInv

\* One more tick, counted modulo the size of the counter.
LEMMA NextTick ==
  ASSUME NEW p \in Nat, NEW k \in Nat, NEW w \in Nat \ {0}, p < w, k + 1 < w
  PROVE  (((p + k) % w) + 1) % w = (p + (k + 1)) % w
<1>1. CASE p + k < w
  <2>1. (p + k) % w = p + k
    BY <1>1
  <2> QED BY <2>1
<1>2. CASE p + k >= w
  <2>1. p + k \in Nat /\ p + k < 2 * w
    OBVIOUS
  <2>2. PICK s \in Nat : s = p + k
    BY <2>1
  <2>3. s % w = s - w
    <3>1. s < 2 * w /\ ~(s < w)
      BY <1>2, <2>2
    <3> QED BY <3>1, Wraps
  <2>4. s - w + 1 \in 0 .. w - 1
    BY <1>2, <2>2
  <2>5. (s - w + 1) % w = s - w + 1
    BY <2>4
  <2>6. PICK t \in Nat : t = p + (k + 1) /\ t = s + 1
    BY <2>2
  <2>7. t % w = t - w
    <3>1. t < 2 * w /\ ~(t < w)
      BY <1>2, <2>2, <2>6
    <3> QED BY <3>1, Wraps
  <2>8. t - w = s - w + 1
    BY <2>6
  <2> QED BY <2>2, <2>3, <2>5, <2>6, <2>7, <2>8
<1>3. p + k < w \/ p + k >= w
  OBVIOUS
<1> QED BY <1>1, <1>2, <1>3

\* The counter has not come round to where it was.
LEMMA TicksDiffer ==
  ASSUME NEW p \in Nat, NEW k \in Nat, NEW w \in Nat \ {0}, p < w, k < w
  PROVE  (p + k) % w = p <=> k = 0
<1>1. PICK s \in Nat : s = p + k /\ s < 2 * w
  OBVIOUS
<1>2. s % w = IF s < w THEN s ELSE s - w
  BY <1>1, Wraps
<1> QED BY <1>1, <1>2

LEMMA InterruptKeeps ==
  ASSUME CalibInv, Interrupt
  PROVE  CalibInv'
<1>1. TypeOK /\ SetUp /\ Waits /\ Delays
  BY DEF CalibInv
<1>2. /\ Interrupted /\ UNCHANGED <<irq_mask, imr, vec, idt, iflag, period, calibVars>>
      /\ irr /\ 0 \notin imr /\ iflag
  BY DEF Interrupt, Interrupted
<1>3. pc \in Open
  BY <1>1, <1>2 DEF SetUp, Places, After, Before
<1>4. vec = M_VEC /\ idt[vec] = "pit_delay_ISR"
  BY <1>1, <1>3 DEF SetUp, Open, Measuring, Before
<1>5. ticks' = (ticks + 1) % WordMod /\ ~isr' /\ isr' \in BOOLEAN /\ pc' = pc
  <2>1. Signals(idt[vec])
    BY <1>4 DEF Signals
  <2>2. isr' = ~Signals(idt[vec])
    BY DEF Interrupt
  <2>3. isr' = FALSE
    BY <2>1, <2>2, Zenon
  <2> QED BY <1>4, <2>3 DEF Interrupt
<1>6. /\ period \in Nat /\ phase \in 0 .. period - 1 /\ Cost \in Nat /\ period > 4 * Cost + 4
      /\ WordMod \in Nat /\ ticks \in 0 .. WordMod - 1 /\ prevtick \in 0 .. WordMod - 1 /\ 4 * period < WordMod
      /\ c \in 0 .. WordMod - 1 /\ delay_count \in 0 .. WordMod - 1
  BY <1>1, Numbers
<1>7. PICK d \in 0 .. Cost : phase' = (phase + d) % period /\ irr' = (phase + d >= period)
  BY DEF Interrupt
<1>8. phase' \in 0 .. period - 1 /\ irr' \in BOOLEAN /\ ticks' \in 0 .. WordMod - 1
  <2>1. phase' \in 0 .. period - 1 /\ ticks' \in 0 .. WordMod - 1
    BY <1>5, <1>6, <1>7
  <2>2. CASE phase + d >= period
    <3>1. irr' = TRUE
      BY <1>7, <2>2, Zenon
    <3> QED BY <2>1, <3>1
  <2>3. CASE ~(phase + d >= period)
    <3>1. (phase + d >= period) = FALSE
      BY <2>3
    <3>2. irr' = FALSE
      BY <1>7, <3>1, Zenon
    <3> QED BY <2>1, <3>2
  <2> QED BY <2>2, <2>3
<1>9. ASSUME phase <= Cost PROVE phase' = phase + d /\ ~irr'
  <2>1. phase + d \in 0 .. period - 1 /\ ~(phase + d >= period)
    BY <1>6, <1>9
  <2>2. phase' = phase + d
    BY <1>6, <1>7, <2>1
  <2>3. ~irr'
    BY <1>7, <2>1, Zenon
  <2> QED BY <2>2, <2>3
<1>10. TypeOK'
  BY <1>1, <1>2, <1>5, <1>8 DEF TypeOK, calibVars
<1>11. SetUp'
  BY <1>1, <1>2, <1>3, <1>5 DEF SetUp, Open, Measuring, Before, Places, After
<1>12. Coarse' /\ Fine' /\ Calibrated'
  <2>1. Coarse'
    BY <1>2, <1>5 DEF CalibInv, Coarse, calibVars
  <2>2. Fine'
    BY <1>2, <1>5 DEF CalibInv, Fine, Found, Trying, Slack, calibVars
  <2>3. Calibrated'
    BY <1>2, <1>5 DEF CalibInv, Calibrated, Slack, calibVars
  <2> QED BY <2>1, <2>2, <2>3
<1>13. Waits'
  <2>1. CASE pc = "wait"
    <3>1. ticks = prevtick /\ phase <= Cost
      BY <1>1, <1>2, <2>1 DEF Waits
    <3>2. phase' = phase + d /\ ~irr'
      BY <1>9, <3>1
    <3>3. phase' <= 2 * Cost
      BY <1>6, <3>1, <3>2
    <3> QED BY <1>2, <1>5, <2>1, <3>1, <3>2, <3>3 DEF Waits, calibVars
  <2>2. CASE pc # "wait"
    BY <1>1, <1>2, <1>5, <2>2 DEF Waits
  <2> QED BY <2>1, <2>2
<1>14. Delays'
  <2>1. SUFFICES ASSUME pc = "loop" PROVE c <= delay_count /\ \E k \in 0 .. 3 : Counted(k)'
    BY <1>2, <1>5 DEF Delays, calibVars
  <2>2. PICK k \in 0 .. 3 : Counted(k)
    BY <1>1, <2>1 DEF Delays
  <2>3. PICK kp \in Nat, kc \in Nat, sl \in Nat :
          kp = (k + 1) * period /\ kc = k * Cost /\ (k + 1) * Cost = kc + Cost /\ sl = Slack
    BY <1>6 DEF Slack
  <2>4. phase = 0 /\ kp <= sl + c + kc /\ period <= c + sl /\ ticks = (prevtick + k) % WordMod
    BY <1>2, <2>2, <2>3 DEF Counted
  <2>5. c <= 2 * period - 2 /\ c <= delay_count
    <3>1. c <= delay_count
      BY <1>1, <2>1 DEF Delays
    <3>2. delay_count <= 2 * period - 2
      BY <2>1, CountBound DEF Measuring
    <3> QED BY <1>6, <3>1, <3>2
  <2>6. k # 3
    <3>1. SUFFICES ASSUME k = 3 PROVE FALSE
      OBVIOUS
    <3>2. kp = 4 * period /\ kc = 3 * Cost /\ sl = 3 * Cost + 1
      BY <2>3, <3>1 DEF Slack
    <3> QED BY <1>6, <2>4, <2>5, <3>2
  <2>7. k + 1 \in 0 .. 3 /\ k + 1 < WordMod /\ WordMod # 0
    BY <1>6, <2>6
  <2>8. ticks' = (prevtick + (k + 1)) % WordMod
    <3>1. PICK w \in Nat \ {0}, p \in Nat : w = WordMod /\ p = prevtick /\ p < w /\ k + 1 < w
      BY <1>6, <2>7
    <3>2. k \in Nat
      OBVIOUS
    <3>3. (((p + k) % w) + 1) % w = (p + (k + 1)) % w
      BY <3>1, <3>2, NextTick, ZenonT(30)
    <3> QED BY <1>5, <2>4, <3>1, <3>3
  <2>9. phase' = d /\ ~irr'
    BY <1>6, <1>9, <2>4
  <2>10. kp + phase' <= sl + c + (kc + Cost)
    BY <1>6, <2>3, <2>4, <2>9
  <2>11. Slack' = Slack /\ ~(k + 1 = 0) /\ k + 1 > 0
    BY DEF Slack
  <2>12. Counted(k + 1)'
    BY <1>2, <2>3, <2>4, <2>8, <2>9, <2>10, <2>11 DEF Counted, calibVars
  <2> QED BY <2>5, <2>7, <2>12
<1> QED BY <1>10, <1>11, <1>12, <1>13, <1>14 DEF CalibInv

-----------------------------------------------------------------------------
\* A statement that starts a measurement: a tick on the way is a new one.
LEMMA WaitStarts ==
  ASSUME TypeOK, SetUp, NEW p \in Open, Statement(p), prevtick' = ticks, pc' = "wait"
  PROVE  Waits'
<1>1. ~irr /\ ticks' = ticks
  BY StatementTakes, Taken
<1>2. PICK d \in 0 .. Cost :
        /\ phase + d < period => phase' = phase + d /\ irr' = irr
        /\ phase + d >= period => phase' = phase + d - period /\ irr'
  BY StatementTakes
<1>3. period \in Nat /\ phase \in 0 .. period - 1 /\ Cost \in Nat
  BY Numbers
<1>4. irr' => phase' <= Cost
  <2>1. CASE phase + d < period
    BY <1>1, <1>2, <2>1, Zenon
  <2>2. CASE phase + d >= period
    BY <1>2, <1>3, <2>2
  <2>3. phase + d < period \/ phase + d >= period
    BY <1>3
  <2> QED BY <2>1, <2>2, <2>3, Zenon
<1> QED BY <1>1, <1>4 DEF Waits

\* A statement that ends a measurement: without a tick since it began the count
\* is shorter than one, and with a tick it is not, up to the Slack.
LEMMA Measured ==
  ASSUME CalibInv, Statement("loop"), c = delay_count
  PROVE  /\ prevtick = ticks => delay_count < period
         /\ prevtick # ticks => period <= delay_count + Slack
<1>1. TypeOK /\ SetUp /\ Delays
  BY DEF CalibInv
<1>2. pc = "loop" /\ ~Interrupted
  BY DEF Statement
<1>3. ~irr
  BY <1>1, <1>2, Taken DEF Open, Measuring
<1>4. PICK k \in 0 .. 3 : Counted(k)
  BY <1>1, <1>2 DEF Delays
<1>5. /\ period \in Nat /\ phase \in 0 .. period - 1 /\ period > 4 * Cost + 4 /\ Cost \in Nat /\ 4 * period < WordMod
      /\ WordMod \in Nat /\ prevtick \in 0 .. WordMod - 1 /\ delay_count \in Nat
  BY <1>1, Numbers
<1>6. (prevtick + k) % WordMod = prevtick <=> k = 0
  <2>1. PICK w \in Nat \ {0}, p \in Nat : w = WordMod /\ p = prevtick /\ p < w /\ k < w
    BY <1>5
  <2>2. k \in Nat
    OBVIOUS
  <2>3. (p + k) % w = p <=> k = 0
    BY <2>1, <2>2, TicksDiffer
  <2> QED BY <2>1, <2>3
<1>7. ticks = (prevtick + k) % WordMod /\ (k = 0 => c <= phase) /\ (k > 0 => period <= c + Slack)
  BY <1>3, <1>4 DEF Counted
<1>8. k = 0 \/ k > 0
  OBVIOUS
<1>9. CASE k = 0
  <2>1. ticks = prevtick /\ c <= phase
    BY <1>6, <1>7, <1>9
  <2> QED BY <1>5, <2>1
<1>10. CASE k > 0
  <2>1. ticks # prevtick /\ period <= c + Slack
    BY <1>6, <1>7, <1>10
  <2> QED BY <2>1
<1> QED BY <1>8, <1>9, <1>10

LEMMA CoarseKeeps ==
  ASSUME CalibInv, coarse
  PROVE  CalibInv'
<1>1. TypeOK /\ SetUp
  BY DEF CalibInv
<1>2. /\ pc = "coarse" /\ Statement("coarse") /\ prevtick' = ticks /\ pc' = "wait" /\ ticks' = ticks
      /\ delay_count' = (2 * delay_count) % WordMod /\ period' = period
      /\ UNCHANGED <<stage, calib_bit, i, c, picVars, cpuVars>>
      /\ phase' \in 0 .. period - 1 /\ irr' \in BOOLEAN
  BY <1>1, StatementTakes DEF coarse
<1>3. stage = 1
  BY <1>1, <1>2 DEF CalibInv, Fine, TypeOK, Measuring, After
<1>4. PICK h \in Nat \ {0} : h = delay_count /\ PowerOfTwo(h) /\ h < period /\ i = 0
  <2>1. PowerOfTwo(delay_count) /\ delay_count >= 1 /\ delay_count < period /\ i = 0
    BY <1>2, <1>3 DEF CalibInv, Coarse
  <2>2. delay_count \in Nat \ {0}
    BY <1>1, <2>1, Numbers
  <2> QED BY <2>1, <2>2, Zenon
<1>5. period \in Nat /\ 4 * period < WordMod /\ WordMod \in Nat
  BY <1>1, Numbers
<1>6. delay_count' = 2 * h /\ 2 * h \in 0 .. WordMod - 1
  BY <1>2, <1>4, <1>5
<1>7. TypeOK'
  <2>1. ticks \in 0 .. WordMod - 1
    BY <1>1, Numbers
  <2> QED BY <1>1, <1>2, <1>6, <2>1 DEF TypeOK, picVars, cpuVars
<1>8. SetUp'
  BY <1>1, <1>2, OpenSetUp DEF Open, Measuring
<1>9. Coarse'
  BY <1>2, <1>3, <1>4, <1>6 DEF Coarse, Measuring, Before
<1>10. Fine' /\ Delays' /\ Calibrated'
  BY <1>2, <1>3 DEF Fine, Delays, Calibrated
<1>11. Waits'
  BY <1>1, <1>2, WaitStarts DEF Open
<1> QED BY <1>7, <1>8, <1>9, <1>10, <1>11 DEF CalibInv

LEMMA CoarseTestKeeps ==
  ASSUME CalibInv, coarse_test
  PROVE  CalibInv'
<1>1. TypeOK /\ SetUp
  BY DEF CalibInv
<1>2. /\ stage = 1 /\ c = delay_count /\ pc = "loop" /\ Statement("loop") /\ ticks' = ticks /\ period' = period
      /\ UNCHANGED <<prevtick, i, c, picVars, cpuVars>>
      /\ phase' \in 0 .. period - 1 /\ irr' \in BOOLEAN
  BY <1>1, StatementTakes DEF coarse_test
<1>3. PICK h \in Nat \ {0} : PowerOfTwo(h) /\ delay_count = 2 * h /\ h < period /\ i = 0
  BY <1>2 DEF CalibInv, Coarse, Measuring
<1>4. period \in Nat /\ 4 * period < WordMod /\ WordMod \in Nat /\ Slack \in Nat
  BY <1>1, Numbers DEF Slack
<1>5. CASE prevtick = ticks
  <2>1. pc' = "coarse" /\ UNCHANGED <<stage, delay_count, calib_bit>>
    BY <1>5 DEF coarse_test
  <2>2. delay_count < period
    BY <1>2, <1>5, Measured
  <2>3. TypeOK'
    BY <1>1, <1>2, <2>1 DEF TypeOK, picVars, cpuVars
  <2>4. SetUp'
    BY <1>1, <1>2, <2>1, OpenSetUp DEF Open, Measuring
  <2>5. PowerOfTwo(delay_count) /\ delay_count >= 1
    BY <1>3, Doubled
  <2>6. Coarse'
    BY <1>2, <1>3, <2>1, <2>2, <2>5 DEF Coarse, Measuring, Before, PowerOfTwo
  <2>7. Fine' /\ Waits' /\ Delays' /\ Calibrated'
    BY <1>2, <2>1 DEF Fine, Waits, Delays, Calibrated
  <2> QED BY <2>3, <2>4, <2>6, <2>7 DEF CalibInv
<1>6. CASE prevtick # ticks
  <2>1. pc' = "fine" /\ stage' = 2 /\ delay_count' = delay_count \div 2 /\ calib_bit' = delay_count \div 2
    BY <1>6 DEF coarse_test
  <2>2. period <= delay_count + Slack
    BY <1>2, <1>6, Measured
  <2>3. delay_count' = h /\ calib_bit' = h /\ h \in 0 .. WordMod - 1
    <3>1. (2 * h) \div 2 = h
      OBVIOUS
    <3> QED BY <1>3, <1>4, <2>1, <3>1
  <2>4. TypeOK'
    BY <1>1, <1>2, <2>1, <2>3 DEF TypeOK, picVars, cpuVars
  <2>5. SetUp'
    BY <1>1, <1>2, <2>1, OpenSetUp DEF Open, Measuring
  <2>6. h = 1 * h /\ h <= h /\ period <= h + h + Slack
    BY <1>3, <1>4, <2>2
  <2>7. h * 2^i' <= h
    <3>1. 2^0 = 1
      OBVIOUS
    <3>2. 2^i' = 1
      BY <1>2, <1>3, <3>1
    <3> QED BY <3>2
  <2>8. Found'
    <3>1. PowerOfTwo(h)' /\ Slack' = Slack /\ h >= 1
      BY <1>3 DEF PowerOfTwo, Slack
    <3>2. \E q \in Nat : h = q * h
      BY <2>6
    <3> QED BY <1>2, <1>3, <2>3, <2>6, <2>7, <3>1, <3>2 DEF Found
  <2>9. Coarse' /\ Waits' /\ Delays' /\ Fine'
    BY <2>1, <2>8 DEF Coarse, Waits, Delays, Fine, Measuring
  <2>10. Calibrated'
    BY <2>1, <2>8 DEF Calibrated, Found
  <2> QED BY <2>4, <2>5, <2>9, <2>10 DEF CalibInv
<1> QED BY <1>5, <1>6

LEMMA FineKeeps ==
  ASSUME CalibInv, fine
  PROVE  CalibInv'
<1>1. TypeOK /\ SetUp
  BY DEF CalibInv
<1>2. /\ pc = "fine" /\ Statement("fine") /\ ticks' = ticks /\ period' = period
      /\ UNCHANGED <<stage, i, c, picVars, cpuVars>>
      /\ phase' \in 0 .. period - 1 /\ irr' \in BOOLEAN
  BY <1>1, StatementTakes DEF fine
<1>3. stage = 2
  BY <1>1, <1>2 DEF CalibInv, Coarse, TypeOK, Measuring, Before
<1>4. Found
  BY <1>2, <1>3 DEF CalibInv, Fine
<1>5. /\ period \in Nat /\ 4 * period < WordMod /\ WordMod \in Nat /\ i \in Nat /\ ticks \in 0 .. WordMod - 1
      /\ delay_count \in Nat /\ calib_bit \in Nat
  BY <1>1, Numbers
<1>6. CASE i < PRECISION /\ calib_bit \div 2 # 0
  <2>1. /\ calib_bit' = calib_bit \div 2 /\ delay_count' = SetBit(delay_count, calib_bit \div 2)
        /\ prevtick' = ticks /\ pc' = "wait"
    BY <1>6 DEF fine
  <2>2. PICK b \in Nat \ {0} : PowerOfTwo(b) /\ calib_bit = 2 * b /\ calib_bit \div 2 = b
    BY <1>4, <1>5, <1>6, Halved DEF Found
  <2>3. PICK n \in Nat, w \in Nat : n = delay_count /\ w = 2^i /\ w >= 1
    BY <1>5, PowerPositive
  <2>4. PICK q \in Nat : n = q * (2 * b)
    BY <1>4, <2>2, <2>3 DEF Found
  <2>5. calib_bit' = b /\ delay_count' = n + b
    BY <2>1, <2>2, <2>3, <2>4, BitSet
  <2>6. n < period /\ period <= n + 2 * b + Slack /\ (2 * b) * 2^i <= n /\ (2 * b) * w <= n
    BY <1>4, <2>2, <2>3 DEF Found
  <2>7. n + b \in 0 .. WordMod - 1 /\ b \in 0 .. WordMod - 1
    <3>1. PICK e \in Nat : e = 2 * b /\ e * w <= n
      BY <2>6
    <3>2. e <= e * w
      BY <2>3
    <3>3. e <= n
      BY <2>3, <3>1, <3>2
    <3> QED BY <1>5, <2>6, <3>1, <3>3
  <2>8. TypeOK'
    BY <1>1, <1>2, <1>5, <2>1, <2>5, <2>7 DEF TypeOK, picVars, cpuVars
  <2>9. SetUp'
    BY <1>1, <1>2, <2>1, OpenSetUp DEF Open, Measuring
  <2>10. Waits'
    BY <1>1, <1>2, <2>1, WaitStarts DEF Open
  <2>11. Trying'
    <3>1. PowerOfTwo(b)' /\ Slack' = Slack /\ b >= 1 /\ i' < PRECISION /\ 2^i' = 2^i
      BY <1>2, <1>6, <2>2 DEF PowerOfTwo, Slack
    <3> QED BY <1>2, <2>4, <2>5, <2>6, <3>1 DEF Trying
  <2>12. Coarse' /\ Fine' /\ Delays' /\ Calibrated'
    BY <1>2, <1>3, <2>1, <2>11 DEF Coarse, Fine, Delays, Calibrated, Measuring
  <2> QED BY <2>8, <2>9, <2>10, <2>12 DEF CalibInv
<1>7. CASE ~(i < PRECISION /\ calib_bit \div 2 # 0)
  <2>1. pc' = "finish" /\ UNCHANGED <<calib_bit, delay_count, prevtick>>
    BY <1>7 DEF fine
  <2>2. TypeOK'
    BY <1>1, <1>2, <2>1 DEF TypeOK, picVars, cpuVars
  <2>3. SetUp'
    BY <1>1, <1>2, <2>1, OpenSetUp DEF Open, Measuring
  <2>4. Found'
    BY <1>2, <1>4, <2>1 DEF Found, PowerOfTwo, Slack
  <2>5. Coarse' /\ Fine' /\ Delays' /\ Waits'
    BY <1>2, <1>3, <2>1, <2>4 DEF Coarse, Fine, Delays, Waits, Measuring
  <2>6. calib_bit = 1 \/ calib_bit * 2^PRECISION <= delay_count
    <3>1. CASE i = PRECISION
      BY <1>4, <3>1 DEF Found
    <3>2. CASE calib_bit \div 2 = 0
      BY <1>4, <1>5, <3>2 DEF Found
    <3>3. i = PRECISION \/ i < PRECISION
      BY <1>1, Consts DEF TypeOK
    <3> QED BY <1>7, <3>1, <3>2, <3>3
  <2>7. Calibrated'
    BY <2>1, <2>4, <2>6 DEF Calibrated, Found
  <2> QED BY <2>2, <2>3, <2>5, <2>7 DEF CalibInv
<1> QED BY <1>6, <1>7

LEMMA FineTestKeeps ==
  ASSUME CalibInv, fine_test
  PROVE  CalibInv'
<1>1. TypeOK /\ SetUp
  BY DEF CalibInv
<1>2. /\ stage = 2 /\ c = delay_count /\ pc = "loop" /\ Statement("loop") /\ ticks' = ticks /\ period' = period
      /\ delay_count' = (IF prevtick # ticks THEN ClearBit(delay_count, calib_bit) ELSE delay_count)
      /\ i' = i + 1 /\ pc' = "fine"
      /\ UNCHANGED <<stage, prevtick, calib_bit, c, picVars, cpuVars>>
      /\ phase' \in 0 .. period - 1 /\ irr' \in BOOLEAN
  BY <1>1, StatementTakes DEF fine_test
<1>3. Trying
  BY <1>2 DEF CalibInv, Fine, Measuring
<1>4. /\ period \in Nat /\ 4 * period < WordMod /\ WordMod \in Nat /\ i \in Nat
      /\ delay_count \in 0 .. WordMod - 1 /\ calib_bit \in Nat /\ Slack \in Nat
  BY <1>1, Numbers DEF Slack
<1>5. PICK b \in Nat \ {0} : b = calib_bit /\ PowerOfTwo(b)
  BY <1>3, <1>4 DEF Trying
<1>6. PICK q \in Nat, n \in Nat :
        /\ n = q * (2 * b) /\ delay_count = n + b
        /\ n < period /\ period <= n + 2 * b + Slack /\ (2 * b) * 2^i <= n
  BY <1>3, <1>5 DEF Trying
<1>7. i < PRECISION /\ PRECISION \in Nat
  BY <1>3, Consts DEF Trying
<1>8. b * 2^(i + 1) <= n
  <2>1. PICK w \in Nat : w = 2^i
    BY <1>4, PowerNext, Zenon
  <2>2. 2^(i + 1) = 2 * w
    BY <1>4, <2>1, PowerNext
  <2>3. (2 * b) * w = b * (2 * w)
    OBVIOUS
  <2>4. (2 * b) * w <= n
    BY <1>6, <2>1
  <2>5. b * (2 * w) <= n
    BY <2>3, <2>4
  <2> QED BY <2>2, <2>5
<1>9. PICK r \in Nat, m \in Nat :
        /\ delay_count' = m /\ m = r * b /\ m < period /\ period <= m + b + Slack /\ n <= m
  <2>1. CASE prevtick # ticks
    <3>1. delay_count' = n
      BY <1>2, <1>5, <1>6, <2>1, BitSet
    <3>2. n = (2 * q) * b /\ 2 * q \in Nat
      BY <1>6
    <3>3. period <= n + b + Slack
      BY <1>2, <1>6, <2>1, Measured
    <3> QED BY <1>6, <3>1, <3>2, <3>3
  <2>2. CASE prevtick = ticks
    <3>1. delay_count' = n + b /\ n + b < period
      BY <1>2, <1>6, <2>2, Measured
    <3>2. n + b = (2 * q + 1) * b /\ 2 * q + 1 \in Nat
      BY <1>6
    <3>3. period <= (n + b) + b + Slack /\ n <= n + b
      BY <1>4, <1>6
    <3>4. PICK m \in Nat, r \in Nat : m = n + b /\ r = 2 * q + 1
      BY <3>2
    <3>5. delay_count' = m /\ m = r * b /\ m < period /\ period <= m + b + Slack /\ n <= m
      BY <3>1, <3>2, <3>3, <3>4
    <3> QED BY <3>5
  <2> QED BY <2>1, <2>2
<1>10. i' \in 0 .. PRECISION /\ delay_count' \in 0 .. WordMod - 1
  BY <1>2, <1>4, <1>7, <1>9
<1>11. TypeOK'
  BY <1>1, <1>2, <1>10 DEF TypeOK, picVars, cpuVars
<1>12. SetUp'
  BY <1>1, <1>2, OpenSetUp DEF Open, Measuring
<1>13. Found'
  <2>1. PowerOfTwo(b)' /\ Slack' = Slack /\ b >= 1 /\ 2^i' = 2^(i + 1)
    BY <1>2, <1>5 DEF PowerOfTwo, Slack
  <2>2. b * 2^i' <= m
    <3>1. PICK v \in Nat : v = b * 2^(i + 1)
      <4>1. PICK w \in Nat : w = 2^(i + 1)
        BY <1>4, PowerPositive
      <4> QED BY <4>1
    <3> QED BY <1>8, <1>9, <2>1, <3>1
  <2> QED BY <1>2, <1>5, <1>9, <2>1, <2>2 DEF Found
<1>14. Coarse' /\ Fine' /\ Waits' /\ Delays'
  BY <1>2, <1>13 DEF Coarse, Fine, Waits, Delays, Measuring
<1>15. Calibrated'
  BY <1>2, <1>13 DEF Calibrated, Found
<1> QED BY <1>11, <1>12, <1>14, <1>15 DEF CalibInv

LEMMA FinishKeeps ==
  ASSUME CalibInv, finish
  PROVE  CalibInv'
<1>1. TypeOK /\ SetUp
  BY DEF CalibInv
<1>2. /\ pc = "finish" /\ Statement("finish") /\ ticks' = ticks /\ period' = period /\ disable_irq(0)
      /\ delay_count' = delay_count \div MILLISEC /\ pc' = "getch_end"
      /\ UNCHANGED <<isr, vec, stage, prevtick, calib_bit, i, c, cpuVars>>
      /\ phase' \in 0 .. period - 1 /\ irr' \in BOOLEAN
  BY <1>1, StatementTakes DEF finish
<1>3. stage = 2
  BY <1>1, <1>2 DEF CalibInv, Coarse, TypeOK, Measuring, Before
<1>4. Found
  BY <1>2, <1>3 DEF CalibInv, Fine
<1>5. /\ period \in Nat /\ WordMod \in Nat /\ delay_count \in 0 .. WordMod - 1 /\ calib_bit \in Nat
      /\ MILLISEC \in Nat \ {0} /\ Slack \in Nat
  BY <1>1, Numbers, Consts DEF Slack
<1>6. PICK n \in Nat, M \in Nat \ {0} : n = delay_count /\ M = MILLISEC
  BY <1>5
<1>7. PICK q \in Nat, r \in 0 .. M - 1 : n \div M = q /\ n = q * M + r
  <2>1. n \div M \in Nat /\ n % M \in 0 .. M - 1 /\ n = (n \div M) * M + (n % M)
    OBVIOUS
  <2> QED BY <2>1
<1>8. M * q <= n /\ n < M * (q + 1) /\ q <= n
  <2>1. M * q = q * M /\ M * (q + 1) = q * M + M /\ q <= q * M /\ q * M \in Nat
    OBVIOUS
  <2> QED BY <1>7, <2>1
<1>9. delay_count' = q /\ q \in 0 .. WordMod - 1
  BY <1>2, <1>5, <1>6, <1>7, <1>8
<1>10. irq_mask' \subseteq Lines /\ imr' \subseteq Lines /\ 0 \in imr'
  <2>1. irq_mask \union {0} \subseteq Lines /\ 2 \in Lines
    BY <1>1 DEF TypeOK, Lines
  <2> QED BY <1>2, <2>1 DEF disable_irq, SetMask
<1>11. TypeOK'
  BY <1>1, <1>2, <1>9, <1>10 DEF TypeOK, cpuVars
<1>12. SetUp'
  BY <1>1, <1>2, <1>10 DEF SetUp, Places, After, Before, Open, Measuring, cpuVars
<1>13. Coarse' /\ Fine' /\ Waits' /\ Delays'
  BY <1>2, <1>3 DEF Coarse, Fine, Waits, Delays, Measuring, After
<1>14. Calibrated'
  <2>1. n < period /\ period <= n + calib_bit + Slack
    BY <1>4, <1>6 DEF Found
  <2>2. M * q < period /\ period < M * (q + 1) + calib_bit + Slack
    <3>1. PICK x \in Nat, y \in Nat : x = M * q /\ y = M * (q + 1)
      OBVIOUS
    <3> QED BY <1>5, <1>8, <2>1, <3>1
  <2>3. Slack' = Slack
    BY DEF Slack
  <2> QED BY <1>2, <1>6, <1>9, <2>2, <2>3 DEF Calibrated
<1> QED BY <1>11, <1>12, <1>13, <1>14 DEF CalibInv

-----------------------------------------------------------------------------
LEMMA CalibStart == Init => CalibInv
<1> SUFFICES ASSUME Init PROVE CalibInv
  OBVIOUS
<1>1. /\ period \in Nat /\ period > 4 * Cost + 4 /\ 4 * period < WordMod /\ WordMod \in Nat
      /\ Cost \in Nat /\ PRECISION \in Nat
  BY Consts DEF Init
<1>2. TypeOK
  <2>1. 0 \in 0 .. WordMod - 1 /\ 1 \in 0 .. WordMod - 1 /\ 0 \in 0 .. PRECISION /\ 0 \in 0 .. period - 1
    BY <1>1
  <2>2. 8 \in Vectors
    BY DEF Vectors
  <2>3. idt \in [Vectors -> {"none", "int_null", "fault", "pit_delay_ISR"}]
    BY DEF Init
  <2>4. irr \in BOOLEAN /\ isr \in BOOLEAN /\ iflag \in BOOLEAN
    BY DEF Init
  <2>5. {ticks, prevtick, delay_count, calib_bit, c} \subseteq 0 .. WordMod - 1
    BY <2>1 DEF Init
  <2> QED BY <2>1, <2>2, <2>3, <2>4, <2>5 DEF Init, TypeOK
<1>3. SetUp
  BY DEF Init, SetUp, Places, After, Before, Open, Measuring
<1>4. Coarse
  <2>1. 2^0 = 1
    OBVIOUS
  <2>2. PowerOfTwo(1)
    BY <2>1 DEF PowerOfTwo
  <2> QED BY <1>1, <2>2 DEF Init, Coarse, Before, Measuring
<1>5. Fine /\ Waits /\ Delays /\ Calibrated
  BY DEF Init, Fine, Waits, Delays, Calibrated
<1> QED BY <1>2, <1>3, <1>4, <1>5 DEF CalibInv

LEMMA CalibStep ==
  ASSUME CalibInv, [Next]_vars
  PROVE  CalibInv'
<1>1. CASE UNCHANGED vars
  <2>1. TypeOK' /\ SetUp' /\ Coarse' /\ Waits' /\ Delays'
    BY <1>1 DEF vars, CalibInv, TypeOK, SetUp, Coarse, PowerOfTwo, Waits, Delays, Counted, Slack
  <2>2. Fine' /\ Calibrated'
    BY <1>1 DEF vars, CalibInv, Fine, Found, Trying, PowerOfTwo, Slack, Calibrated
  <2> QED BY <2>1, <2>2 DEF CalibInv
<1>2. CASE Code
  BY <1>2, SetUpKeeps, CoarseKeeps, WaitKeeps, StartKeeps, RoundKeeps, CoarseTestKeeps, FineKeeps,
     FineTestKeeps, FinishKeeps DEF Code
<1> QED BY <1>1, <1>2, KeyKeeps, InterruptKeeps DEF Next, Done

\* The calibration keeps its invariant, whenever the ticks come.
THEOREM CalibInvariant == Spec => []CalibInv
  BY CalibStart, CalibStep, PTL DEF Spec

\* The counters and masks keep their types: no count outgrows its word.
THEOREM CalibTypes == Spec => []TypeOK
<1>1. CalibInv => TypeOK
  BY DEF CalibInv
<1> QED BY <1>1, CalibInvariant, PTL

\* Init8259, InitIDT and calibrateDelayLoop: an interrupt only comes to the
\* handler that counts it and sends the EOI.
THEOREM HandlerInPlace == Spec => []HandlerReady
<1>1. CalibInv => HandlerReady
  BY DEF CalibInv, SetUp, HandlerReady, Places, After, Before, Open, Measuring
<1> QED BY <1>1, CalibInvariant, PTL

\* calibrateDelayLoop: the count found is shorter than a tick, and longer when
\* its last tested bit and the time around a measurement are added, for every
\* length of a tick and whenever in the loops the ticks come.
THEOREM DelayCalibrated == Spec => []Calibrated
<1>1. CalibInv => Calibrated
  BY DEF CalibInv
<1> QED BY <1>1, CalibInvariant, PTL
=============================================================================
