------------------------------- MODULE Calib -------------------------------
(***************************************************************************)
(* The timer interrupt and what is calibrated with it: Init8259, InitIDT   *)
(* and calibrateDelayLoop in the order k_main has them (commented out at   *)
(* this commit), with init_pit, set_vector, enable_irq and disable_irq.    *)
(*                                                                         *)
(* Two actors: the code, and the interrupt, which the processor takes      *)
(* between two statements when line 0 is requested, not masked, not in     *)
(* service, and interrupts are on.  Time is counted in rounds of __delay:  *)
(* a round and a look at ticks take 1, any other statement and the handler *)
(* 0 to Cost.  The timer requests line 0 every period.  In four places the *)
(* code waits in getch, as long as the user likes.                         *)
(***************************************************************************)
EXTENDS Naturals

CONSTANTS
  Periods,    \* how many rounds of __delay a tick may be long
  Cost,       \* bound on the time of a statement
  PRECISION,
  MILLISEC,
  WordMod     \* unsigned long counts modulo this

ASSUME CalibAssumption ==
  /\ Periods \subseteq Nat /\ Cost \in Nat
  /\ \A p \in Periods : p > 4 * Cost + 4
  /\ PRECISION \in Nat /\ MILLISEC \in Nat \ {0} /\ WordMod \in Nat
  /\ \A p \in Periods : 4 * p < WordMod

Lines == 0 .. 15
Slave == 8 .. 15
M_VEC == 104
Vectors == 0 .. 16 \union {M_VEC}

VARIABLES
  irq_mask, imr,    \* lines masked: the variable, and the controller's registers
  irr, isr,         \* line 0 is requested, is in service
  vec,              \* the vector of line 0
  idt,              \* the handler of every vector
  iflag,            \* interrupts are on
  period, phase,    \* the tick's length and the time since the last one
  pc, stage,        \* where the code is; the stage of the calibration
  ticks, prevtick, delay_count, calib_bit, i,
  c                 \* the counter of __delay

picVars == <<irq_mask, imr, isr, vec>>
cpuVars == <<idt, iflag>>
calibVars == <<stage, prevtick, delay_count, calib_bit, i, c>>
vars == <<irq_mask, imr, irr, isr, vec, idt, iflag, period, phase, pc, stage,
          ticks, prevtick, delay_count, calib_bit, i, c>>

-----------------------------------------------------------------------------
\* The processor takes the interrupt before the next statement.
Interrupted == irr /\ 0 \notin imr /\ ~isr /\ iflag

\* d passes; a tick on the way requests line 0.
Elapse(d) ==
  /\ phase' = (phase + d) % period
  /\ irr' = (irr \/ phase + d >= period)

\* A statement of the code at place p.
Statement(p) ==
  /\ pc = p /\ ~Interrupted
  /\ \E d \in 0 .. Cost : Elapse(d)
  /\ UNCHANGED <<period, ticks>>

\* The mask is written to the variable and to both controllers.
SetMask(mask) == irq_mask' = mask /\ imr' = mask

enable_irq(n) == SetMask(irq_mask \ ({n} \union IF n >= 8 THEN {2} ELSE {}))

disable_irq(n) ==
  LET mask == irq_mask \union {n}
  IN SetMask(IF Slave \subseteq mask THEN mask \union {2} ELSE mask)

\* The calls of getch, and where the code goes on after each.
AfterKey == [getch_8259 |-> "InitIDT", getch_pit |-> "init_pit",
             getch_timer |-> "set_vector", getch_end |-> "done"]

\* The user types a key; any time has passed, and ticks may have come.
getch ==
  /\ pc \in DOMAIN AfterKey /\ ~Interrupted
  /\ phase' \in 0 .. period - 1 /\ irr' \in {irr, TRUE}
  /\ pc' = AfterKey[pc]
  /\ UNCHANGED <<period, ticks, picVars, cpuVars, calibVars>>

\* The controllers are set up again: vectors from M_VEC on, all lines masked.
\* The timer may request its line again while it is.
Init8259 ==
  /\ pc = "Init8259"
  /\ vec' = M_VEC /\ imr' = Lines /\ isr' = FALSE /\ irr' \in BOOLEAN
  /\ pc' = "getch_8259"
  /\ UNCHANGED <<irq_mask, idt, iflag, period, phase, ticks, calibVars>>

\* int_null from 16 on, the handlers of exceptions below; 11 is forgotten.
InitIDT ==
  /\ Statement("InitIDT")
  /\ idt' = [v \in Vectors |-> IF v > 16 THEN "int_null" ELSE IF v = 11 THEN "none" ELSE "fault"]
  /\ iflag' = TRUE
  /\ pc' = "getch_pit"
  /\ UNCHANGED <<picVars, calibVars>>

set_vector(handler, v) == idt' = [idt EXCEPT ![v] = handler]

\* init_pit(FREQ, 0) between its two calls of getch: from here on ticks come
\* with the period.
init_pit ==
  /\ pc = "init_pit" /\ ~Interrupted
  /\ phase' \in 0 .. period - 1
  /\ irr' \in BOOLEAN
  /\ pc' = "getch_timer"
  /\ UNCHANGED <<period, ticks, picVars, cpuVars, calibVars>>

\* Mutant: the line is enabled before the handler is there.
calib_vector_Bug ==
  /\ Statement("set_vector")
  /\ enable_irq(0)
  /\ pc' = "enable_irq"
  /\ UNCHANGED <<isr, vec, cpuVars, calibVars>>

calib_vector ==
  /\ Statement("set_vector")
  /\ set_vector("pit_delay_ISR", M_VEC)
  /\ pc' = "enable_irq"
  /\ UNCHANGED <<iflag, picVars, calibVars>>

calib_enable ==
  /\ Statement("enable_irq")
  /\ enable_irq(0)
  /\ pc' = "coarse"
  /\ UNCHANGED <<isr, vec, cpuVars, calibVars>>

-----------------------------------------------------------------------------
\* Bit b, a power of two, of n set and cleared.
Has(n, b) == (n \div b) % 2 = 1
SetBit(n, b) == IF Has(n, b) THEN n ELSE n + b
ClearBit(n, b) == IF Has(n, b) THEN n - b ELSE n

\* Stage 1: the next count to try.
coarse ==
  /\ Statement("coarse")
  /\ delay_count' = (2 * delay_count) % WordMod
  /\ prevtick' = ticks
  /\ pc' = "wait"
  /\ UNCHANGED <<stage, calib_bit, i, c, picVars, cpuVars>>

\* Mutant: the measurement starts wherever the tick is.
wait_tick_Bug ==
  /\ pc = "wait" /\ ~Interrupted /\ Elapse(1)
  /\ pc' = "start"
  /\ UNCHANGED <<period, ticks, picVars, cpuVars, calibVars>>

\* while (prevtick == ticks);
wait_tick ==
  /\ pc = "wait" /\ ~Interrupted /\ Elapse(1)
  /\ pc' = IF prevtick = ticks THEN "wait" ELSE "start"
  /\ UNCHANGED <<period, ticks, picVars, cpuVars, calibVars>>

\* prevtick = ticks, and __delay is called.
start ==
  /\ Statement("start")
  /\ prevtick' = ticks /\ c' = 0
  /\ pc' = "loop"
  /\ UNCHANGED <<stage, delay_count, calib_bit, i, picVars, cpuVars>>

\* One round of __delay(delay_count).
DelayRound ==
  /\ pc = "loop" /\ c < delay_count /\ ~Interrupted /\ Elapse(1)
  /\ c' = c + 1
  /\ UNCHANGED <<pc, period, ticks, stage, prevtick, delay_count, calib_bit, i, picVars, cpuVars>>

\* The end of stage 1: go on doubling, or take the value before.
coarse_test ==
  /\ stage = 1 /\ c = delay_count
  /\ Statement("loop")
  /\ IF prevtick = ticks
       THEN pc' = "coarse" /\ UNCHANGED <<stage, delay_count, calib_bit>>
       ELSE /\ pc' = "fine" /\ stage' = 2
            /\ delay_count' = delay_count \div 2
            /\ calib_bit' = delay_count \div 2
  /\ UNCHANGED <<prevtick, i, c, picVars, cpuVars>>

\* Stage 2: the next bit to test, unless all bits or PRECISION are done.
fine ==
  /\ Statement("fine")
  /\ IF i < PRECISION /\ calib_bit \div 2 # 0
       THEN /\ calib_bit' = calib_bit \div 2
            /\ delay_count' = SetBit(delay_count, calib_bit \div 2)
            /\ prevtick' = ticks
            /\ pc' = "wait"
       ELSE pc' = "finish" /\ UNCHANGED <<calib_bit, delay_count, prevtick>>
  /\ UNCHANGED <<stage, i, c, picVars, cpuVars>>

fine_test ==
  /\ stage = 2 /\ c = delay_count
  /\ Statement("loop")
  /\ delay_count' = IF prevtick # ticks THEN ClearBit(delay_count, calib_bit) ELSE delay_count
  /\ i' = i + 1 /\ pc' = "fine"
  /\ UNCHANGED <<stage, prevtick, calib_bit, c, picVars, cpuVars>>

finish ==
  /\ Statement("finish")
  /\ disable_irq(0)
  /\ delay_count' = delay_count \div MILLISEC
  /\ pc' = "getch_end"
  /\ UNCHANGED <<isr, vec, stage, prevtick, calib_bit, i, c, cpuVars>>

-----------------------------------------------------------------------------
\* Mutant: no handler signals the end of the interrupt.
Signals_Bug(h) == FALSE

\* The handlers that send an EOI: int_null only returns, and those of exceptions
\* print and stay there.
Signals(h) == h = "pit_delay_ISR"

\* The interrupt.  delayCalibInt counts; without a gate, or with a handler that
\* stays, the code does not go on.
Interrupt ==
  /\ Interrupted
  /\ ticks' = IF idt[vec] = "pit_delay_ISR" THEN (ticks + 1) % WordMod ELSE ticks
  /\ isr' = ~Signals(idt[vec])
  /\ pc' = IF idt[vec] \in {"fault", "none"} THEN "stopped" ELSE pc
  /\ \E d \in 0 .. Cost : phase' = (phase + d) % period /\ irr' = (phase + d >= period)
  /\ UNCHANGED <<irq_mask, imr, vec, idt, iflag, period, calibVars>>

Code ==
  \/ Init8259 \/ InitIDT \/ init_pit \/ calib_vector \/ calib_enable
  \/ coarse \/ wait_tick \/ start \/ DelayRound \/ coarse_test
  \/ fine \/ fine_test \/ finish

Done == pc = "done" /\ UNCHANGED vars

\* The BIOS has left the timer on, at vector 8, and interrupts are off.
Init ==
  /\ irq_mask = Lines /\ imr = {} /\ irr \in BOOLEAN /\ isr = FALSE /\ vec = 8
  /\ idt = [v \in Vectors |-> "none"] /\ iflag = FALSE
  /\ period \in Periods /\ phase = 0
  /\ pc = "Init8259" /\ stage = 1
  /\ ticks = 0 /\ prevtick = 0 /\ delay_count = 1 /\ calib_bit = 0 /\ i = 0 /\ c = 0

Next == Code \/ getch \/ Interrupt \/ Done

\* The processor goes on, and takes the interrupts there are.  Nothing makes the
\* user type.
Spec == Init /\ [][Next]_vars /\ WF_vars(Code) /\ WF_vars(Interrupt)

-----------------------------------------------------------------------------
\* Every variable has its type.
TypeOK ==
  /\ irq_mask \subseteq Lines /\ imr \subseteq Lines
  /\ irr \in BOOLEAN /\ isr \in BOOLEAN /\ iflag \in BOOLEAN
  /\ vec \in Vectors
  /\ idt \in [Vectors -> {"none", "int_null", "fault", "pit_delay_ISR"}]
  /\ period \in Periods /\ phase \in 0 .. period - 1
  /\ stage \in {1, 2} /\ i \in 0 .. PRECISION
  /\ {ticks, prevtick, delay_count, calib_bit, c} \subseteq 0 .. WordMod - 1
  /\ c <= delay_count \/ pc # "loop"

\* From a tick to the first round of the measurement: the handler, the look at
\* ticks and the statements between.
Slack == 3 * Cost + 1

\* "delay_count is the number you have to count to in order to kill 1ms": the
\* bits found so far fit into a tick and the next step up does not, up to the
\* time around the measurement; at the end the step is one round, or as small
\* as PRECISION asks, whenever the ticks came in between.
Calibrated ==
  /\ pc \in {"fine", "finish"} =>
       delay_count < period /\ period <= delay_count + calib_bit + Slack
  /\ pc = "finish" =>
       calib_bit = 1 \/ calib_bit * 2^PRECISION <= delay_count
  /\ pc \in {"getch_end", "done"} =>
       /\ MILLISEC * delay_count < period
       /\ period < MILLISEC * (delay_count + 1) + calib_bit + Slack

\* An interrupt can only come to the handler that counts it and signals its
\* end: the line is opened after the vector is set, and no line is left in
\* service or open to the BIOS vectors.
HandlerReady ==
  iflag /\ 0 \notin imr => vec = M_VEC /\ idt[vec] = "pit_delay_ISR" /\ ~isr

\* If the user answers each getch, the calibration ends, although each of its
\* waits for a tick needs the interrupt.  (A user who does not type keeps it
\* waiting before the first tick is counted.)
Finishes == WF_vars(getch) => <>(pc = "done")
=============================================================================
