------------------------------- MODULE Sched -------------------------------
(***************************************************************************)
(* src/kernel/sched.c: the tasks are in a ring of QUE_SIZE records, from   *)
(* front up to and without end; the timer interrupt moves the record in    *)
(* front to the end and returns the stack pointer of the next one.         *)
(*                                                                         *)
(* A task is its name.  Its stack is the block kmalloc gave make_task for  *)
(* it, written as the task, or Null when kmalloc had none left: make_task  *)
(* does not look.  make_task is two steps, filling rrq[end] and advancing  *)
(* end, because the timer may interrupt it.  Index QUE_SIZE of rrq stands  *)
(* for the memory behind the array.                                        *)
(*                                                                         *)
(* This is the choice of the next task, from task_timer_c on.  What the    *)
(* chosen task does with its stack is not modelled, and the code does not  *)
(* keep it: schedule drops the interrupted task's regs and always returns  *)
(* the frame make_task built, which the task's own pushes overwrite from   *)
(* its first turn on; and task_timer of switch.asm calls task_timer_c with *)
(* the null segment in ds.                                                 *)
(***************************************************************************)
EXTENDS Integers, Sequences

CONSTANTS
  Tasks, Null,
  QUE_SIZE,
  Second,     \* ticks in a second, 100 in the code
  WordMod,    \* unsigned int counts modulo this
  Priorities

ASSUME SchedAssumption ==
  /\ Null \notin Tasks
  /\ QUE_SIZE \in Nat /\ QUE_SIZE > 1
  /\ Second \in Nat \ {0}
  /\ WordMod \in Nat /\ WordMod > Second
  /\ Priorities \subseteq Nat

\* get_pri_time: the length of a turn by priority.
get_pri_time(pri) ==
  IF pri \in 0 .. 4 THEN <<100, 10, 5, 2, 1>>[pri + 1] ELSE 0

TaskData == [name : Tasks \union {Null}, stack : Tasks \union {Null},
             priority : Nat, time : Nat]

VARIABLES
  front, end, rrq,
  ticks, sys_time, total_ticks,  \* of clock()
  made,      \* the tasks that exist, with the priority each was made with
  making,    \* the task whose record make_task has filled, or Null
  started,   \* start_sys has issued int $33: the timer interrupts
  chosen     \* the stack the last timer interrupt returned

queueVars == <<front, end, rrq>>
clockVars == <<ticks, sys_time, total_ticks>>
vars == <<front, end, rrq, ticks, sys_time, total_ticks, made, making, started, chosen>>

-----------------------------------------------------------------------------
\* An index after it was advanced, with the test front_to_end has for both.
Wrapped(n) == IF n >= QUE_SIZE THEN 0 ELSE n

is_empty == end = front

cur_task_pri == IF is_empty THEN 0 ELSE rrq[front].priority

\* rrq with the time of the task in front set.
cur_task_time_equ(time) ==
  IF is_empty THEN rrq ELSE [rrq EXCEPT ![front].time = time]

\* Mutant: the end of the ring is only noticed one record behind it.
front_to_end_Bug(q) ==
  /\ rrq' = IF is_empty THEN q ELSE [q EXCEPT ![end] = q[front]]
  /\ end' = IF is_empty THEN end ELSE IF end + 1 > QUE_SIZE THEN 0 ELSE end + 1
  /\ front' = IF is_empty THEN front ELSE Wrapped(front + 1)

\* Mutant: the record is moved, the end is not.
front_to_end_Lost(q) ==
  /\ rrq' = IF is_empty THEN q ELSE [q EXCEPT ![end] = q[front]]
  /\ front' = IF is_empty THEN front ELSE Wrapped(front + 1)
  /\ end' = end

\* front_to_end on the ring q.
front_to_end(q) ==
  /\ rrq' = IF is_empty THEN q ELSE [q EXCEPT ![end] = q[front]]
  /\ end' = IF is_empty THEN end ELSE Wrapped(end + 1)
  /\ front' = IF is_empty THEN front ELSE Wrapped(front + 1)

\* Mutant: the seconds are counted one tick late.
clock_Bug ==
  /\ total_ticks' = (total_ticks + 1) % WordMod
  /\ ticks' = IF ticks + 1 > Second THEN 0 ELSE ticks + 1
  /\ sys_time' = IF ticks + 1 > Second THEN (sys_time + 1) % WordMod ELSE sys_time

clock ==
  /\ total_ticks' = (total_ticks + 1) % WordMod
  /\ ticks' = IF ticks + 1 >= Second THEN 0 ELSE ticks + 1
  /\ sys_time' = IF ticks + 1 >= Second THEN (sys_time + 1) % WordMod ELSE sys_time

\* Mutant: the stack of the first record of the array is returned.
schedule_Bug ==
  /\ front_to_end(cur_task_time_equ(get_pri_time(cur_task_pri)))
  /\ chosen' = rrq[0].stack

\* regs, the stack of the interrupted task, is not stored: the pointer returned
\* is the one make_task set, whatever is there by now.
schedule ==
  /\ front_to_end(cur_task_time_equ(get_pri_time(cur_task_pri)))
  /\ chosen' = rrq'[front'].stack

\* The timer interrupt; interrupts are off.
task_timer_c ==
  /\ started
  /\ clock
  /\ schedule
  /\ UNCHANGED <<made, making, started>>

-----------------------------------------------------------------------------
\* make_task up to its last statement; stack is what kmalloc returned.
make_task_fill(t, pri, stack) ==
  /\ making = Null /\ t \notin DOMAIN made
  /\ end <= QUE_SIZE
  /\ rrq' = [rrq EXCEPT ![end] = [name |-> t, stack |-> stack, priority |-> pri,
                                  time |-> get_pri_time(pri)]]
  /\ making' = t
  /\ UNCHANGED <<front, end, ticks, sys_time, total_ticks, made, started, chosen>>

\* Its last statement, end++, with no test.
make_task_link ==
  /\ making # Null
  /\ end' = end + 1
  /\ made' = [t \in DOMAIN made \union {making} |->
                IF t = making THEN rrq[end].priority ELSE made[t]]
  /\ making' = Null
  /\ UNCHANGED <<front, rrq, ticks, sys_time, total_ticks, started, chosen>>

\* start_sys once its tasks are made.
start_sys ==
  /\ ~started /\ making = Null /\ DOMAIN made # {}
  /\ started' = TRUE
  /\ UNCHANGED <<front, end, rrq, ticks, sys_time, total_ticks, made, making, chosen>>

\* Zeroed memory, and front = end = 0 by start_sys.
Init ==
  /\ front = 0 /\ end = 0
  /\ rrq = [k \in 0 .. QUE_SIZE |-> [name |-> Null, stack |-> Null, priority |-> 0, time |-> 0]]
  /\ ticks = 0 /\ sys_time = 0 /\ total_ticks = 0
  /\ made = <<>>
  /\ making = Null /\ started = FALSE /\ chosen = Null

make_task ==
  \/ \E t \in Tasks, pri \in Priorities, stack \in Tasks \union {Null} :
       stack \in {t, Null} /\ make_task_fill(t, pri, stack)
  \/ make_task_link

Next == make_task \/ start_sys \/ task_timer_c

Spec == Init /\ [][Next]_vars

\* How many records the ring holds.
Size == (end - front) % QUE_SIZE

\* What a caller of make_task has to see to, since make_task does not: one
\* record stays free, the end of the array is not reached, memory is left and
\* interrupts are off.
Room == Size + 1 < QUE_SIZE /\ end + 1 < QUE_SIZE

GuardedNext ==
  \/ Room /\ \E t \in Tasks, pri \in Priorities : make_task_fill(t, pri, t)
  \/ make_task_link
  \/ start_sys
  \/ making = Null /\ task_timer_c

\* The timer keeps interrupting; the code that makes tasks and starts goes on.
GuardedSpec ==
  /\ Init /\ [][GuardedNext]_vars
  /\ WF_vars(making = Null /\ task_timer_c)
  /\ WF_vars(make_task_link) /\ WF_vars(start_sys)

-----------------------------------------------------------------------------
\* Every variable has its type; both indices are inside the array.
TypeOK ==
  /\ front \in 0 .. QUE_SIZE - 1 /\ end \in 0 .. QUE_SIZE - 1
  /\ rrq \in [0 .. QUE_SIZE -> TaskData]
  /\ ticks \in 0 .. Second - 1
  /\ sys_time \in 0 .. WordMod - 1 /\ total_ticks \in 0 .. WordMod - 1
  /\ DOMAIN made \subseteq Tasks /\ \A t \in DOMAIN made : made[t] \in Nat
  /\ making \in Tasks \union {Null}
  /\ started \in BOOLEAN
  /\ chosen \in Tasks \union {Null}

\* The record at place k of the queue, 1 being the front.
At(k) == rrq[(front + k - 1) % QUE_SIZE]

\* The queue the ring stands for.
Queue == [k \in 1 .. Size |-> At(k).name]

\* Every task made is in the ring exactly once, with the stack kmalloc gave it
\* and the priority it was made with, wherever the ring has turned to: turning
\* and making never lose, double or mix records.
TasksKept ==
  /\ \A t \in DOMAIN made :
       \E k \in 1 .. Size :
         At(k) = [name |-> t, stack |-> t, priority |-> made[t], time |-> get_pri_time(made[t])]
  /\ \A k \in 1 .. Size : At(k).name \in DOMAIN made
  /\ \A j, k \in 1 .. Size : j # k => At(j).name # At(k).name

\* The tick counter and the seconds tell the same time, however often either
\* has wrapped.
ClockAgrees == total_ticks = (Second * sys_time + ticks) % WordMod

\* sched.c takes turns as RoundRobin says.
RR == INSTANCE RoundRobin WITH queue <- Queue
KeepsTurns == RR!Spec

\* No task is passed over for ever: schedule comes to choose each one again and
\* again, while others are made and the ring wraps.  (Whether the chosen task
\* can go on from its stack is not part of this.)
EveryTaskChosen == \A t \in Tasks : (t \in DOMAIN made) ~> (chosen = t /\ At(1).name = t)
=============================================================================
