---------------------------- MODULE SchedProofs ----------------------------
(***************************************************************************)
(* sched.c for every number of tasks, ring size, priorities and clock: the *)
(* ring keeps its tasks, the clock's two readings agree, and the ring      *)
(* takes turns as RoundRobin says.                                         *)
(***************************************************************************)
EXTENDS Sched, SequenceTheorems, TLAPS

\* A remainder is what is left of a multiple of the divisor.
LEMMA ModIs ==
  ASSUME NEW n \in Int, NEW m \in Nat \ {0}, NEW k \in Int, NEW r \in 0 .. m - 1, n = k * m + r
  PROVE  n % m = r
  OBVIOUS

LEMMA ModSplit ==
  ASSUME NEW n \in Int, NEW m \in Nat \ {0}
  PROVE  /\ n \div m \in Int /\ n % m \in 0 .. m - 1
         /\ n = (n \div m) * m + (n % m)
  OBVIOUS

\* A remainder may be taken before a sum and before a product too.
LEMMA ModPlus ==
  ASSUME NEW n \in Int, NEW m \in Nat \ {0}, NEW k \in Int
  PROVE  (n + k * m) % m = n % m
<1>1. PICK q \in Int, r \in 0 .. m - 1 : n = q * m + r /\ n % m = r
  BY ModSplit
<1>2. n + k * m = (q + k) * m + r
  BY <1>1
<1>3. n + k * m \in Int /\ q + k \in Int
  BY <1>1
<1> QED BY <1>1, <1>2, <1>3, ModIs

LEMMA ModAdd ==
  ASSUME NEW n \in Int, NEW m \in Nat \ {0}, NEW j \in Int
  PROVE  ((n % m) + j) % m = (n + j) % m
<1>1. PICK q \in Int, r \in 0 .. m - 1 : n = q * m + r /\ n % m = r
  BY ModSplit
<1>2. (r + j) + q * m = n + j /\ r + j \in Int
  BY <1>1
<1>3. ((r + j) + q * m) % m = (r + j) % m
  BY <1>2, ModPlus, Zenon
<1> QED BY <1>1, <1>2, <1>3, Zenon

LEMMA ModMul ==
  ASSUME NEW n \in Int, NEW m \in Nat \ {0}, NEW s \in Int
  PROVE  (s * (n % m)) % m = (s * n) % m
<1>1. PICK q \in Int, r \in 0 .. m - 1 : n = q * m + r /\ n % m = r
  BY ModSplit
<1>2. s * r + (s * q) * m = s * n /\ s * r \in Int /\ s * q \in Int
  BY <1>1
<1>3. (s * r + (s * q) * m) % m = (s * r) % m
  BY <1>2, ModPlus, Zenon
<1> QED BY <1>1, <1>2, <1>3, Zenon

\* The constants as the proofs use them.
LEMMA Consts ==
  /\ QUE_SIZE \in Nat \ {0} /\ QUE_SIZE > 1
  /\ Second \in Nat \ {0} /\ WordMod \in Nat \ {0}
  /\ Null \notin Tasks /\ Priorities \subseteq Nat
  BY SchedAssumption

LEMMA TimeType == ASSUME NEW pri \in Nat PROVE get_pri_time(pri) \in Nat
  BY DEF get_pri_time

-----------------------------------------------------------------------------
\* The place in the array of the record at place k of the queue.
Place(k) == (front + k - 1) % QUE_SIZE

\* The record make_task has written and not yet linked, behind the last one.
MakingOK ==
  making # Null =>
    /\ making \notin DOMAIN made
    /\ rrq[end].name = making /\ rrq[end].stack = making
    /\ rrq[end].time = get_pri_time(rrq[end].priority)
    /\ Room

\* A record in the ring is that of a task, whole and in one place.
RecordsOK ==
  \A k \in 1 .. Size :
    /\ At(k).name \in DOMAIN made
    /\ At(k) = [name |-> At(k).name, stack |-> At(k).name, priority |-> made[At(k).name],
                time |-> get_pri_time(made[At(k).name])]

\* What the last interrupt returned is the stack of the task in front.
FrontChosen == chosen # Null => Size > 0 /\ chosen = At(1).stack

\* The timer never finds an empty ring.
NeverIdle == started => Size > 0

\* The inductive invariant.
SchedInv == TypeOK /\ MakingOK /\ TasksKept /\ ClockAgrees /\ FrontChosen /\ NeverIdle

\* TasksKept says of every record what RecordsOK does.
LEMMA KeptRecords == ASSUME TasksKept PROVE RecordsOK
  BY DEF TasksKept, RecordsOK

\* Distances and places in the ring, without a remainder.
LEMMA RingSize ==
  ASSUME NEW f \in 0 .. QUE_SIZE - 1, NEW e \in 0 .. QUE_SIZE - 1
  PROVE  (e - f) % QUE_SIZE = IF e >= f THEN e - f ELSE e - f + QUE_SIZE
  BY Consts

LEMMA RingPlace ==
  ASSUME NEW f \in 0 .. QUE_SIZE - 1, NEW k \in 1 .. QUE_SIZE
  PROVE  (f + k - 1) % QUE_SIZE = IF f + k - 1 < QUE_SIZE THEN f + k - 1 ELSE f + k - 1 - QUE_SIZE
  BY Consts

\* Where the records are: in Size different places, none of them the free one
\* at end.
LEMMA Places ==
  ASSUME TypeOK
  PROVE  /\ Size \in 0 .. QUE_SIZE - 1
         /\ Size = IF end >= front THEN end - front ELSE end - front + QUE_SIZE
         /\ is_empty <=> Size = 0
         /\ \A k \in 1 .. QUE_SIZE :
              /\ Place(k) = IF front + k - 1 < QUE_SIZE THEN front + k - 1 ELSE front + k - 1 - QUE_SIZE
              /\ Place(k) \in 0 .. QUE_SIZE - 1
         /\ Place(1) = front
         /\ \A k \in 1 .. Size : Place(k) # end
         /\ Place(Size + 1) = end
<1>1. front \in 0 .. QUE_SIZE - 1 /\ end \in 0 .. QUE_SIZE - 1 /\ QUE_SIZE \in Nat \ {0}
  BY Consts DEF TypeOK
<1>2. Size = IF end >= front THEN end - front ELSE end - front + QUE_SIZE
  BY <1>1, RingSize DEF Size
<1>3. ASSUME NEW k \in 1 .. QUE_SIZE
      PROVE  Place(k) = IF front + k - 1 < QUE_SIZE THEN front + k - 1 ELSE front + k - 1 - QUE_SIZE
  BY <1>1, RingPlace DEF Place
<1> QED BY <1>1, <1>2, <1>3 DEF is_empty

LEMMA InitSched == Init => SchedInv
<1> SUFFICES ASSUME Init PROVE SchedInv
  OBVIOUS
<1>1. TypeOK
  BY Consts DEF Init, TypeOK, TaskData
<1>2. Size = 0 /\ DOMAIN made = {}
  BY <1>1, Places, Consts DEF Init
<1>3. ClockAgrees
  BY Consts DEF Init, ClockAgrees
<1>4. TasksKept
  BY <1>2 DEF TasksKept
<1>5. MakingOK
  BY DEF Init, MakingOK
<1>6. FrontChosen /\ NeverIdle
  BY DEF Init, FrontChosen, NeverIdle
<1> QED BY <1>1, <1>3, <1>4, <1>5, <1>6 DEF SchedInv

-----------------------------------------------------------------------------
\* make_task up to its last statement writes behind the last record: the queue
\* stays as it is.
LEMMA FillStep ==
  ASSUME SchedInv, Room, NEW t \in Tasks, NEW pri \in Priorities, make_task_fill(t, pri, t)
  PROVE  SchedInv' /\ Queue' = Queue
<1> DEFINE record == [name |-> t, stack |-> t, priority |-> pri, time |-> get_pri_time(pri)]
<1>1. TypeOK /\ TasksKept /\ ClockAgrees /\ FrontChosen /\ NeverIdle
  BY DEF SchedInv
<1>2. /\ making = Null /\ t \notin DOMAIN made
      /\ rrq' = [rrq EXCEPT ![end] = record] /\ making' = t
      /\ UNCHANGED <<front, end, ticks, sys_time, total_ticks, made, started, chosen>>
  BY DEF make_task_fill
<1>3. record \in TaskData /\ record.name = t /\ record.stack = t /\ record.priority = pri
         /\ record.time = get_pri_time(pri)
  BY Consts, TimeType DEF TaskData
<1> HIDE DEF record
<1>4. TypeOK'
  BY <1>1, <1>2, <1>3, Consts DEF TypeOK
<1>5. Size' = Size /\ Size \in 0 .. QUE_SIZE - 1
  BY <1>1, <1>2, Places DEF Size
<1>6. ASSUME NEW k \in 1 .. Size PROVE At(k)' = At(k)
  <2>1. Place(k) # end /\ Place(k) \in 0 .. QUE_SIZE - 1
    BY <1>1, <1>5, Places, Consts
  <2>2. At(k) = rrq[Place(k)] /\ At(k)' = rrq'[Place(k)]
    BY <1>2 DEF At, Place
  <2> QED BY <2>1, <2>2, <1>1, <1>2 DEF TypeOK
<1>7. TasksKept'
  BY <1>1, <1>2, <1>5, <1>6 DEF TasksKept
<1>8. MakingOK'
  <2>1. rrq'[end'] = record
    BY <1>1, <1>2, Consts DEF TypeOK
  <2> QED BY <2>1, <1>2, <1>3, <1>5 DEF MakingOK, Room
<1>9. ClockAgrees'
  BY <1>1, <1>2 DEF ClockAgrees
<1>10. Queue' = Queue
  BY <1>5, <1>6 DEF Queue
<1>11. FrontChosen' /\ NeverIdle'
  BY <1>1, <1>2, <1>5, <1>6 DEF FrontChosen, NeverIdle
<1> QED BY <1>4, <1>5, <1>7, <1>8, <1>9, <1>10, <1>11 DEF SchedInv

\* end++ makes the record the last one of the queue.
LEMMA LinkStep ==
  ASSUME SchedInv, make_task_link
  PROVE  /\ SchedInv'
         /\ Size' = Size + 1
         /\ \A k \in 1 .. Size : At(k)' = At(k)
         /\ At(Size)'.name = making
         /\ making \in Tasks /\ making \notin DOMAIN made
<1>1. TypeOK /\ TasksKept /\ ClockAgrees /\ FrontChosen /\ NeverIdle /\ MakingOK
  BY DEF SchedInv
<1>2. /\ making # Null /\ end' = end + 1 /\ making' = Null
      /\ made' = [t \in DOMAIN made \union {making} |-> IF t = making THEN rrq[end].priority ELSE made[t]]
      /\ UNCHANGED <<front, rrq, ticks, sys_time, total_ticks, started, chosen>>
  BY DEF make_task_link
<1>3. /\ making \in Tasks /\ making \notin DOMAIN made
      /\ rrq[end].name = making /\ rrq[end].stack = making
      /\ rrq[end].time = get_pri_time(rrq[end].priority)
      /\ Size + 1 < QUE_SIZE /\ end + 1 < QUE_SIZE
  BY <1>1, <1>2 DEF MakingOK, TypeOK, Room
<1>4. rrq[end] \in TaskData
  BY <1>1, Consts DEF TypeOK
<1>5. TypeOK'
  <2>1. DOMAIN made' \subseteq Tasks /\ \A t \in DOMAIN made' : made'[t] \in Nat
    BY <1>1, <1>2, <1>3, <1>4 DEF TypeOK, TaskData
  <2>2. end' \in 0 .. QUE_SIZE - 1
    BY <1>1, <1>2, <1>3, Consts DEF TypeOK
  <2> QED BY <2>1, <2>2, <1>1, <1>2 DEF TypeOK
<1>6. PICK last \in 1 .. QUE_SIZE - 1 : Size + 1 = last /\ Size' = last /\ Size \in 0 .. QUE_SIZE - 1
  <2>1. front \in 0 .. QUE_SIZE - 1 /\ end \in 0 .. QUE_SIZE - 1 /\ end + 1 \in 0 .. QUE_SIZE - 1
    BY <1>1, <1>2, <1>3, Consts DEF TypeOK
  <2>2. Size' = IF end + 1 >= front THEN end + 1 - front ELSE end + 1 - front + QUE_SIZE
    BY <2>1, <1>2, RingSize DEF Size
  <2>3. Size = IF end >= front THEN end - front ELSE end - front + QUE_SIZE
    BY <1>1, Places
  <2>4. Size' = Size + 1 /\ Size + 1 \in 1 .. QUE_SIZE - 1
    BY <2>1, <2>2, <2>3, <1>3, Consts
  <2> QED BY <2>3, <2>4, <1>1, Places
<1>7. \A k \in 1 .. QUE_SIZE : At(k) = rrq[Place(k)] /\ At(k)' = rrq[Place(k)]
  BY <1>2 DEF At, Place
<1>8. At(last)' = rrq[end]
  BY <1>1, <1>6, <1>7, Places, Consts
<1>9. rrq[end] = [name |-> making, stack |-> making, priority |-> made'[making],
                  time |-> get_pri_time(made'[making])]
  BY <1>2, <1>3, <1>4 DEF TaskData
<1>10. TasksKept'
  <2>1. ASSUME NEW k \in 1 .. Size PROVE At(k)' = At(k) /\ At(k).name \in DOMAIN made /\ At(k).name # making
    BY <1>1, <1>3, <1>6, <1>7, Consts DEF TasksKept
  <2>2. \A t \in DOMAIN made : t # making /\ made'[t] = made[t]
    BY <1>2, <1>3
  <2>3. ASSUME NEW t \in DOMAIN made'
        PROVE  \E k \in 1 .. Size' : At(k)' = [name |-> t, stack |-> t, priority |-> made'[t],
                                                time |-> get_pri_time(made'[t])]
    <3>1. CASE t = making
      <4>1. last \in 1 .. Size'
        BY <1>6, Consts
      <4> QED BY <3>1, <4>1, <1>8, <1>9
    <3>2. CASE t \in DOMAIN made
      <4>1. PICK k \in 1 .. Size :
              At(k) = [name |-> t, stack |-> t, priority |-> made[t], time |-> get_pri_time(made[t])]
        BY <3>2, <1>1 DEF TasksKept
      <4>2. k \in 1 .. Size'
        BY <1>6, Consts
      <4> QED BY <4>1, <4>2, <2>1, <2>2, <3>2
    <3> QED BY <3>1, <3>2, <1>2
  <2>4. At(last)'.name = making
    BY <1>3, <1>8
  <2>5. \A k \in 1 .. Size' : k = last \/ k \in 1 .. Size
    BY <1>6, Consts
  <2>6. \A k \in 1 .. Size' : At(k)'.name \in DOMAIN made'
    BY <2>1, <2>4, <2>5, <1>2
  <2>7. ASSUME NEW j \in 1 .. Size', NEW k \in 1 .. Size', j # k
        PROVE  At(j)'.name # At(k)'.name
    BY <2>1, <2>4, <2>5, <2>7, <1>1 DEF TasksKept
  <2> QED BY <2>3, <2>6, <2>7 DEF TasksKept
<1>11. MakingOK' /\ ClockAgrees'
  BY <1>1, <1>2 DEF MakingOK, ClockAgrees
<1>12. FrontChosen' /\ NeverIdle'
  BY <1>1, <1>2, <1>6, <1>7, Consts DEF FrontChosen, NeverIdle
<1> QED BY <1>3, <1>5, <1>6, <1>7, <1>8, <1>10, <1>11, <1>12, Consts DEF SchedInv

\* The clock's counters agree after a tick, whichever of them wraps.
LEMMA ClockStep ==
  ASSUME TypeOK, ClockAgrees, clock
  PROVE  /\ ticks' \in 0 .. Second - 1 /\ sys_time' \in 0 .. WordMod - 1
         /\ total_ticks' \in 0 .. WordMod - 1 /\ ClockAgrees'
<1>1. /\ ticks \in 0 .. Second - 1 /\ sys_time \in 0 .. WordMod - 1 /\ total_ticks \in 0 .. WordMod - 1
      /\ Second \in Nat \ {0} /\ WordMod \in Nat \ {0}
  BY Consts DEF TypeOK
<1>2. PICK n \in Nat : n = Second * sys_time + ticks
  BY <1>1
<1>3. total_ticks' = (n + 1) % WordMod /\ total_ticks' \in 0 .. WordMod - 1
  <2>1. total_ticks' = ((n % WordMod) + 1) % WordMod
    BY <1>2 DEF ClockAgrees, clock
  <2>2. n \in Int /\ 1 \in Int /\ n + 1 \in Int
    OBVIOUS
  <2>3. ((n % WordMod) + 1) % WordMod = (n + 1) % WordMod
    BY <2>2, <1>1, ModAdd, Zenon
  <2>4. (n + 1) % WordMod \in 0 .. WordMod - 1
    BY <2>2, <1>1, ModSplit, Zenon
  <2> QED BY <2>1, <2>3, <2>4, Zenon
<1>4. CASE ticks + 1 < Second
  <2>1. ticks' = ticks + 1 /\ sys_time' = sys_time
    BY <1>1, <1>4 DEF clock
  <2>2. Second * sys_time' + ticks' = n + 1
    BY <1>1, <1>2, <2>1
  <2> QED BY <2>1, <2>2, <1>1, <1>3, <1>4 DEF ClockAgrees
<1>5. CASE ticks + 1 >= Second
  <2>1. ticks' = 0 /\ sys_time' = (sys_time + 1) % WordMod /\ ticks + 1 = Second
    BY <1>1, <1>5 DEF clock
  <2>2. Second * (sys_time + 1) = n + 1
    BY <1>1, <1>2, <2>1
  <2>3. (Second * sys_time') % WordMod = (n + 1) % WordMod
    <3>1. sys_time + 1 \in Int /\ Second \in Int
      BY <1>1
    <3>2. (Second * ((sys_time + 1) % WordMod)) % WordMod = (Second * (sys_time + 1)) % WordMod
      BY <3>1, <1>1, ModMul, Zenon
    <3> QED BY <3>2, <2>1, <2>2, Zenon
  <2>4. sys_time' \in 0 .. WordMod - 1 /\ Second * sys_time' + ticks' = Second * sys_time'
    BY <2>1, <1>1, ModSplit
  <2> QED BY <2>1, <2>3, <2>4, <1>1, <1>3 DEF ClockAgrees
<1> QED BY <1>1, <1>4, <1>5

\* The timer interrupt of a ring with tasks: every record moves up one place,
\* and the one in front goes to the end as it was.
LEMMA TurnStep ==
  ASSUME SchedInv, making = Null, task_timer_c
  PROVE  /\ SchedInv'
         /\ Size' = Size /\ Size > 0
         /\ \A k \in 1 .. Size - 1 : At(k)' = At(k + 1)
         /\ At(Size)' = At(1)
<1>1. TypeOK /\ TasksKept /\ ClockAgrees /\ RecordsOK
  BY KeptRecords DEF SchedInv
<1>0. ~is_empty
  BY <1>1, Places DEF SchedInv, NeverIdle, task_timer_c
<1>2. /\ front \in 0 .. QUE_SIZE - 1 /\ end \in 0 .. QUE_SIZE - 1 /\ QUE_SIZE \in Nat /\ QUE_SIZE > 1
      /\ rrq \in [0 .. QUE_SIZE -> TaskData]
  BY <1>1, Consts DEF TypeOK
<1>3. PICK n \in 1 .. QUE_SIZE - 1 : n = Size
  BY <1>0, <1>1, <1>2, Places
<1>4. At(1) = rrq[front] /\ rrq[front] \in TaskData
  <2>1. (front + 1) - 1 = front /\ front % QUE_SIZE = front /\ front \in 0 .. QUE_SIZE
    BY <1>2
  <2> QED BY <2>1, <1>2 DEF At
<1>5. rrq[front].time = get_pri_time(rrq[front].priority)
  BY <1>1, <1>3, <1>4 DEF RecordsOK
<1>6. cur_task_time_equ(get_pri_time(cur_task_pri)) = rrq
  <2>1. [rrq EXCEPT ![front].time = get_pri_time(rrq[front].priority)] = rrq
    BY <1>2, <1>4, <1>5 DEF TaskData
  <2> QED BY <2>1, <1>0 DEF cur_task_time_equ, cur_task_pri
<1>7. /\ rrq' = [rrq EXCEPT ![end] = rrq[front]]
      /\ end' = Wrapped(end + 1) /\ front' = Wrapped(front + 1)
      /\ chosen' = rrq'[front'].stack /\ clock
      /\ UNCHANGED <<made, making, started>>
  BY <1>0, <1>6 DEF task_timer_c, schedule, front_to_end
<1>8. end' \in 0 .. QUE_SIZE - 1 /\ front' \in 0 .. QUE_SIZE - 1
  BY <1>2, <1>7 DEF Wrapped
<1>9. rrq' \in [0 .. QUE_SIZE -> TaskData] /\ chosen' \in Tasks \union {Null}
  <2>1. rrq' \in [0 .. QUE_SIZE -> TaskData]
    BY <1>2, <1>4, <1>7
  <2>2. rrq'[front'] \in TaskData
    BY <2>1, <1>2, <1>8
  <2> QED BY <2>1, <2>2, <1>7 DEF TaskData
<1>10. TypeOK' /\ ClockAgrees'
  BY <1>1, <1>7, <1>8, <1>9, ClockStep DEF TypeOK
<1>11. Size' = n
  <2>1. Size' = IF end' >= front' THEN end' - front' ELSE end' - front' + QUE_SIZE
    BY <1>8, RingSize DEF Size
  <2>2. n = IF end >= front THEN end - front ELSE end - front + QUE_SIZE
    BY <1>1, <1>3, Places
  <2> QED BY <2>1, <2>2, <1>2, <1>3, <1>7 DEF Wrapped
<1>12. ASSUME NEW k \in 1 .. n - 1 PROVE At(k)' = At(k + 1)
  <2>1. At(k)' = rrq'[(front' + k - 1) % QUE_SIZE] /\ At(k + 1) = rrq[Place(k + 1)]
    BY DEF At, Place
  <2>2. k \in 1 .. QUE_SIZE /\ k + 1 \in 1 .. QUE_SIZE
    BY <1>2, <1>3
  <2>3. (front' + k - 1) % QUE_SIZE =
           IF front' + k - 1 < QUE_SIZE THEN front' + k - 1 ELSE front' + k - 1 - QUE_SIZE
    BY <2>2, <1>8, RingPlace
  <2>4. /\ Place(k + 1) = IF front + (k + 1) - 1 < QUE_SIZE THEN front + (k + 1) - 1
                          ELSE front + (k + 1) - 1 - QUE_SIZE
        /\ Place(k + 1) \in 0 .. QUE_SIZE - 1 /\ Place(k + 1) # end
    BY <2>2, <1>1, <1>3, Places
  <2>5. (front' + k - 1) % QUE_SIZE = Place(k + 1)
    BY <2>3, <2>4, <1>2, <1>3, <1>7 DEF Wrapped
  <2> QED BY <2>1, <2>4, <2>5, <1>2, <1>7
<1>13. At(n)' = At(1)
  <2>1. At(n)' = rrq'[(front' + n - 1) % QUE_SIZE]
    BY DEF At
  <2>2. (front' + n - 1) % QUE_SIZE =
           IF front' + n - 1 < QUE_SIZE THEN front' + n - 1 ELSE front' + n - 1 - QUE_SIZE
    <3>1. n \in 1 .. QUE_SIZE
      BY <1>2, <1>3
    <3> QED BY <3>1, <1>8, RingPlace
  <2>3. n = IF end >= front THEN end - front ELSE end - front + QUE_SIZE
    BY <1>1, <1>3, Places
  <2>4. (front' + n - 1) % QUE_SIZE = end
    BY <2>2, <2>3, <1>2, <1>7 DEF Wrapped
  <2> QED BY <2>1, <2>4, <1>2, <1>4, <1>7
<1>14. TasksKept'
  <2>1. ASSUME NEW k \in 1 .. n
        PROVE  \E j \in 1 .. n : At(j)' = At(k)
    <3>1. CASE k = 1
      BY <3>1, <1>3, <1>13
    <3>2. CASE k - 1 \in 1 .. n - 1
      <4>1. At(k - 1)' = At((k - 1) + 1) /\ (k - 1) + 1 = k /\ k - 1 \in 1 .. n
        BY <3>2, <1>3, <1>12
      <4> QED BY <4>1
    <3> QED BY <3>1, <3>2, <1>3
  <2>2. ASSUME NEW t \in DOMAIN made
        PROVE  \E j \in 1 .. n : At(j)' = [name |-> t, stack |-> t, priority |-> made[t],
                                            time |-> get_pri_time(made[t])]
    BY <2>1, <1>1, <1>3 DEF TasksKept
  <2>3. \A k \in 1 .. n : At(k)' = IF k = n THEN At(1) ELSE At(k + 1)
    BY <1>3, <1>12, <1>13
  <2>4. \A k \in 1 .. n : At(k)'.name \in DOMAIN made
    BY <2>3, <1>1, <1>3 DEF TasksKept
  <2>5. ASSUME NEW j \in 1 .. n, NEW k \in 1 .. n, j # k
        PROVE  At(j)'.name # At(k)'.name
    <3>1. \A i, l \in 1 .. n : i # l => At(i).name # At(l).name
      BY <1>1, <1>3 DEF TasksKept
    <3> QED BY <2>3, <2>5, <3>1, <1>3
  <2> QED BY <2>2, <2>4, <2>5, <1>7, <1>11 DEF TasksKept
<1>15. FrontChosen' /\ NeverIdle'
  <2>1. At(1)' = rrq'[front']
    BY <1>2, <1>8 DEF At
  <2> QED BY <2>1, <1>3, <1>7, <1>11 DEF FrontChosen, NeverIdle
<1>16. MakingOK'
  BY <1>7 DEF MakingOK
<1> QED BY <1>3, <1>10, <1>11, <1>12, <1>13, <1>14, <1>15, <1>16 DEF SchedInv

\* start_sys has tasks to start.
LEMMA StartStep ==
  ASSUME SchedInv, start_sys
  PROVE  SchedInv' /\ Queue' = Queue
<1>1. UNCHANGED <<front, end, rrq, ticks, sys_time, total_ticks, made, making, chosen>> /\ DOMAIN made # {}
       /\ started' = TRUE
  BY DEF start_sys
<1>2. TypeOK' /\ MakingOK' /\ TasksKept' /\ ClockAgrees' /\ FrontChosen' /\ Queue' = Queue /\ Size' = Size
  BY <1>1 DEF SchedInv, TypeOK, MakingOK, TasksKept, ClockAgrees, FrontChosen, Queue, Size, At, Room
<1>3. Size > 0
  <2>1. PICK t \in DOMAIN made : \E k \in 1 .. Size : At(k).name = t
    BY <1>1 DEF SchedInv, TasksKept
  <2> QED BY <2>1, Places, Consts DEF SchedInv
<1> QED BY <1>2, <1>3 DEF SchedInv, NeverIdle

LEMMA StutterStep == ASSUME SchedInv, UNCHANGED vars PROVE SchedInv' /\ Queue' = Queue
  BY DEF SchedInv, vars, TypeOK, MakingOK, TasksKept, ClockAgrees, FrontChosen, NeverIdle, Queue, Size, At, Room

LEMMA SchedStep == SchedInv /\ [GuardedNext]_vars => SchedInv'
<1> SUFFICES ASSUME SchedInv, [GuardedNext]_vars PROVE SchedInv'
  OBVIOUS
<1>1. CASE Room /\ \E t \in Tasks, pri \in Priorities : make_task_fill(t, pri, t)
  BY <1>1, FillStep
<1>2. CASE make_task_link
  BY <1>2, LinkStep
<1>3. CASE start_sys
  BY <1>3, StartStep
<1>4. CASE making = Null /\ task_timer_c
  BY <1>4, TurnStep
<1>5. CASE UNCHANGED vars
  BY <1>5, StutterStep
<1> QED BY <1>1, <1>2, <1>3, <1>4, <1>5 DEF GuardedNext

\* The invariant holds in every behaviour of a kernel whose callers of
\* make_task see to what it does not: room in the ring, memory, interrupts off.
THEOREM SchedInvariant == GuardedSpec => []SchedInv
  BY InitSched, SchedStep, PTL DEF GuardedSpec

\* front_to_end and make_task never lose, double or mix the records of tasks,
\* wherever the ring of QUE_SIZE records has turned to.
THEOREM RingKeepsTasks == GuardedSpec => []TasksKept
<1>1. SchedInv => TasksKept
  BY DEF SchedInv
<1> QED BY <1>1, SchedInvariant, PTL

\* clock() keeps ticks, sys_time and total_ticks telling the same time although
\* the last two wrap at different moments.
THEOREM ClockReadingsAgree == GuardedSpec => []ClockAgrees
<1>1. SchedInv => ClockAgrees
  BY DEF SchedInv
<1> QED BY <1>1, SchedInvariant, PTL

\* What schedule() returns is the stack of the task in front, which exists.
THEOREM FrontTaskChosen == GuardedSpec => []FrontChosen
<1>1. SchedInv => FrontChosen
  BY DEF SchedInv
<1> QED BY <1>1, SchedInvariant, PTL

-----------------------------------------------------------------------------
\* The queue the ring stands for is a sequence of tasks.
LEMMA QueueFacts ==
  ASSUME SchedInv
  PROVE  /\ Queue \in Seq(Tasks) /\ Len(Queue) = Size /\ Size \in Nat
         /\ \A k \in 1 .. Size : Queue[k] = At(k).name /\ Queue[k] \in DOMAIN made
<1>1. Size \in Nat /\ \A k \in 1 .. Size : At(k).name \in DOMAIN made /\ At(k).name \in Tasks
  BY Places, Consts DEF SchedInv, TasksKept, TypeOK
<1>2. Queue = [k \in 1 .. Size |-> At(k).name]
  BY DEF Queue
<1>3. Queue \in Seq(Tasks) /\ Len(Queue) = Size
  BY <1>1, <1>2, IsASeq
<1> QED BY <1>1, <1>2, <1>3

\* make_task is Create: the new task is the last, and was not there.
LEMMA LinkIsCreate == ASSUME SchedInv, make_task_link PROVE \E t \in Tasks : RR!Create(t)
<1>1. /\ SchedInv' /\ Size' = Size + 1
      /\ \A k \in 1 .. Size : At(k)' = At(k)
      /\ At(Size)'.name = making
      /\ making \in Tasks /\ making \notin DOMAIN made
  BY LinkStep
<1>2. /\ Queue \in Seq(Tasks) /\ Len(Queue) = Size /\ Size \in Nat
      /\ \A k \in 1 .. Size : Queue[k] = At(k).name /\ Queue[k] \in DOMAIN made
  BY QueueFacts
<1>3. Queue' = [k \in 1 .. Size + 1 |-> At(k)'.name]
  BY <1>1 DEF Queue
<1> DEFINE q == Append(Queue, making)
<1>4. /\ q \in Seq(Tasks) /\ Len(q) = Size + 1
      /\ \A k \in 1 .. Size : q[k] = Queue[k]
      /\ q[Size + 1] = making
  BY <1>1, <1>2, AppendProperties
<1> HIDE DEF q
<1>5. ASSUME NEW k \in 1 .. Size + 1 PROVE At(k)'.name = q[k]
  <2>1. CASE k \in 1 .. Size
    BY <2>1, <1>1, <1>2, <1>4
  <2>2. CASE k = Size + 1
    <3>1. At(k)'.name = making
      BY <2>2, <1>1 DEF At
    <3> QED BY <3>1, <2>2, <1>4
  <2> QED BY <2>1, <2>2, <1>2
<1>6. q = [k \in 1 .. Size + 1 |-> q[k]]
  BY <1>2, <1>4
<1>7. Queue' = q
  BY <1>3, <1>5, <1>6, Zenon
<1>8. \A k \in DOMAIN Queue : Queue[k] # making
  BY <1>1, <1>2
<1> QED BY <1>1, <1>7, <1>8 DEF RR!Create, q

\* The timer interrupt is Turn.
LEMMA TimerIsTurn == ASSUME SchedInv, making = Null, task_timer_c PROVE RR!Turn
<1>1. /\ SchedInv' /\ Size' = Size /\ Size > 0
      /\ \A k \in 1 .. Size - 1 : At(k)' = At(k + 1)
      /\ At(Size)' = At(1)
  BY TurnStep
<1>2. /\ Queue \in Seq(Tasks) /\ Len(Queue) = Size /\ Size \in Nat
      /\ \A k \in 1 .. Size : Queue[k] = At(k).name /\ Queue[k] \in DOMAIN made
  BY QueueFacts
<1>3. Queue' = [k \in 1 .. Size |-> At(k)'.name]
  BY <1>1 DEF Queue
<1>4. Queue # <<>> /\ Head(Queue) = At(1).name /\ Head(Queue) \in Tasks
  BY <1>1, <1>2, HeadTailProperties
<1>5. /\ Tail(Queue) \in Seq(Tasks) /\ Len(Tail(Queue)) = Size - 1
      /\ \A k \in 1 .. Size - 1 : Tail(Queue)[k] = Queue[k + 1]
  BY <1>2, <1>4, HeadTailProperties
<1> DEFINE q == Append(Tail(Queue), Head(Queue))
<1>6. /\ q \in Seq(Tasks) /\ Len(q) = Size
      /\ \A k \in 1 .. Size - 1 : q[k] = Queue[k + 1]
      /\ q[Size] = At(1).name
  BY <1>1, <1>2, <1>4, <1>5, AppendProperties
<1> HIDE DEF q
<1>7. ASSUME NEW k \in 1 .. Size PROVE At(k)'.name = q[k]
  <2>1. CASE k \in 1 .. Size - 1
    BY <2>1, <1>1, <1>2, <1>6
  <2>2. CASE k = Size
    <3>1. At(k)' = At(1)
      BY <2>2, <1>1 DEF At
    <3> QED BY <3>1, <2>2, <1>6
  <2> QED BY <2>1, <2>2, <1>2
<1>8. q = [k \in 1 .. Size |-> q[k]]
  BY <1>2, <1>6
<1>9. Queue' = q
  BY <1>3, <1>7, <1>8, Zenon
<1> QED BY <1>4, <1>9 DEF RR!Turn, q

\* The safety part of KeepsTurns: what RoundRobin allows, without its promise
\* that turns go on.
TakesTurns == RR!Init /\ [][RR!Next]_Queue

\* sched.c takes turns: every step of the timer and of make_task is a turn of
\* the abstract queue, a task created behind all others, or no change of it.
THEOREM TurnsRefined == GuardedSpec => TakesTurns
<1>1. Init => RR!Init
  <2> SUFFICES ASSUME Init PROVE RR!Init
    OBVIOUS
  <2>1. Size = 0
    BY InitSched, Places DEF Init, SchedInv, is_empty
  <2>2. Queue = <<>>
    BY <2>1 DEF Queue
  <2> QED BY <2>2 DEF RR!Init
<1>2. SchedInv /\ [GuardedNext]_vars => [RR!Next]_Queue
  <2> SUFFICES ASSUME SchedInv, [GuardedNext]_vars PROVE RR!Next \/ Queue' = Queue
    OBVIOUS
  <2>1. CASE Room /\ \E t \in Tasks, pri \in Priorities : make_task_fill(t, pri, t)
    BY <2>1, FillStep
  <2>2. CASE make_task_link
    BY <2>2, LinkIsCreate DEF RR!Next
  <2>3. CASE start_sys
    BY <2>3, StartStep
  <2>4. CASE making = Null /\ task_timer_c
    BY <2>4, TimerIsTurn DEF RR!Next
  <2>5. CASE UNCHANGED vars
    BY <2>5, StutterStep
  <2> QED BY <2>1, <2>2, <2>3, <2>4, <2>5 DEF GuardedNext
<1> QED BY <1>1, <1>2, SchedInvariant, PTL DEF GuardedSpec, TakesTurns
=============================================================================
