----------------------------- MODULE RoundRobin -----------------------------
(***************************************************************************)
(* What src/kernel/sched.c promises: tasks take turns.  A new task waits   *)
(* behind all others, and a turn moves the task in front to the back.      *)
(***************************************************************************)
EXTENDS Sequences

CONSTANT Tasks

VARIABLE queue  \* the tasks, the one whose turn it is first

TypeOK == queue \in Seq(Tasks)

Init == queue = <<>>

Create(t) ==
  /\ \A k \in DOMAIN queue : queue[k] # t
  /\ queue' = Append(queue, t)

Turn ==
  /\ queue # <<>>
  /\ queue' = Append(Tail(queue), Head(queue))

Next == Turn \/ \E t \in Tasks : Create(t)

Spec == Init /\ [][Next]_queue /\ WF_queue(Turn)
=============================================================================
