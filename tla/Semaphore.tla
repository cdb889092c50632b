----------------------------- MODULE Semaphore -----------------------------
(***************************************************************************)
(* What sem_new / sem_P / sem_V promise a program (spec.md 4.9): a table  *)
(* of counting semaphores, filled in order; P takes a unit or blocks the  *)
(* caller; V hands its unit to the longest-blocked waiter of that         *)
(* semaphore, or keeps it when nobody waits.  No unit is created or lost  *)
(* and no waiter stays blocked while its semaphore holds a unit.          *)
(***************************************************************************)
EXTENDS Naturals, Sequences

CONSTANTS
  Proc,        \* the processes
  MaxSem,      \* size of the table
  InitVals,    \* values sem_new may be given
  MaxCount     \* bound on a counter

VARIABLES
  count,       \* count[s]: units held by semaphore s
  numSem,      \* semaphores created so far
  queue        \* queue[s]: processes blocked in P(s), oldest first

SemId == 0 .. MaxSem - 1

Init ==
  /\ count = [s \in SemId |-> 0]
  /\ numSem = 0
  /\ queue = [s \in SemId |-> <<>>]

New(v) ==
  /\ numSem < MaxSem
  /\ count' = [count EXCEPT ![numSem] = v]
  /\ numSem' = numSem + 1
  /\ UNCHANGED queue

Acquire(s) ==
  /\ s < numSem
  /\ count[s] >= 1
  /\ count' = [count EXCEPT ![s] = @ - 1]
  /\ UNCHANGED <<numSem, queue>>

Block(p, s) ==
  /\ s < numSem
  /\ count[s] = 0
  /\ \A t \in SemId : \A i \in 1 .. Len(queue[t]) : queue[t][i] # p
  /\ queue' = [queue EXCEPT ![s] = Append(@, p)]
  /\ UNCHANGED <<count, numSem>>

Release(s) ==
  /\ s < numSem
  /\ count[s] < MaxCount
  /\ IF queue[s] = <<>>
     THEN /\ count' = [count EXCEPT ![s] = @ + 1]
          /\ UNCHANGED queue
     ELSE /\ queue' = [queue EXCEPT ![s] = Tail(@)]
          /\ UNCHANGED count
  /\ UNCHANGED numSem

Next ==
  \/ \E v \in InitVals : New(v)
  \/ \E s \in SemId : Acquire(s) \/ Release(s)
  \/ \E p \in Proc, s \in SemId : Block(p, s)

Spec == Init /\ [][Next]_<<count, numSem, queue>>

=============================================================================
