--------------------------- MODULE LockedCounter ---------------------------
(***************************************************************************)
(* 9.Thread/5.mutex/main.c: two threads increment num Target times each    *)
(* under a mutex, main joins them and prints num.  6.sem/lock is the same  *)
(* program with a semaphore that starts at 1 for the mutex.                *)
(***************************************************************************)
EXTENDS ThreadConstants, Sequences

VARIABLES pc,       \* of each thread: "lock", "load", "store", "unlock" or "done"
          i,        \* its loop variable
          reg,      \* num as it was loaded for num++
          mutex,    \* TRUE when it is free
          num, out  \* out: what main printed

Threads == {1, 2}
vars == <<pc, i, reg, mutex, num, out>>

Loop(n) == IF n < Target THEN "lock" ELSE "done"

Init ==
  /\ pc = [t \in Threads |-> Loop(0)] /\ i = [t \in Threads |-> 0]
  /\ reg = [t \in Threads |-> 0]
  /\ mutex = TRUE /\ num = 0 /\ out = <<>>

\* Defect: the mutex is not looked at.
LockSkipped(t) ==
  /\ pc[t] = "lock" /\ pc' = [pc EXCEPT ![t] = "load"]
  /\ mutex' = FALSE
  /\ UNCHANGED <<i, reg, num, out>>

Lock(t) ==
  /\ pc[t] = "lock" /\ mutex /\ pc' = [pc EXCEPT ![t] = "load"]
  /\ mutex' = FALSE
  /\ UNCHANGED <<i, reg, num, out>>

Load(t) ==
  /\ pc[t] = "load" /\ pc' = [pc EXCEPT ![t] = "store"]
  /\ reg' = [reg EXCEPT ![t] = num]
  /\ UNCHANGED <<i, mutex, num, out>>

Store(t) ==
  /\ pc[t] = "store" /\ pc' = [pc EXCEPT ![t] = "unlock"]
  /\ num' = reg[t] + 1
  /\ UNCHANGED <<i, reg, mutex, out>>

Unlock(t) ==
  /\ pc[t] = "unlock" /\ mutex' = TRUE
  /\ i' = [i EXCEPT ![t] = i[t] + 1]
  /\ pc' = [pc EXCEPT ![t] = Loop(i[t] + 1)]
  /\ UNCHANGED <<reg, num, out>>

\* main, after both calls of pthread_join.
PrintNum ==
  /\ out = <<>> /\ \A t \in Threads : pc[t] = "done"
  /\ out' = <<num>>
  /\ UNCHANGED <<pc, i, reg, mutex, num>>

Step(t) == Lock(t) \/ Load(t) \/ Store(t) \/ Unlock(t)

Next == (\E t \in Threads : Step(t)) \/ PrintNum

Safety == Init /\ [][Next]_vars

-----------------------------------------------------------------------------
TypeOK ==
  /\ pc \in [Threads -> {"lock", "load", "store", "unlock", "done"}]
  /\ i \in [Threads -> 0..Target] /\ reg \in [Threads -> Nat]
  /\ mutex \in BOOLEAN /\ num \in Nat

\* No increment is lost: main prints twice the argument (5.mutex/main.c:42-47).
CountExact == out # <<>> => out = <<2 * Target>>
=============================================================================
