----------------------------- MODULE CondRelay -----------------------------
(***************************************************************************)
(* 9.Thread/7.cond/main.c: threads wait for a condition without a          *)
(* predicate, main broadcasts cond_A for every line that is typed, without *)
(* the mutex.  Nobody signals cond_B.  pthread_cond_wait may also return   *)
(* without a broadcast, as POSIX allows.                                   *)
(***************************************************************************)
EXTENDS Naturals

CONSTANTS ThreadsA, ThreadsB    \* two run threadHandler_A, one threadHandler_B

VARIABLES pc,     \* "lock", "wait", "asleep", "woken", "print" or "unlock"
          owner,  \* whose mutex it is, or "nobody"
          called  \* asleep on cond_A at a broadcast and not printed since

Threads == ThreadsA \cup ThreadsB
vars == <<pc, owner, called>>

Init == /\ pc = [t \in Threads |-> "lock"] /\ owner = "nobody" /\ called = {}

Goes(t, from, to) == pc[t] = from /\ pc' = [pc EXCEPT ![t] = to]

Lock(t) ==
  /\ Goes(t, "lock", "wait") /\ owner = "nobody"
  /\ owner' = t /\ UNCHANGED called

\* Defect: pthread_cond_wait keeps the mutex.
SleepLocked(t) == Goes(t, "wait", "asleep") /\ UNCHANGED <<owner, called>>

\* pthread_cond_wait unlocks and sleeps in one step; it returns with the mutex.
Sleep(t) ==
  /\ Goes(t, "wait", "asleep")
  /\ owner' = "nobody" /\ UNCHANGED called

WakeSpuriously(t) == Goes(t, "asleep", "woken") /\ UNCHANGED <<owner, called>>

Relock(t) ==
  /\ Goes(t, "woken", "print") /\ owner = "nobody"
  /\ owner' = t /\ UNCHANGED called

PrintText(t) ==
  /\ Goes(t, "print", "unlock")
  /\ called' = called \ {t} /\ UNCHANGED owner

Unlock(t) ==
  /\ Goes(t, "unlock", "lock")
  /\ owner' = "nobody" /\ UNCHANGED called

\* Defect: one waiter is woken, as pthread_cond_signal would.
Signal ==
  \E t \in ThreadsA :
    /\ pc[t] = "asleep" /\ pc' = [pc EXCEPT ![t] = "woken"]
    /\ called' = called \cup {u \in ThreadsA : pc[u] = "asleep"}
    /\ UNCHANGED owner

\* A line was typed; a thread that is not asleep misses it.
Broadcast ==
  LET asleep == {t \in ThreadsA : pc[t] = "asleep"}
  IN  /\ pc' = [t \in Threads |-> IF t \in asleep THEN "woken" ELSE pc[t]]
      /\ called' = called \cup asleep
      /\ UNCHANGED owner

Thread(t) == Lock(t) \/ Sleep(t) \/ Relock(t) \/ PrintText(t) \/ Unlock(t)
Next == Broadcast \/ \E t \in Threads : Thread(t) \/ WakeSpuriously(t)

Safety == Init /\ [][Next]_vars

\* A thread that goes on asking for the mutex gets it.
Spec == Safety /\ \A t \in Threads : SF_vars(Thread(t))

-----------------------------------------------------------------------------
\* One thread at a time is between lock and unlock, and nobody sleeps in
\* pthread_cond_wait with the mutex: whoever has it is awake (7.cond/main.c:14-17).
OwnerIsAwake ==
  \A t \in Threads : pc[t] \in {"wait", "print", "unlock"} <=> owner = t

=============================================================================
