---------------------------- MODULE Alternation ----------------------------
(***************************************************************************)
(* 9.Thread/6.sem/practice1/main.c: threads print A, B and C in turn, each *)
(* waits for its own semaphore and posts the next one's.  The program has  *)
(* K = 3 of them, thread 0 is threadHandler_1 with semA.                   *)
(***************************************************************************)
EXTENDS ThreadConstants

VARIABLES sem,  \* the value of each semaphore
          pc,   \* of each thread: "wait", "print" or "post"
          last  \* who printed last; K - 1 before anybody has

Id == 0..K - 1
After(k) == IF k = K - 1 THEN 0 ELSE k + 1
vars == <<sem, pc, last>>

Init == /\ sem = [k \in Id |-> IF k = 0 THEN 1 ELSE 0]
        /\ pc = [k \in Id |-> "wait"] /\ last = K - 1

Wait(k) ==
  /\ pc[k] = "wait" /\ sem[k] > 0 /\ pc' = [pc EXCEPT ![k] = "print"]
  /\ sem' = [sem EXCEPT ![k] = sem[k] - 1]
  /\ UNCHANGED last

PrintLetter(k) ==
  /\ pc[k] = "print" /\ pc' = [pc EXCEPT ![k] = "post"]
  /\ last' = k
  /\ UNCHANGED sem

\* Defect: the letter after the next one is let go.
PostTwoOn(k) ==
  /\ pc[k] = "post" /\ pc' = [pc EXCEPT ![k] = "wait"]
  /\ sem' = [sem EXCEPT ![After(After(k))] = @ + 1]
  /\ UNCHANGED last

\* Defect: C does not let A go again.
PostOnce(k) ==
  /\ pc[k] = "post" /\ pc' = [pc EXCEPT ![k] = "wait"]
  /\ sem' = IF k = K - 1 THEN sem ELSE [sem EXCEPT ![After(k)] = @ + 1]
  /\ UNCHANGED last

Post(k) ==
  /\ pc[k] = "post" /\ pc' = [pc EXCEPT ![k] = "wait"]
  /\ sem' = [sem EXCEPT ![After(k)] = sem[After(k)] + 1]
  /\ UNCHANGED last

Thread(k) == Wait(k) \/ PrintLetter(k) \/ Post(k)
Next == \E k \in Id : Thread(k)

Safety == Init /\ [][Next]_vars
Spec == Safety /\ \A k \in Id : WF_vars(Thread(k))

-----------------------------------------------------------------------------
\* The letters come in turn: a thread prints only when the one before it was the
\* last to print (practice1/main.c:13-15, 23-25, 33-35).
InTurn == \A k \in Id : pc[k] = "print" => k = After(last)

=============================================================================
