---------------------------- MODULE TicketOffice ----------------------------
(***************************************************************************)
(* 9.Thread/6.sem/practice2/main.c: main creates the windows one by one;   *)
(* they take clients from a semaphore with sem_trywait, and number them by *)
(* what sem_getvalue tells afterwards (which does not fail for a valid     *)
(* semaphore).  A pthread_create that fails ends the process.              *)
(***************************************************************************)
EXTENDS ThreadConstants

VARIABLES sem,
          main,     \* "create", "join", "returned" or "failed"
          pc,       \* of each window: "unborn", "try", "value", "begin", "over"
                    \* or "closed"
          number,   \* 20 - sem_value, the client number that the window prints
          taken     \* history: how many were taken when this window took one

vars == <<sem, main, pc, number, taken>>

Init == /\ sem = Total /\ main = "create" /\ pc = [w \in Windows |-> "unborn"]
        /\ number = [w \in Windows |-> 0] /\ taken = [w \in Windows |-> 0]

\* Which window is next does not matter.
Create(w) ==
  /\ main = "create" /\ pc[w] = "unborn" /\ pc' = [pc EXCEPT ![w] = "try"]
  /\ main' = IF \A v \in Windows \ {w} : pc[v] # "unborn" THEN "join" ELSE main
  /\ UNCHANGED <<sem, number, taken>>

\* main returns -1, and the windows that it has created end with it.
CreateFails ==
  /\ main = "create" /\ main' = "failed"
  /\ UNCHANGED <<sem, pc, number, taken>>

Join ==
  /\ main = "join" /\ \A w \in Windows : pc[w] = "closed"
  /\ main' = "returned"
  /\ UNCHANGED <<sem, pc, number, taken>>

TryWait(w) ==
  /\ pc[w] = "try" /\ sem > 0
  /\ sem' = sem - 1 /\ pc' = [pc EXCEPT ![w] = "value"]
  /\ taken' = [taken EXCEPT ![w] = Total - sem + 1]
  /\ UNCHANGED <<main, number>>

\* Defect: the window closes one client too early.
CloseEarly(w) ==
  /\ pc[w] = "try" /\ sem < 2 /\ pc' = [pc EXCEPT ![w] = "closed"]
  /\ UNCHANGED <<sem, main, number, taken>>

Close(w) ==
  /\ pc[w] = "try" /\ sem = 0 /\ pc' = [pc EXCEPT ![w] = "closed"]
  /\ UNCHANGED <<sem, main, number, taken>>

\* Defect: clients are counted from 0.
GetValueFromZero(w) ==
  /\ pc[w] = "value" /\ pc' = [pc EXCEPT ![w] = "begin"]
  /\ number' = [number EXCEPT ![w] = (Total - 1) - sem]
  /\ UNCHANGED <<sem, main, taken>>

GetValue(w) ==
  /\ pc[w] = "value" /\ pc' = [pc EXCEPT ![w] = "begin"]
  /\ number' = [number EXCEPT ![w] = Total - sem]
  /\ UNCHANGED <<sem, main, taken>>

\* "business begin", and after three seconds "business over".
Begin(w) ==
  /\ pc[w] = "begin" /\ pc' = [pc EXCEPT ![w] = "over"]
  /\ UNCHANGED <<sem, main, number, taken>>
Over(w) ==
  /\ pc[w] = "over" /\ pc' = [pc EXCEPT ![w] = "try"]
  /\ UNCHANGED <<sem, main, number, taken>>

Window(w) == TryWait(w) \/ Close(w) \/ GetValue(w) \/ Begin(w) \/ Over(w)
Main == Join \/ \E w \in Windows : Create(w)
Next == /\ main # "failed"
        /\ Main \/ CreateFails \/ \E w \in Windows : Window(w)

Safety == Init /\ [][Next]_vars

-----------------------------------------------------------------------------
\* The number that a window calls is its own client's or a later one's that was
\* taken meanwhile, never one from before (practice2/main.c:16-26).  Two windows
\* may call the same number, because sem_getvalue is not part of sem_trywait.
NumberIsNewEnough ==
  \A w \in Windows :
    pc[w] \in {"begin", "over"} => number[w] \in taken[w]..Total - sem

\* All clients are served and main returns 0, or a pthread_create has ended the
\* process with clients unserved (practice2/main.c:16, 38-52).
Served == sem = 0 /\ main = "returned"
CutShort == main = "failed"
=============================================================================
