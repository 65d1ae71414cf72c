----------------------------- MODULE CleanExit -----------------------------
(***************************************************************************)
(* 9.Thread/8.clean/main.c: a thread takes a mutex, registers handlers     *)
(* that would give it back, and returns when its file does not open; main  *)
(* takes the same mutex 50 microseconds later and joins the thread with    *)
(* it.  A return from between pthread_cleanup_push and pop is undefined;   *)
(* the library runs the handlers then, or it does not.                     *)
(***************************************************************************)
EXTENDS Naturals

VARIABLES child,  \* "lock", "open", "unlock", "done"
          main,   \* "lock", "join", "unlock", "done"
          owner,  \* "child", "main" or "nobody"
          opens   \* the file can be opened

vars == <<child, main, owner, opens>>

Init == /\ child = "lock" /\ main = "lock" /\ owner = "nobody"
        /\ opens \in BOOLEAN

ChildLock == /\ child = "lock" /\ owner = "nobody"
             /\ owner' = "child" /\ child' = "open"
             /\ UNCHANGED <<main, opens>>

ChildOpens == /\ child = "open" /\ opens /\ child' = "unlock"
              /\ UNCHANGED <<main, owner, opens>>

ChildReturns == /\ child = "open" /\ ~opens /\ child' = "done"
                /\ owner' \in {"child", "nobody"}
                /\ UNCHANGED <<main, opens>>

\* Defect: the mutex is forgotten on the way out.
ChildForgets == /\ child = "unlock" /\ child' = "done"
                /\ UNCHANGED <<main, owner, opens>>

ChildUnlock == /\ child = "unlock" /\ child' = "done"
               /\ owner' = "nobody"
               /\ UNCHANGED <<main, opens>>

MainLock == /\ main = "lock" /\ owner = "nobody"
            /\ owner' = "main" /\ main' = "join"
            /\ UNCHANGED <<child, opens>>

MainJoin == /\ main = "join" /\ child = "done" /\ main' = "unlock"
            /\ UNCHANGED <<child, owner, opens>>

MainUnlock == /\ main = "unlock" /\ main' = "done" /\ owner' = "nobody"
              /\ UNCHANGED <<child, opens>>

Next == \/ ChildLock \/ ChildOpens \/ ChildReturns \/ ChildUnlock
        \/ MainLock \/ MainJoin \/ MainUnlock

Safety == Init /\ [][Next]_vars
Spec == Safety /\ WF_vars(Next)

-----------------------------------------------------------------------------
\* The program ends except in two cases: main was first and waits for a thread
\* that waits for its mutex (8.clean/main.c:24-25), or the thread could not open
\* its file and returned with the mutex (line 46).
MainFirst == main = "join" /\ child = "lock"
LeftLocked == child = "done" /\ ~opens /\ owner = "child"
Stops == main = "done" \/ MainFirst \/ LeftLocked
=============================================================================
