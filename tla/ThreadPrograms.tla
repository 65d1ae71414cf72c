--------------------------- MODULE ThreadPrograms ---------------------------
(***************************************************************************)
(* The programs of 9.Thread for TLC: a behaviour is one of a single        *)
(* program, chosen at the start; the variables of the others are "none".   *)
(* Only practice2 looks at what pthread_create returns; in the others it   *)
(* is taken to succeed.                                                    *)
(***************************************************************************)
EXTENDS ThreadConstants

CONSTANTS ThreadsA, ThreadsB

ASSUME RelayAssumption == "nobody" \notin ThreadsA \cup ThreadsB

VARIABLES program, pc, sem, owner,
          main,                         \* TicketOffice, CleanExit
          i, reg, mutex, num, out,      \* LockedCounter
          last,                         \* Alternation
          number, taken,                \* TicketOffice
          called,                       \* CondRelay
          child, opens                  \* CleanExit

Counter == INSTANCE LockedCounter
Ring == INSTANCE Alternation
Office == INSTANCE TicketOffice
Relay == INSTANCE CondRelay
Clean == INSTANCE CleanExit

counterVars == <<i, reg, mutex, num, out>>
officeVars == <<number, taken>>
cleanVars == <<child, opens>>
vars == <<program, pc, sem, owner, main, last, called, counterVars, officeVars, cleanVars>>

None(v) == v = "none"
NoCounter == None(i) /\ None(reg) /\ None(mutex) /\ None(num) /\ None(out)
NoOffice == None(number) /\ None(taken)
NoClean == None(child) /\ None(opens)

Init ==
  \/ /\ program = "5.mutex" /\ Counter!Init
     /\ None(sem) /\ None(main) /\ None(owner) /\ None(last) /\ None(called) /\ NoOffice /\ NoClean
  \/ /\ program = "practice1" /\ Ring!Init
     /\ None(owner) /\ None(main) /\ None(called) /\ NoCounter /\ NoOffice /\ NoClean
  \/ /\ program = "practice2" /\ Office!Init
     /\ None(owner) /\ None(last) /\ None(called) /\ NoCounter /\ NoClean
  \/ /\ program = "7.cond" /\ Relay!Init
     /\ None(sem) /\ None(main) /\ None(last) /\ NoCounter /\ NoOffice /\ NoClean
  \/ /\ program = "8.clean" /\ Clean!Init
     /\ None(pc) /\ None(sem) /\ None(last) /\ None(called) /\ NoCounter /\ NoOffice

Runs(p, A) == program = p /\ A /\ UNCHANGED program
Counters(A) == Runs("5.mutex", A) /\ UNCHANGED <<main, sem, owner, last, called, officeVars, cleanVars>>
Rings(A) == Runs("practice1", A) /\ UNCHANGED <<main, owner, called, counterVars, officeVars, cleanVars>>
Offices(A) == Runs("practice2", A) /\ UNCHANGED <<owner, last, called, counterVars, cleanVars>>
Relays(A) == Runs("7.cond", A) /\ UNCHANGED <<main, sem, last, counterVars, officeVars, cleanVars>>
Cleans(A) == Runs("8.clean", A) /\ UNCHANGED <<pc, sem, last, called, counterVars, officeVars>>

Next == \/ Counters(Counter!Next) \/ Rings(Ring!Next) \/ Offices(Office!Next)
        \/ Relays(Relay!Next) \/ Cleans(Clean!Next)

Spec ==
  /\ Init /\ [][Next]_vars
  /\ \A k \in Ring!Id : WF_vars(Rings(Ring!Thread(k)))
  /\ \A w \in Windows : WF_vars(Offices(main # "failed" /\ Office!Window(w)))
  /\ WF_vars(Offices(main # "failed" /\ Office!Main))
  /\ \A t \in Relay!Threads : SF_vars(Relays(Relay!Thread(t)))
  /\ WF_vars(Cleans(Clean!Next))

-----------------------------------------------------------------------------
\* No increment is lost: main prints twice the argument, if that is an int and both
\* threads were created (5.mutex/main.c:26-47).
CountExact == program = "5.mutex" => Counter!CountExact

\* A, B and C print in turn (practice1/main.c:13-15, 23-25, 33-35), for ever.
InTurn == program = "practice1" => Ring!InTurn
NobodyStops == \A k \in Ring!Id : []<>(program = "practice1" => last = k)

\* A window calls a number between its own client's and the last one taken, and
\* the office closes after the last client, unless a pthread_create fails, which ends
\* the process at once (practice2/main.c:16-26, 38-52).
NumberIsNewEnough == program = "practice2" => Office!NumberIsNewEnough
AllServed == <>(program = "practice2" => Office!Served \/ Office!CutShort)

\* Whoever has the mutex is awake, and every thread that is asleep at a broadcast
\* prints (7.cond/main.c:14-17, 43 and 70-71).
OwnerIsAwake == program = "7.cond" => Relay!OwnerIsAwake
CalledPrints == \A t \in ThreadsA :
  (program = "7.cond" /\ t \in called) ~> (program = "7.cond" /\ t \notin called)

\* The clean-up exercise ends unless main was first or the thread returned with
\* the mutex (8.clean/main.c:24-25 and 46).
EndsOtherwise == <>(program = "8.clean" => Clean!Stops)
=============================================================================
