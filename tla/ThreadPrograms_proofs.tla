------------------------ MODULE ThreadPrograms_proofs ------------------------
(***************************************************************************)
(* The invariants of the thread exercises, for all values of their         *)
(* parameters: an inductive invariant for each program, and that a         *)
(* behaviour of ThreadPrograms is one of a single program.                 *)
(***************************************************************************)
EXTENDS ThreadPrograms, Integers, TLAPS

-----------------------------------------------------------------------------
(* 5.mutex: the counter under a mutex *)

Inside(t) == pc[t] \in {"load", "store", "unlock"}

\* The loop variables, and where a thread is in its loop.
Bounded ==
  \A t \in Counter!Threads : IF pc[t] = "done" THEN i[t] = Target ELSE i[t] < Target

\* The mutex is free, or one thread has it.
Exclusion ==
  /\ ~(Inside(1) /\ Inside(2))
  /\ mutex <=> ~Inside(1) /\ ~Inside(2)

\* What a thread has loaded is still the value when it stores.
Fresh == \A t \in Counter!Threads : pc[t] = "store" => reg[t] = num

\* num is what has been stored: an increment that is stored counts for its
\* thread only when the mutex is given back.
Stored(t) == IF pc[t] = "unlock" THEN i[t] + 1 ELSE i[t]
Sum == num = Stored(1) + Stored(2)

CounterInv == Counter!TypeOK /\ Bounded /\ Exclusion /\ Fresh /\ Sum /\ Counter!CountExact

LEMMA CounterInit == Counter!Init => CounterInv
<1> SUFFICES ASSUME Counter!Init PROVE CounterInv
  OBVIOUS
<1> USE TargetAssumption DEF Counter!Init, Counter!Threads, Counter!Loop
<1>1. Counter!TypeOK  BY DEF Counter!TypeOK
<1>2. Bounded  BY DEF Bounded
<1>3. Exclusion  BY DEF Exclusion, Inside
<1>4. Fresh /\ Counter!CountExact  BY DEF Fresh, Counter!CountExact
<1>5. Sum  BY DEF Sum, Stored
<1> QED  BY <1>1, <1>2, <1>3, <1>4, <1>5 DEF CounterInv

LEMMA CounterStep == CounterInv /\ [Counter!Next]_Counter!vars => CounterInv'
<1> SUFFICES ASSUME CounterInv, [Counter!Next]_Counter!vars PROVE CounterInv'
  OBVIOUS
<1> USE TargetAssumption DEF CounterInv, Counter!TypeOK, Counter!Threads
<1>1. ASSUME NEW t \in Counter!Threads, Counter!Lock(t) PROVE CounterInv'
  <2> USE <1>1 DEF Counter!Lock
  <2>1. Counter!TypeOK' /\ Bounded'  BY DEF Bounded
  <2>2. Exclusion'  BY DEF Exclusion, Inside
  <2>3. Fresh' /\ Sum' /\ Counter!CountExact'  BY DEF Fresh, Sum, Stored, Counter!CountExact
  <2> QED  BY <2>1, <2>2, <2>3
<1>2. ASSUME NEW t \in Counter!Threads, Counter!Load(t) PROVE CounterInv'
  <2> USE <1>2 DEF Counter!Load
  <2>1. Counter!TypeOK' /\ Bounded'  BY DEF Bounded
  <2>2. Exclusion'  BY DEF Exclusion, Inside
  <2>3. Fresh' /\ Sum' /\ Counter!CountExact'  BY DEF Fresh, Sum, Stored, Counter!CountExact
  <2> QED  BY <2>1, <2>2, <2>3
<1>3. ASSUME NEW t \in Counter!Threads, Counter!Store(t) PROVE CounterInv'
  <2> USE <1>3 DEF Counter!Store
  <2>1. Counter!TypeOK' /\ Bounded'  BY DEF Bounded
  <2>2. Exclusion'  BY DEF Exclusion, Inside
  <2>3. Fresh'  BY DEF Fresh, Exclusion, Inside
  <2>4. Sum' /\ Counter!CountExact'  BY DEF Fresh, Sum, Stored, Counter!CountExact
  <2> QED  BY <2>1, <2>2, <2>3, <2>4
<1>4. ASSUME NEW t \in Counter!Threads, Counter!Unlock(t) PROVE CounterInv'
  <2> USE <1>4 DEF Counter!Unlock, Counter!Loop
  <2>1. Counter!TypeOK' /\ Bounded'  BY DEF Bounded
  <2>2. Exclusion'  BY DEF Exclusion, Inside
  <2>3. Fresh' /\ Sum' /\ Counter!CountExact'  BY DEF Fresh, Sum, Stored, Counter!CountExact
  <2> QED  BY <2>1, <2>2, <2>3
<1>5. ASSUME Counter!PrintNum PROVE CounterInv'
  <2> USE <1>5 DEF Counter!PrintNum
  <2>1. Counter!TypeOK' /\ Bounded' /\ Fresh' /\ Sum'  BY DEF Bounded, Fresh, Sum, Stored
  <2>2. Exclusion'  BY DEF Exclusion, Inside
  <2>3. Counter!CountExact'  BY DEF Sum, Stored, Bounded, Counter!CountExact
  <2> QED  BY <2>1, <2>2, <2>3
<1>6. ASSUME UNCHANGED Counter!vars PROVE CounterInv'
  BY <1>6 DEF Counter!vars, Bounded, Exclusion, Inside, Fresh, Sum, Stored, Counter!CountExact
<1> QED  BY <1>1, <1>2, <1>3, <1>4, <1>5, <1>6 DEF Counter!Next, Counter!Step

-----------------------------------------------------------------------------
(* practice1: the letters in turn *)

RingTypes ==
  /\ sem \in [Ring!Id -> Nat] /\ pc \in [Ring!Id -> {"wait", "print", "post"}]
  /\ last \in Ring!Id

\* There is one token.  While it is in a semaphore, it is in that of the letter
\* after the last; a thread that has taken it is that letter's until it prints.
InSem == sem = [k \in Ring!Id |-> IF k = Ring!After(last) THEN 1 ELSE 0]
Down == sem = [k \in Ring!Id |-> 0]
Others(k) == \A j \in Ring!Id \ {k} : pc[j] = "wait"

Token ==
  \/ InSem /\ \A k \in Ring!Id : pc[k] = "wait"
  \/ Down /\ pc[Ring!After(last)] = "print" /\ Others(Ring!After(last))
  \/ Down /\ pc[last] = "post" /\ Others(last)

RingInv == RingTypes /\ Token

LEMMA AfterType == \A k \in Ring!Id : Ring!After(k) \in Ring!Id
BY KAssumption DEF Ring!Id, Ring!After

LEMMA RingInit == Ring!Init => RingInv
BY KAssumption DEF Ring!Init, RingInv, RingTypes, Token, InSem, Ring!Id, Ring!After

LEMMA RingStep == RingInv /\ [Ring!Next]_Ring!vars => RingInv'
<1> SUFFICES ASSUME RingInv, [Ring!Next]_Ring!vars PROVE RingInv'
  OBVIOUS
<1> USE AfterType DEF RingInv, RingTypes
<1>1. ASSUME NEW k \in Ring!Id, Ring!Wait(k) PROVE RingInv'
  <2>1. InSem /\ k = Ring!After(last) /\ \A j \in Ring!Id : pc[j] = "wait"
    BY <1>1 DEF Ring!Wait, Token, InSem, Down
  <2>2. RingTypes'  BY <1>1 DEF Ring!Wait
  <2>3. Down' /\ pc'[Ring!After(last)] = "print" /\ Others(Ring!After(last))'
    BY <1>1, <2>1 DEF Ring!Wait, InSem, Down, Others
  <2> QED  BY <1>1, <2>2, <2>3 DEF Ring!Wait, Token
<1>2. ASSUME NEW k \in Ring!Id, Ring!PrintLetter(k) PROVE RingInv'
  <2>1. Down /\ k = Ring!After(last) /\ Others(k)
    BY <1>2 DEF Ring!PrintLetter, Token, Others
  <2>2. RingTypes'  BY <1>2 DEF Ring!PrintLetter
  <2>3. Down' /\ pc'[last'] = "post" /\ Others(last)'
    BY <1>2, <2>1 DEF Ring!PrintLetter, Down, Others
  <2> QED  BY <2>2, <2>3 DEF Token
<1>3. ASSUME NEW k \in Ring!Id, Ring!Post(k) PROVE RingInv'
  <2>1. Down /\ k = last /\ Others(k)
    BY <1>3 DEF Ring!Post, Token, Others
  <2>2. RingTypes'  BY <1>3 DEF Ring!Post
  <2>3. InSem' /\ \A j \in Ring!Id : pc'[j] = "wait"
    BY <1>3, <2>1 DEF Ring!Post, InSem, Down, Others
  <2> QED  BY <2>2, <2>3 DEF Token
<1>4. ASSUME UNCHANGED Ring!vars PROVE RingInv'
  BY <1>4 DEF Ring!vars, Token, InSem, Down, Others
<1> QED  BY <1>1, <1>2, <1>3, <1>4 DEF Ring!Next, Ring!Thread

-----------------------------------------------------------------------------
(* practice2: what sem_getvalue tells only grows, as clients are taken *)

OfficeTypes ==
  /\ sem \in 0 .. Total
  /\ pc \in [Windows -> {"unborn", "try", "value", "begin", "over", "closed"}]
  /\ number \in [Windows -> Int] /\ taken \in [Windows -> Int]

TakenSoFar == \A w \in Windows : taken[w] <= Total - sem

OfficeInv == OfficeTypes /\ TakenSoFar /\ Office!NumberIsNewEnough

LEMMA OfficeInit == Office!Init => OfficeInv
BY OfficeAssumption
DEF Office!Init, OfficeInv, OfficeTypes, TakenSoFar, Office!NumberIsNewEnough

LEMMA OfficeStep == OfficeInv /\ [Office!Next]_Office!vars => OfficeInv'
<1> SUFFICES ASSUME OfficeInv, [Office!Next]_Office!vars PROVE OfficeInv'
  OBVIOUS
<1> USE OfficeAssumption
    DEF OfficeInv, OfficeTypes, TakenSoFar, Office!NumberIsNewEnough
<1>1. ASSUME NEW w \in Windows, Office!TryWait(w) PROVE OfficeInv'
  BY <1>1 DEF Office!TryWait
<1>2. ASSUME NEW w \in Windows, Office!Close(w) PROVE OfficeInv'
  BY <1>2 DEF Office!Close
<1>3. ASSUME NEW w \in Windows, Office!GetValue(w) PROVE OfficeInv'
  BY <1>3 DEF Office!GetValue
<1>4. ASSUME NEW w \in Windows, Office!Begin(w) \/ Office!Over(w) PROVE OfficeInv'
  BY <1>4 DEF Office!Begin, Office!Over
<1>5. ASSUME NEW w \in Windows, Office!Create(w) PROVE OfficeInv'
  BY <1>5 DEF Office!Create
<1>6. ASSUME Office!Join \/ Office!CreateFails PROVE OfficeInv'
  BY <1>6 DEF Office!Join, Office!CreateFails
<1>7. CASE UNCHANGED Office!vars  BY <1>7 DEF Office!vars
<1> QED  BY <1>1, <1>2, <1>3, <1>4, <1>5, <1>6, <1>7
         DEF Office!Next, Office!Main, Office!Window

-----------------------------------------------------------------------------
(* 7.cond: nobody sleeps with the mutex *)

RelayTypes ==
  pc \in [Relay!Threads -> {"lock", "wait", "asleep", "woken", "print", "unlock"}]

RelayInv == RelayTypes /\ Relay!OwnerIsAwake

LEMMA RelayInit == Relay!Init => RelayInv
BY RelayAssumption
DEF Relay!Init, Relay!Threads, RelayInv, RelayTypes, Relay!OwnerIsAwake

LEMMA RelayStep == RelayInv /\ [Relay!Next]_Relay!vars => RelayInv'
<1> SUFFICES ASSUME RelayInv, [Relay!Next]_Relay!vars PROVE RelayInv'
  OBVIOUS
<1> USE RelayAssumption
    DEF RelayInv, RelayTypes, Relay!OwnerIsAwake, Relay!Goes, Relay!Threads
<1>1. ASSUME NEW t \in Relay!Threads, Relay!Lock(t) \/ Relay!Relock(t) PROVE RelayInv'
  BY <1>1 DEF Relay!Lock, Relay!Relock
<1>2. ASSUME NEW t \in Relay!Threads, Relay!Sleep(t) \/ Relay!Unlock(t) PROVE RelayInv'
  BY <1>2 DEF Relay!Sleep, Relay!Unlock
<1>3. ASSUME NEW t \in Relay!Threads, Relay!PrintText(t) \/ Relay!WakeSpuriously(t)
      PROVE RelayInv'
  BY <1>3 DEF Relay!PrintText, Relay!WakeSpuriously
<1>4. CASE Relay!Broadcast
  <2>1. \A t \in Relay!Threads :
          pc'[t] # pc[t] => pc[t] = "asleep" /\ pc'[t] = "woken"
    BY <1>4 DEF Relay!Broadcast
  <2> QED  BY <1>4, <2>1 DEF Relay!Broadcast
<1>5. CASE UNCHANGED Relay!vars  BY <1>5 DEF Relay!vars
<1> QED  BY <1>1, <1>2, <1>3, <1>4, <1>5 DEF Relay!Next, Relay!Thread

-----------------------------------------------------------------------------
(* a behaviour is one of a single program *)

Inv ==
  /\ program = "5.mutex" => CounterInv
  /\ program = "practice1" => RingInv
  /\ program = "practice2" => OfficeInv
  /\ program = "7.cond" => RelayInv

LEMMA InitInv == Init => Inv
BY CounterInit, RingInit, OfficeInit, RelayInit DEF Init, Inv

LEMMA OneProgram ==
  ASSUME [Next]_vars
  PROVE  /\ program' = program
         /\ program = "5.mutex" => [Counter!Next]_Counter!vars
         /\ program = "practice1" => [Ring!Next]_Ring!vars
         /\ program = "practice2" => [Office!Next]_Office!vars
         /\ program = "7.cond" => [Relay!Next]_Relay!vars
BY DEF Next, vars, Counters, Rings, Offices, Relays, Cleans, Runs, counterVars, officeVars,
       Counter!vars, Ring!vars, Office!vars, Relay!vars

LEMMA StepInv == Inv /\ [Next]_vars => Inv'
<1> SUFFICES ASSUME Inv, [Next]_vars PROVE Inv'
  OBVIOUS
<1> USE DEF Inv
<1>1. ASSUME program = "5.mutex" PROVE CounterInv'
  BY <1>1, OneProgram, CounterStep
<1>2. ASSUME program = "practice1" PROVE RingInv'
  BY <1>2, OneProgram, RingStep
<1>3. ASSUME program = "practice2" PROVE OfficeInv'
  BY <1>3, OneProgram, OfficeStep
<1>4. ASSUME program = "7.cond" PROVE RelayInv'
  BY <1>4, OneProgram, RelayStep
<1> QED  BY <1>1, <1>2, <1>3, <1>4, OneProgram

-----------------------------------------------------------------------------
\* No increment is lost by the two threads, whatever argv[1], as long as twice of it is an
\* int: mutual exclusion, what is loaded is what was stored last, and num is the sum of
\* what each thread has stored (5.mutex/main.c:42-47).
THEOREM CountExactAlways == Spec => []CountExact
<1>1. Inv => CountExact
  BY DEF Inv, CounterInv, CountExact
<1> QED  BY InitInv, StepInv, <1>1, PTL DEF Spec

\* The letters are printed in turn, for every number of letters: there is one token
\* (practice1/main.c:13-15, 23-25, 33-35).
THEOREM InTurnAlways == Spec => []InTurn
<1>1. Inv => InTurn
  BY DEF Inv, RingInv, Token, Others, InTurn, Ring!InTurn
<1> QED  BY InitInv, StepInv, <1>1, PTL DEF Spec

\* The number a window calls is not one from before, for all windows and clients: the
\* semaphore only goes down between sem_trywait and sem_getvalue
\* (practice2/main.c:16-26).
THEOREM NumberIsNewEnoughAlways == Spec => []NumberIsNewEnough
<1>1. Inv => NumberIsNewEnough  BY DEF Inv, OfficeInv, NumberIsNewEnough
<1> QED  BY InitInv, StepInv, <1>1, PTL DEF Spec

\* Whoever has the mutex is awake, for all threads on either condition
\* (7.cond/main.c:14-17, 43).
THEOREM OwnerIsAwakeAlways == Spec => []OwnerIsAwake
<1>1. Inv => OwnerIsAwake  BY DEF Inv, RelayInv, OwnerIsAwake
<1> QED  BY InitInv, StepInv, <1>1, PTL DEF Spec
=============================================================================
