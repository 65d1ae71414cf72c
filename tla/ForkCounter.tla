---------------------------- MODULE ForkCounter ----------------------------
(***************************************************************************)
(* 7.IPC/6.sem/fork: a program makes a semaphore set and initialises it,   *)
(* forks, and both processes add to a counter in shared memory between P   *)
(* and V and then remove the set.  It may be started several times.        *)
(***************************************************************************)
EXTENDS Integers, FiniteSetsExt

CONSTANTS Programs,   \* the times that the program is started
          Increments, \* argv[1]
          MayKill     \* a process may be killed between two steps

VARIABLES key,    \* the set that ftok("/home",6) names, or 0
          sets,   \* sets made so far, the number of the newest
          val,    \* value of semaphore 0 of the set key
          undo,   \* of each process: what SEM_UNDO adds when it ends
          semid,  \* of each program
          pc, n,  \* of each process: where it is, increments done
          reg,    \* what each has loaded
          shm,    \* the memory, counted from what an earlier run has left there
          ignored \* history: semget failed, or semop on a set that is there;
                  \* main looks at neither

Procs == Programs \X {"parent", "child"}
vars == <<key, sets, val, undo, semid, pc, n, reg, shm, ignored>>

Init ==
  /\ key = 0 /\ sets = 0 /\ val = 0 /\ shm = 0 /\ ignored = FALSE
  /\ undo = [x \in Procs |-> 0] /\ semid = [p \in Programs |-> 0]
  /\ pc = [x \in Procs |-> IF x[2] = "parent" THEN "get" ELSE "unborn"]
  /\ n = [x \in Procs |-> 0] /\ reg = [x \in Procs |-> 0]

Goes(x, from, to) == pc[x] = from /\ pc' = [pc EXCEPT ![x] = to]
Mine(x) == key # 0 /\ semid[x[1]] = key
NoUndo == [x \in Procs |-> 0]

\* semget with IPC_CREAT: a new set starts at 0.
SemGet(x) ==
  /\ Goes(x, "get", "set")
  /\ IF key = 0 THEN key' = sets + 1 /\ sets' = sets + 1 /\ val' = 0
                ELSE UNCHANGED <<key, sets, val>>
  /\ semid' = [semid EXCEPT ![x[1]] = key']
  /\ UNCHANGED <<undo, n, reg, shm, ignored>>

\* ftok or semget fails: semArrInit returns -1, which is no set (0 here), main does
\* not look, and every semop on it fails.
SemGetFails(x) ==
  /\ Goes(x, "get", "fork") /\ ignored' = TRUE
  /\ UNCHANGED <<key, sets, val, undo, semid, n, reg, shm>>

\* Defect: the semaphore starts at 2.
SetValTwo(x) ==
  /\ Goes(x, "set", "fork")
  /\ val' = 2 /\ undo' = NoUndo
  /\ UNCHANGED <<key, sets, semid, n, reg, shm, ignored>>

\* SETVAL also clears what SEM_UNDO has noted; it fails when the set was removed,
\* which semArrInit does not look at.
SetVal(x) ==
  /\ Goes(x, "set", "fork")
  /\ IF Mine(x) THEN val' = 1 /\ undo' = NoUndo ELSE UNCHANGED <<val, undo>>
  /\ UNCHANGED <<key, sets, semid, n, reg, shm, ignored>>

Fork(x) ==
  /\ pc[x] = "fork"
  /\ pc' = [pc EXCEPT ![x] = "P", ![<<x[1], "child">>] = "P"]
  /\ UNCHANGED <<key, sets, val, undo, semid, n, reg, shm, ignored>>

\* fork, ftok, shmget or shmat fails: the set stays.
Fails(x) ==
  /\ \/ Goes(x, "fork", "failed")
     \/ Goes(x, "P", "failed")
  /\ UNCHANGED <<key, sets, val, undo, semid, n, reg, shm, ignored>>

Work(x) == IF Increments = 0 THEN "V" ELSE "load"

\* Defect: the value is looked at but not taken.
PTwice(x) ==
  /\ Goes(x, "P", Work(x)) /\ Mine(x) /\ val > 0
  /\ UNCHANGED <<key, sets, val, undo, semid, n, reg, shm, ignored>>

P(x) ==
  /\ Goes(x, "P", Work(x)) /\ Mine(x) /\ val > 0
  /\ val' = val - 1 /\ undo' = [undo EXCEPT ![x] = @ + 1]
  /\ UNCHANGED <<key, sets, semid, n, reg, shm, ignored>>

\* There is no set, or not any more: semop fails and main does not look.
PFails(x) ==
  /\ Goes(x, "P", Work(x)) /\ ~Mine(x)
  /\ UNCHANGED <<key, sets, val, undo, semid, n, reg, shm, ignored>>

\* semop fails on a set that is there: stopped and continued while it waits
\* (EINTR), or no room for SEM_UNDO.  main does not look.
PInterrupted(x) ==
  /\ Goes(x, "P", Work(x)) /\ Mine(x) /\ ignored' = TRUE
  /\ UNCHANGED <<key, sets, val, undo, semid, n, reg, shm>>

Load(x) ==
  /\ Goes(x, "load", "store")
  /\ reg' = [reg EXCEPT ![x] = shm]
  /\ UNCHANGED <<key, sets, val, undo, semid, n, shm, ignored>>

Store(x) ==
  /\ Goes(x, "store", IF n[x] + 1 = Increments THEN "V" ELSE "load")
  /\ shm' = reg[x] + 1 /\ n' = [n EXCEPT ![x] = @ + 1]
  /\ UNCHANGED <<key, sets, val, undo, semid, reg, ignored>>

V(x) ==
  /\ Goes(x, "V", "remove")
  /\ IF Mine(x) THEN val' = val + 1 /\ undo' = [undo EXCEPT ![x] = @ - 1]
                ELSE UNCHANGED <<val, undo>>
  /\ UNCHANGED <<key, sets, semid, n, reg, shm, ignored>>

\* IPC_RMID by whoever is first; the other's fails and it returns -1.
Remove(x) ==
  /\ Goes(x, "remove", "done")
  /\ IF Mine(x) THEN key' = 0 /\ undo' = NoUndo ELSE UNCHANGED <<key, undo>>
  /\ UNCHANGED <<sets, val, semid, n, reg, shm, ignored>>

Living(x) == pc[x] \notin {"unborn", "failed", "done", "killed"}

\* Defect: the semaphore is taken without SEM_UNDO.
KillKeeps(x) ==
  /\ MayKill /\ Living(x) /\ pc' = [pc EXCEPT ![x] = "killed"]
  /\ UNCHANGED <<key, sets, val, undo, semid, n, reg, shm, ignored>>

\* The kernel adds what SEM_UNDO has noted, not below 0.
Kill(x) ==
  /\ MayKill /\ Living(x) /\ pc' = [pc EXCEPT ![x] = "killed"]
  /\ val' = IF Mine(x) /\ val + undo[x] >= 0 THEN val + undo[x] ELSE val
  /\ undo' = [undo EXCEPT ![x] = 0]
  /\ UNCHANGED <<key, sets, semid, n, reg, shm, ignored>>

Run(x) == \/ SemGet(x) \/ SetVal(x) \/ Fork(x) \/ P(x) \/ PFails(x)
          \/ Load(x) \/ Store(x) \/ V(x) \/ Remove(x)

Next == \E x \in Procs : \/ Run(x) \/ Fails(x) \/ Kill(x)
                         \/ SemGetFails(x) \/ PInterrupted(x)

Safety == Init /\ [][Next]_vars
Spec == Safety /\ \A x \in Procs : WF_vars(Run(x))

-----------------------------------------------------------------------------
Critical == {x \in Procs : pc[x] \in {"load", "store"}}

\* Unless semget, or semop on a set that is there, has failed unlooked at
\* (6.sem/fork/main.c:27, 53), one process at a time is in the critical region
\* (79-82): of one program also when the set is removed before the second process
\* has it, because only a process that is through removes it (53-61).
OneInside == ~ignored => Cardinality(Critical) <= 1

\* With the same premise no increment is lost: the shared memory has what all
\* processes have done, also those that were killed (6.sem/fork/main.c:53-58).
NothingLost == ~ignored => shm = MapThenSumSet(LAMBDA x : n[x], Procs)

\* Each process ends, also when the other is killed inside (SEM_UNDO, mysem.c:41)
\* and whichever of the calls fails.
Ended == \A x \in Procs : ~Living(x)
=============================================================================
