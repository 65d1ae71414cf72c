------------------------------ MODULE Mailbox ------------------------------
(***************************************************************************)
(* 7.IPC/6.sem/idenpendence: shm_a copies each line that is typed into     *)
(* shared memory and does V, shm_b does P and prints the memory.  Both     *)
(* make and initialise the semaphores when they start; an interrupt        *)
(* removes the set.                                                        *)
(***************************************************************************)
EXTENDS Integers

CONSTANT Lines      \* lines that are typed

VARIABLES a, b,     \* shm_a: "get", "set", "read", "copy", "copying", "V" or "gone"
                    \* shm_b: "get", "set", "P", "print" or "gone"
          key, sets,        \* the set that exists, or 0; sets made so far
          val,              \* value of semaphore 1 of that set
          ida, idb,         \* the set each has; 0 at first, NoSet for -1
          typed,            \* lines read by shm_a, in its buffer: the last
          shm,              \* the line in the memory; -1 while it is being copied
          printed,          \* the last line printed
          late              \* history: shm_b was not ready for a text, a set was
                            \* removed, or semget or V failed unlooked at

kernel == <<key, sets, val>>
writer == <<a, ida, typed>>
reader == <<b, idb, printed>>
vars == <<kernel, writer, reader, shm, late>>

Torn == -1
NoSet == -1

Init == /\ a = "get" /\ b = "get" /\ key = 0 /\ sets = 0 /\ val = 0
        /\ ida = 0 /\ idb = 0 /\ typed = 0 /\ shm = 0 /\ printed = 0 /\ late = FALSE

Get(id) == IF key = 0 THEN /\ key' = sets + 1 /\ sets' = sets + 1 /\ val' = 0
                           /\ id = sets + 1
                      ELSE UNCHANGED kernel /\ id = key

\* ftok or semget fails: semArrInit returns -1, at which main does not look.
GetFails(id) == id = NoSet /\ late' = TRUE /\ UNCHANGED kernel

\* semArrInit sets semaphore 1 to 0, whatever was in it.
Set(id) == /\ val' = IF id = key THEN 0 ELSE val
           /\ UNCHANGED <<key, sets>>

GetA == /\ a = "get" /\ a' = "set" /\ Get(ida')
        /\ UNCHANGED <<typed, reader, shm, late>>
GetAFails == /\ a = "get" /\ a' \in {"read", "gone"} /\ GetFails(ida')
             /\ UNCHANGED <<typed, reader, shm>>
\* Then the memory is attached, or main returns and the set stays.
SetA == /\ a = "set" /\ a' \in {"read", "gone"} /\ Set(ida)
        /\ UNCHANGED <<ida, typed, reader, shm, late>>

Read == /\ a = "read" /\ typed < Lines /\ a' = "copy"
        /\ typed' = typed + 1
        /\ late' = (late \/ b \in {"get", "set"})
        /\ UNCHANGED <<kernel, ida, reader, shm>>

\* The input has ended: fgets leaves the buffer as it was, nobody looks, and the
\* last text goes out again, for ever; as long as no more than Lines wait here.
ReadEnd == /\ a = "read" /\ val < Lines /\ a' = "copy"
           /\ late' = (late \/ b \in {"get", "set"})
           /\ UNCHANGED <<kernel, ida, typed, reader, shm>>

Copy == /\ a = "copy" /\ a' = "copying" /\ shm' = Torn
        /\ UNCHANGED <<kernel, ida, typed, reader, late>>

CopyEnds == /\ a = "copying" /\ a' = "V" /\ shm' = typed
            /\ UNCHANGED <<kernel, ida, typed, reader, late>>

\* Defect: V on the other semaphore of the set.
VOther == /\ a = "V" /\ a' = "read"
          /\ UNCHANGED <<kernel, ida, typed, reader, shm, late>>

\* A set that was removed makes semop fail; shm_a does not look.
V == /\ a = "V" /\ a' = "read"
     /\ val' = IF ida = key THEN val + 1 ELSE val
     /\ UNCHANGED <<key, sets, ida, typed, reader, shm, late>>

\* semop fails on a set that is there: 32767 texts wait, or no room for SEM_UNDO.
VFails == /\ a = "V" /\ a' = "read" /\ late' = TRUE
          /\ UNCHANGED <<kernel, ida, typed, reader, shm>>

GetB == /\ b = "get" /\ b' = "set" /\ Get(idb')
        /\ UNCHANGED <<writer, printed, shm, late>>
GetBFails == /\ b = "get" /\ b' \in {"P", "gone"} /\ GetFails(idb')
             /\ UNCHANGED <<writer, printed, shm>>
SetB == /\ b = "set" /\ b' \in {"P", "gone"} /\ Set(idb)
        /\ UNCHANGED <<writer, idb, printed, shm, late>>

P == /\ b = "P" /\ idb = key /\ val > 0 /\ b' = "print"
     /\ val' = val - 1
     /\ UNCHANGED <<key, sets, writer, idb, printed, shm, late>>

\* semop fails and the memory is printed: again and again if there is no set, and
\* once if shm_b was stopped and continued.
PFails == /\ b = "P" /\ b' = "print"
          /\ UNCHANGED <<kernel, writer, idb, printed, shm, late>>

PrintLine == /\ b = "print" /\ b' = "P" /\ printed' = shm
         /\ UNCHANGED <<kernel, writer, idb, shm, late>>

\* The handler of SIGINT in either program.  The global semid is 0 before semArrInit
\* returns, which may be what the kernel calls the set.
Interrupt(x, id) == /\ key' \in IF x \in {"get", "set"} THEN {key, 0}
                               ELSE IF id = key THEN {0} ELSE {key}
                    /\ late' = TRUE /\ UNCHANGED <<sets, val, shm>>
InterruptA == /\ a # "gone" /\ a' = "gone" /\ Interrupt(a, ida)
              /\ UNCHANGED <<ida, typed, reader>>
InterruptB == /\ b # "gone" /\ b' = "gone" /\ Interrupt(b, idb)
              /\ UNCHANGED <<idb, printed, writer>>

WriterRuns == \/ GetA \/ GetAFails \/ SetA \/ Read \/ ReadEnd
              \/ Copy \/ CopyEnds \/ V \/ VFails
ReaderRuns == GetB \/ GetBFails \/ SetB \/ P \/ PFails \/ PrintLine

Next == WriterRuns \/ ReaderRuns \/ InterruptA \/ InterruptB

Spec == Init /\ [][Next]_vars

-----------------------------------------------------------------------------
\* A reader that waits for nothing has printed the last line, whole
\* (shm_a/main.c:52-54, shm_b/main.c:50-51), also when the input has ended or its P
\* was interrupted.  The premise: the reader was ready before the first text (each
\* side sets the semaphore to 0), no set was removed, and neither semget nor a V
\* failed, at which nobody looks (shm_a/main.c:30, 54).
CaughtUp == ~late /\ a = "read" /\ b = "P" /\ val = 0 => printed = typed
=============================================================================
