---------------------------- MODULE SelectVersions ----------------------------
(***************************************************************************)
(* Older versions of the select server, which 2.tcp_server.si4project/     *)
(* Backup keeps.  main(8035).c, main(4812).c and main(4717).c are the      *)
(* program of SelectServer in another layout; main(4012).c and             *)
(* main(2643).c, the oldest, print all they receive and start no thread.   *)
(***************************************************************************)
EXTENDS SelectServer

CONSTANT Few       \* the connections that are made

VARIABLE version   \* the number in the file's name

Versions == {"8035", "4812", "4717", "4012", "2643"}

Scan8035 == Scan
Scan4812 == Scan
Scan4717 == Scan
Scan4012 == Scan
Scan2643 == Scan

Serve == Select \/ SelectTimesOut \/ Accept \/ Recv \/ Close

Loop8035 == Scan8035 \/ Serve
Loop4812 == Scan4812 \/ Serve
Loop4717 == Scan4717 \/ Serve

Relay8035 == Relay
Relay4812 == Relay
Relay4717 == Relay

Thread8035(t) == Type(t) \/ Tell(t)
Thread4812(t) == Type(t) \/ Tell(t)
Thread4717(t) == Type(t) \/ Tell(t)

\* Nobody is told what is typed, and ret is a local of getMaxValInFds.
AcceptOnly == Accept /\ UNCHANGED next

Show ==
  /\ mpc = "handle" /\ inbox[Who(at)] # <<>> /\ Again
  /\ inbox' = [inbox EXCEPT ![Who(at)] = Tail(@)]
  /\ UNCHANGED <<link, num, fds, ret, got, operator>>

ServeAlone == Select \/ SelectTimesOut \/ AcceptOnly \/ Show \/ Close

Loop4012 == Scan4012 \/ ServeAlone
Loop2643 == Scan2643 \/ ServeAlone

Loop == \/ version = "8035" /\ Loop8035
        \/ version = "4812" /\ Loop4812
        \/ version = "4717" /\ Loop4717
        \/ version = "4012" /\ Loop4012
        \/ version = "2643" /\ Loop2643

OldRelay == \/ version = "8035" /\ Relay8035
            \/ version = "4812" /\ Relay4812
            \/ version = "4717" /\ Relay4717

Thread(t) == \/ version = "8035" /\ Thread8035(t)
             \/ version = "4812" /\ Thread4812(t)
             \/ version = "4717" /\ Thread4717(t)

VersionInit == version \in Versions /\ Init

VersionNext == /\ mpc # "dead" /\ UNCHANGED version
               /\ \/ Loop \/ AcceptFails \/ OldRelay
                  \/ Arrive(Few) \/ \E c \in Few : Write(c) \/ Leave(c)
                  \/ \E t \in Threads : Thread(t)
=============================================================================
