----------------------------- MODULE TcpServers -----------------------------
(***************************************************************************)
(* Servers of 10.network/2.tcp_server for TLC, the older versions that its *)
(* Backup keeps among them: a behaviour is one of a single server, chosen  *)
(* at the start, or one of a program of 10.network that takes its port;    *)
(* the variables of the others are "none".                                 *)
(***************************************************************************)
EXTENDS Naturals, FiniteSets

CONSTANTS Conns, Handlers, Threads, Texts, Few, Starts, Times

ASSUME ConnsAssumption == IsFiniteSet(Conns) /\ Few \subseteq Conns

VARIABLES program, link,
          acc, new, sem, hpc, sock, failed, dead,                       \* Handover
          num, inbox, fds, ret, mpc, at, next, busy, got,               \* SelectServer
          file, pc, done, starts, linger                                \* SocketSetUp

Hand == INSTANCE OldHandover
Sel == INSTANCE SelectVersions WITH version <- program
SetUp == INSTANCE SocketSetUp

handVars == <<acc, new, sem, hpc, sock, failed, dead>>
selVars == <<num, inbox, fds, ret, mpc, at, next, busy, got>>
setVars == <<file, pc, done, starts, linger>>
vars == <<program, link, handVars, selVars, setVars>>

None(v) == v = "none"
NoHand == /\ None(acc) /\ None(new) /\ None(sem) /\ None(hpc) /\ None(sock)
          /\ None(failed) /\ None(dead)
NoSel == /\ None(num) /\ None(inbox) /\ None(fds) /\ None(ret) /\ None(mpc)
         /\ None(at) /\ None(next) /\ None(busy) /\ None(got)
NoSetUp == None(file) /\ None(pc) /\ None(done) /\ None(starts) /\ None(linger)

Init == \/ program \in {"code", "server_3"} /\ Hand!Init /\ NoSel /\ NoSetUp
        \/ program = "select" /\ Sel!Init /\ NoHand /\ NoSetUp
        \/ Sel!VersionInit /\ NoHand /\ NoSetUp
        \/ program = "port" /\ SetUp!Init /\ None(link) /\ NoHand /\ NoSel

Runs(p, A) == program = p /\ A /\ UNCHANGED program
Hands(A) == Runs("code", A) /\ UNCHANGED <<selVars, setVars>>
OldHands(A) == Runs("server_3", A) /\ UNCHANGED <<selVars, setVars>>
Sels(A) == Runs("select", A) /\ UNCHANGED <<handVars, setVars>>
Olds(A) == /\ program \in Sel!Versions /\ A
           /\ UNCHANGED <<program, handVars, setVars>>
SetsUp(A) == Runs("port", A) /\ UNCHANGED <<link, handVars, selVars>>

Next == \/ Hands(Hand!Next) \/ OldHands(Hand!OldNext)
        \/ Sels(Sel!Next) \/ Olds(Sel!VersionNext) \/ SetsUp(SetUp!Next)

Spec ==
  /\ Init /\ [][Next]_vars
  /\ WF_vars(Hands(~dead /\ Hand!Acceptor))
  /\ WF_vars(OldHands(~dead /\ Hand!OldAcceptor))
  /\ \A h \in Handlers : /\ WF_vars(Hands(~dead /\ Hand!Handler(h)))
                         /\ WF_vars(OldHands(~dead /\ Hand!OldHandler(h)))
  /\ WF_vars(Sels(mpc # "dead" /\ Sel!Main))
  /\ WF_vars(Olds(mpc # "dead" /\ Sel!Loop))

-----------------------------------------------------------------------------
HandsOver == program \in {"code", "server_3"}
Selects == program \in {"select"} \cup Sel!Versions

\* Each connection is served by one thread, and no open socket is lost, although
\* all threads take theirs from one variable (client_handle.c:18-30, 41-46).
OneHandlerEach == HandsOver => Hand!OneHandlerEach

\* A connection that waits is accepted, unless pthread_create or accept has failed
\* (client_handle.c:18-30).
AcceptedInTheEnd ==
  \A c \in Conns :
    HandsOver /\ link[c] = "queued" ~> (HandsOver => Hand!Accepted(c))

\* main asks select for the open sockets, all and only (select/new/main.c:87-95,
\* 115, 141-142, and the same lines of its older versions).
AsksForTheOpen == Selects => Sel!AsksForTheOpen

\* What begins with '/' goes to everybody below the lowest number at which a send
\* fails, be it closed or its peer have aborted (select/new/main.c:89, 147-157).
RelayReaches == [][Selects => Sel!RelayReachesStep]_vars

\* A connection that its peer has left is closed, unless main has something to do
\* before it again and again, a send never returns or the server ends
\* (select/new/main.c:104-162).
LeaverClosed ==
  \A c \in Conns : \/ []<>(Selects /\ Sel!Before(c)) \/ <>[](Selects /\ mpc = "relay")
                   \/ (Selects /\ Sel!Left(c) ~> (Selects => Sel!Closed(c)))

\* No two processes of a server listen on the port, although both may have bound
\* it (code/server.c:25-39).
OneServer == program = "port" => SetUp!OneServer

\* A program that makes its address reusable is refused its port only while another
\* process of it listens there (code/server.c:25-34).
RestartWorks == [][program = "port" => SetUp!RestartWorksStep]_vars
=============================================================================
