----------------------------- MODULE ChatServer -----------------------------
(***************************************************************************)
(* The chat server of 10.network/4.tftp/new_code: the thread that accepts  *)
(* connections, one thread per client, and the main thread that sends what *)
(* is typed on the terminal.  They share the descriptor table of the       *)
(* process, the set fds of members, the semaphore sem that hands           *)
(* &new_client over to the new thread, and the semaphore member_max that   *)
(* counts free places.                                                     *)
(***************************************************************************)
EXTENDS Naturals, Sequences, FiniteSets

CONSTANTS Conns,          \* connections that peers may open, each one once
          NoConn,         \* what a closed descriptor refers to
          Fds,            \* descriptor numbers that accept may return
          Threads,        \* client threads; one that ended can be used again
          Main,           \* the main thread
          Limits,         \* option -l: how many clients may be inside
          CreateMayFail   \* whether pthread_create may fail

NoFd == 0
STDOUT == 1                 \* STDOUT_FILENO, a member of fds from the start
Targets == Fds \cup {STDOUT}
Senders == Threads \cup {Main}

ASSUME ChatAssumption ==
  /\ NoConn \notin Conns /\ Main \notin Threads
  /\ Fds \subseteq Nat \ 0..3     \* 0, 1, 2 and the listening socket are taken
  /\ IsFiniteSet(Threads)
  /\ Limits \in Nat /\ CreateMayFail \in BOOLEAN

VARIABLES
  running,    \* the process is alive
  acc,        \* what threadAcceptClient executes next
  newClient,  \* its variable new_client, which new threads read through arg
  sem, memberMax, fds,
  file,       \* descriptor table: the connection each number refers to
  link,       \* state of each connection
  backlog,    \* connections that accept has not returned yet, oldest first
  pc,         \* what each client thread and the main thread execute next
  sock,       \* client_socket of each thread
  of,         \* the connection a thread was created for (history)
  todo        \* rest of the private copy of fds a thread is sending to

net == <<file, link, backlog>>
thr == <<pc, sock, of, todo>>
vars == <<running, acc, newClient, sem, memberMax, fds, net, thr>>

Turn == {"accept", "try", "create"}           \* pcs of acc that hold sem
Fresh == {"start", "post"}                    \* pcs of a thread that owes sem_post
Chat == {"bcast", "send", "priv", "recv"}     \* pcs of msgHandler and its callers
Own == {"post", "leave", "last", "close"} \cup Chat  \* client_socket is open
Inside == Own \cup {"start", "del", "slot"}   \* holds a place of member_max

TypeOK ==
  /\ running \in BOOLEAN
  /\ acc \in Turn \cup {"init", "wait", "add"}
  /\ newClient \in Fds \cup {NoFd}
  /\ sem \in 0..1 /\ memberMax \in 0..Limits
  /\ fds \subseteq Targets \cup {NoFd}
  /\ file \in [Fds -> Conns \cup {NoConn}]
  /\ link \in [Conns -> {"idle", "up", "fin", "rst", "gone", "refused"}]
  /\ backlog \in Seq(Conns)
  /\ pc \in [Senders -> Inside \cup {"free"}]
  /\ sock \in [Senders -> Targets \cup {NoFd}]
  /\ of \in [Senders -> Conns \cup {NoConn}]
  /\ todo \in [Senders -> SUBSET (Targets \cup {NoFd})]

Init ==
  /\ running = TRUE /\ acc = "init" /\ newClient = NoFd
  /\ sem = 0 /\ memberMax = 0 /\ fds = {}
  /\ file = [d \in Fds |-> NoConn]
  /\ link = [c \in Conns |-> "idle"] /\ backlog = <<>>
  /\ pc = [t \in Senders |-> IF t = Main THEN "recv" ELSE "free"]
  /\ sock = [t \in Senders |-> IF t = Main THEN STDOUT ELSE NoFd]
  /\ of = [t \in Senders |-> NoConn]
  /\ todo = [t \in Senders |-> {}]

-----------------------------------------------------------------------------
\* The next statement of the accept thread, of thread t, in a process that runs.
AccAt(l) == running /\ acc = l
At(t, l) == running /\ pc[t] = l

(* The peers. *)

Connect(c) ==
  /\ running /\ link[c] = "idle"
  /\ link' = [link EXCEPT ![c] = "up"]
  /\ backlog' = Append(backlog, c)
  /\ UNCHANGED <<running, acc, newClient, sem, memberMax, fds, file, thr>>

\* A peer closes its end ("fin"), or resets the connection ("rst"): what its
\* system does with data that comes for an end that is closed.
Hangup(c) ==
  /\ running
  /\ \/ link[c] = "up" /\ link' = [link EXCEPT ![c] = "fin"]
     \/ link[c] \in {"up", "fin"} /\ link' = [link EXCEPT ![c] = "rst"]
  /\ UNCHANGED <<running, acc, newClient, sem, memberMax, fds, file, backlog, thr>>

\* The connections that a send on descriptor d may kill the process for: the
\* peer has reset them, and nobody asked to ignore SIGPIPE.
Broken(d) == d \in Fds /\ file[d] \in Conns /\ link[file[d]] = "rst"

\* close(d), after which the connection is in state s.
CloseFd(d, s) ==
  /\ file' = [file EXCEPT ![d] = NoConn]
  /\ link' = [c \in Conns |-> IF d \in Fds /\ c = file[d] THEN s ELSE link[c]]

-----------------------------------------------------------------------------
(* threadAcceptClient *)

AcceptInit ==
  /\ AccAt("init") /\ acc' = "wait"
  /\ sem' = 1 /\ memberMax' = Limits /\ fds' = {STDOUT}
  /\ UNCHANGED <<running, newClient, net, thr>>

\* Defect: sem is not waited for before accept.
SemWaitSkipped ==
  /\ AccAt("wait") /\ acc' = "accept"
  /\ UNCHANGED <<running, newClient, sem, memberMax, fds, net, thr>>

SemWait ==
  /\ AccAt("wait") /\ sem > 0
  /\ sem' = sem - 1 /\ acc' = "accept"
  /\ UNCHANGED <<running, newClient, memberMax, fds, net, thr>>

\* accept returns the oldest connection under the lowest number that is free.
Accept ==
  /\ AccAt("accept") /\ backlog # <<>>
  /\ \E d \in Fds :
       /\ file[d] = NoConn /\ \A e \in Fds : file[e] = NoConn => d <= e
       /\ newClient' = d
       /\ file' = [file EXCEPT ![d] = Head(backlog)]
  /\ backlog' = Tail(backlog) /\ acc' = "try"
  /\ UNCHANGED <<running, sem, memberMax, fds, link, thr>>

\* accept fails, for want of a descriptor or by itself: _exit(-1).
AcceptFails ==
  /\ AccAt("accept") /\ running' = FALSE
  /\ UNCHANGED <<acc, newClient, sem, memberMax, fds, net, thr>>

TryWait ==
  /\ AccAt("try") /\ memberMax > 0
  /\ memberMax' = memberMax - 1 /\ acc' = "create"
  /\ UNCHANGED <<running, newClient, sem, fds, net, thr>>

\* Defect: one place is never given away.
TurnAwayEarly ==
  /\ AccAt("try") /\ memberMax <= 1
  /\ CloseFd(newClient, "refused")
  /\ sem' = sem + 1 /\ acc' = "wait"
  /\ UNCHANGED <<running, newClient, memberMax, fds, backlog, thr>>

\* Defect: continue without sem_post(&sem).
TurnAwayKeepsSem ==
  /\ AccAt("try") /\ memberMax = 0
  /\ CloseFd(newClient, "refused") /\ acc' = "wait"
  /\ UNCHANGED <<running, newClient, sem, memberMax, fds, backlog, thr>>

\* The place is taken: say so, close, sem_post(&sem), continue.
TurnAway ==
  /\ AccAt("try") /\ memberMax = 0
  /\ \/ /\ CloseFd(newClient, "refused")
        /\ sem' = sem + 1 /\ acc' = "wait"
        /\ UNCHANGED <<running, backlog>>
     \/ /\ Broken(newClient) /\ running' = FALSE
        /\ UNCHANGED <<acc, sem, net>>
  /\ UNCHANGED <<newClient, memberMax, fds, thr>>

Create(t) ==
  /\ AccAt("create") /\ pc[t] = "free"
  /\ pc' = [pc EXCEPT ![t] = "start"]
  /\ of' = [of EXCEPT ![t] = file[newClient]]
  /\ acc' = "add"
  /\ UNCHANGED <<running, newClient, sem, memberMax, fds, net, sock, todo>>

\* pthread_create fails: the code closes the socket and goes on to addUser.
CreateFails ==
  /\ CreateMayFail
  /\ AccAt("create") /\ acc' = "add"
  /\ CloseFd(newClient, "gone")
  /\ UNCHANGED <<running, newClient, sem, memberMax, fds, backlog, thr>>

AddUser ==
  /\ AccAt("add") /\ acc' = "wait"
  /\ fds' = fds \cup {newClient}
  /\ UNCHANGED <<running, newClient, sem, memberMax, net, thr>>

AcceptThread == \/ AcceptInit \/ SemWait \/ Accept
                \/ TryWait \/ TurnAway \/ CreateFails \/ AddUser
                \/ \E t \in Threads : Create(t)

-----------------------------------------------------------------------------
(* threadHandleClient *)

Goto(t, l) == pc' = [pc EXCEPT ![t] = l]
acceptor == <<acc, newClient>>

ReadArg(t) ==
  /\ At(t, "start") /\ Goto(t, "post")
  /\ sock' = [sock EXCEPT ![t] = newClient]
  /\ UNCHANGED <<running, acceptor, sem, memberMax, fds, net, of, todo>>

\* Defect: the thread does not post sem.
PostForgotten(t) ==
  /\ At(t, "post") /\ Goto(t, "bcast")
  /\ UNCHANGED <<running, acceptor, sem, memberMax, fds, net, sock, of, todo>>

\* sem_post(&sem); the announcement "connected" is broadcast next.
Post(t) ==
  /\ At(t, "post") /\ Goto(t, "bcast")
  /\ sem' = sem + 1
  /\ UNCHANGED <<running, acceptor, memberMax, fds, net, sock, of, todo>>

\* Defect: only an error of recv ends the loop, an end of file does not.
RecvIgnoresEof(t) ==
  /\ At(t, "recv")
  /\ LET l == IF t = Main THEN "up" ELSE link[file[sock[t]]]
     IN  \/ l = "up" /\ Goto(t, "bcast")
         \/ l = "rst" /\ Goto(t, "close")
  /\ UNCHANGED <<running, acceptor, sem, memberMax, fds, net, sock, of, todo>>

\* recv of a client thread, fgets of the main thread.  A blank text changes
\* nothing.  "/d:text" goes to d, any other text to everybody.  An end of file
\* is announced; an error is not.
Recv(t) ==
  /\ At(t, "recv")
  /\ LET l == IF t = Main THEN "up" ELSE link[file[sock[t]]]
     IN  \/ l = "up" /\ Goto(t, "bcast") /\ UNCHANGED todo
         \/ /\ l = "up" /\ Goto(t, "priv")
            /\ \E d \in Targets : todo' = [todo EXCEPT ![t] = {d}]
         \/ l \in {"fin", "rst"} /\ Goto(t, "leave") /\ UNCHANGED todo
         \/ l = "rst" /\ Goto(t, "close") /\ UNCHANGED todo
  /\ UNCHANGED <<running, acceptor, sem, memberMax, fds, net, sock, of>>

\* What is left to send is S: the loop goes on, or its caller does.
SendTo(t, S, loop, after) ==
  /\ todo' = [todo EXCEPT ![t] = S]
  /\ Goto(t, IF S = {} THEN after ELSE loop)

\* msgBroadcast: the copy of fds is taken under the mutex and used without it.
CopyFds(t) ==
  /\ \/ At(t, "bcast") /\ SendTo(t, fds, "send", "recv")
     \/ At(t, "leave") /\ SendTo(t, fds, "last", "close")
  /\ UNCHANGED <<running, acceptor, sem, memberMax, fds, net, sock, of>>

\* msgHandler, private text: "No such target" goes back to the sender.
CheckTarget(t) ==
  /\ At(t, "priv")
  /\ SendTo(t, IF todo[t] \subseteq fds THEN todo[t] ELSE {sock[t]}, "send", "recv")
  /\ UNCHANGED <<running, acceptor, sem, memberMax, fds, net, sock, of>>

\* sendMsgToTarget for the next number of the copy.  The text goes to whatever
\* the number refers to now; on a closed number send fails and nobody looks.
Send(t) ==
  /\ At(t, "send") \/ At(t, "last")
  /\ \E d \in todo[t] :
       /\ \A e \in todo[t] : d <= e
       /\ \/ /\ SendTo(t, todo[t] \ {d}, pc[t],
                       IF pc[t] = "send" THEN "recv" ELSE "close")
             /\ UNCHANGED running
          \/ /\ Broken(d) /\ running' = FALSE
             /\ UNCHANGED <<pc, todo>>
  /\ UNCHANGED <<acceptor, sem, memberMax, fds, net, sock, of>>

CloseSocket(t) ==
  /\ At(t, "close") /\ Goto(t, "del")
  /\ CloseFd(sock[t], "gone")
  /\ UNCHANGED <<running, acceptor, sem, memberMax, fds, backlog, sock, of, todo>>

DelUser(t) ==
  /\ At(t, "del") /\ Goto(t, "slot")
  /\ fds' = fds \ {sock[t]}
  /\ UNCHANGED <<running, acceptor, sem, memberMax, net, sock, of, todo>>

\* Defect: the place is posted a second time.
FreeSlotTwice(t) ==
  /\ At(t, "slot") /\ Goto(t, "free")
  /\ memberMax' = memberMax + 2
  /\ sock' = [sock EXCEPT ![t] = NoFd] /\ of' = [of EXCEPT ![t] = NoConn]
  /\ UNCHANGED <<running, acceptor, sem, fds, net, todo>>

\* sem_post(&member_max); the thread ends and its locals are forgotten.
FreeSlot(t) ==
  /\ At(t, "slot") /\ Goto(t, "free")
  /\ memberMax' = memberMax + 1
  /\ sock' = [sock EXCEPT ![t] = NoFd] /\ of' = [of EXCEPT ![t] = NoConn]
  /\ UNCHANGED <<running, acceptor, sem, fds, net, todo>>

Handler(t) == Recv(t) \/ CopyFds(t) \/ CheckTarget(t) \/ Send(t)
ClientThread(t) == \/ ReadArg(t) \/ Post(t) \/ Handler(t)
                   \/ CloseSocket(t) \/ DelUser(t) \/ FreeSlot(t)

Next == \/ \E c \in Conns : Connect(c) \/ Hangup(c)
        \/ AcceptThread \/ AcceptFails
        \/ \E t \in Threads : ClientThread(t)
        \/ Handler(Main)

Safety == Init /\ [][Next]_vars

\* The accept thread runs, and so does a new thread until it has posted sem.
\* No peer and no error of accept is fair, and neither is send: a peer that
\* does not read may block the thread that sends to it.
Fairness == /\ WF_vars(AcceptThread)
            /\ \A t \in Threads : WF_vars(ReadArg(t) \/ Post(t))

Spec == Safety /\ Fairness

\* Every thread runs and peers read what they are sent; recv returns when the
\* peer has hung up, and need not return before.
RecvBlocks(t) == pc[t] = "recv" /\ link[file[sock[t]]] = "up"
FairSpec == Spec /\ \A t \in Threads :
                     WF_vars(~RecvBlocks(t) /\ ClientThread(t))

-----------------------------------------------------------------------------
(* Properties. *)

Holders == {t \in Threads : pc[t] \in Inside}

\* sem is a baton: the accept thread has it, or the thread it created last, or
\* nobody; it is missing only after pthread_create failed (client_handle.c:36).
Batons == sem + (IF acc \in Turn THEN 1 ELSE 0)
              + Cardinality({t \in Threads : pc[t] \in Fresh})

\* Every thread works on the connection it was created for, from the copy of
\* *arg to its own close, and no two threads serve one connection: the number
\* in new_client is not overwritten before it is copied (client_handle.c:24,
\* 50, 55), and nobody else closes it although numbers are used again.
HandedOff ==
  \A t \in Threads :
    /\ pc[t] \in Own => of[t] \in Conns /\ file[sock[t]] = of[t]
    /\ \A u \in Holders : t \in Holders /\ of[t] = of[u] => t = u

\* The count of member_max and the clients that hold a place add up to the
\* limit of option -l at every step of accept, create, close and sem_post; a
\* place is lost only when the baton is (client_handle.c:29, 36, 76).
SlotsAccounted ==
  acc # "init" =>
    memberMax + Cardinality(Holders) + (IF acc = "create" THEN 1 ELSE 0)
              + (1 - Batons) = Limits

\* The connections and places of this server, seen as the admission it promises:
\* first come first served, at most Limits inside, refused only when full, and
\* under Spec everybody is decided (client_handle.c:23-42).
Deciding == IF acc = "try" THEN <<file[newClient]>> ELSE <<>>
Admitted == {of[t] : t \in Holders}
              \cup (IF acc = "create" THEN {file[newClient]} ELSE {})
Refusals == {c \in Conns : link[c] = "refused"}

A == INSTANCE Admission WITH waiting <- Deciding \o backlog, inside <- Admitted,
                             refused <- Refusals, up <- running
AdmissionSafe == A!Safe
AdmissionLive == A!Spec

\* A client that has hung up gives its place back, however the broadcasts of
\* its departure and of the others interleave (client_handle.c:62-76).
PlaceReturned ==
  \A t \in Threads :
    (pc[t] \in Own /\ link[of[t]] \in {"fin", "rst"}) ~> (pc[t] = "free" \/ ~running)

\* A client that is being served is a member, so that it receives what the
\* others send, once the accept thread has had the time to add it
\* (4.tftp/code/readme.txt:27).  close comes before delUser in the code
\* (client_handle.c:74-75), and accept may return the number in between.
ServedIsMember ==
  \A t \in Threads :
    pc[t] = "recv" /\ ~(acc = "add" /\ newClient = sock[t]) => sock[t] \in fds

\* Everybody in line is accepted while the server runs, also when a thread
\* cannot be created (readme.txt:7, client_handle.c:36-39).
EveryoneAccepted ==
  \A c \in Conns :
    (\E i \in DOMAIN backlog : backlog[i] = c)
      ~> (~running \/ \A i \in DOMAIN backlog : backlog[i] # c)
=============================================================================
