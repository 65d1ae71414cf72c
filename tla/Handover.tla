------------------------------ MODULE Handover ------------------------------
(***************************************************************************)
(* 10.network/2.tcp_server/code: a thread accepts connections and starts   *)
(* one thread for each, which takes its socket from the one variable       *)
(* new_client of the acceptor; a semaphore keeps the acceptor from its     *)
(* next accept until the socket is taken.  select/old is the same server   *)
(* without the semaphore.                                                  *)
(***************************************************************************)
EXTENDS Naturals

CONSTANTS Conns, Handlers

VARIABLES link,     \* of each connection: "away", "queued", "up", "left" (by the
                    \* peer), "reset" or "closed"
          acc,      \* the acceptor: "wait", "accept", "create"
          new,      \* new_client
          sem,
          hpc,      \* of each handler: "none", "start", "post", "recv", "close"
          sock,     \* client_socket of each handler
          failed,   \* history: pthread_create has failed
          dead      \* the process has ended

threads == <<acc, new, sem, hpc, sock, failed>>
vars == <<link, threads, dead>>
Gone == {"left", "reset"}

Init ==
  /\ link = [c \in Conns |-> "away"]
  /\ acc = "wait" /\ new = 0 /\ sem = 1
  /\ hpc = [h \in Handlers |-> "none"] /\ sock = [h \in Handlers |-> 0]
  /\ failed = FALSE /\ dead = FALSE

Connect(c) == /\ link[c] = "away" /\ link' = [link EXCEPT ![c] = "queued"]
              /\ UNCHANGED <<threads, dead>>
Leave(c) == /\ link[c] = "up" /\ link' = [link EXCEPT ![c] = "left"]
            /\ UNCHANGED <<threads, dead>>

\* Defect: the semaphore is not posted.
PostNever(h) ==
  /\ hpc[h] = "post" /\ hpc' = [hpc EXCEPT ![h] = "recv"]
  /\ UNCHANGED <<link, acc, new, sem, sock, failed, dead>>

\* Defect: select/old, which accepts the next connection at once.
GoesOn ==
  /\ acc = "wait" /\ acc' = "accept"
  /\ UNCHANGED <<link, new, sem, hpc, sock, failed, dead>>

Wait ==
  /\ acc = "wait" /\ sem > 0 /\ sem' = sem - 1 /\ acc' = "accept"
  /\ UNCHANGED <<link, new, hpc, sock, failed, dead>>

Accept ==
  /\ acc = "accept"
  /\ \E c \in Conns : /\ link[c] = "queued" /\ new' = c
                      /\ link' = [link EXCEPT ![c] = "up"]
  /\ acc' = "create"
  /\ UNCHANGED <<sem, hpc, sock, failed, dead>>

\* accept fails: the acceptor ends the process.
AcceptFails ==
  /\ acc = "accept" /\ dead' = TRUE
  /\ UNCHANGED <<link, threads>>

Create ==
  /\ acc = "create" /\ acc' = "wait"
  /\ \E h \in Handlers : hpc[h] = "none" /\ hpc' = [hpc EXCEPT ![h] = "start"]
  /\ UNCHANGED <<link, new, sem, sock, failed, dead>>

\* The socket is closed; nobody posts the semaphore.
CreateFails ==
  /\ acc = "create" /\ acc' = "wait"
  /\ link' = [link EXCEPT ![new] = "closed"] /\ failed' = TRUE
  /\ UNCHANGED <<new, sem, hpc, sock, dead>>

Take(h) ==
  /\ hpc[h] = "start" /\ hpc' = [hpc EXCEPT ![h] = "post"]
  /\ sock' = [sock EXCEPT ![h] = new]
  /\ UNCHANGED <<link, acc, new, sem, failed, dead>>

Post(h) ==
  /\ hpc[h] = "post" /\ hpc' = [hpc EXCEPT ![h] = "recv"]
  /\ sem' = sem + 1
  /\ UNCHANGED <<link, acc, new, sock, failed, dead>>

\* recv returns 0 or -1; what it returns before is printed.
RecvEnd(h) ==
  /\ hpc[h] = "recv" /\ link[sock[h]] \in Gone
  /\ hpc' = [hpc EXCEPT ![h] = "close"]
  /\ UNCHANGED <<link, acc, new, sem, sock, failed, dead>>

Close(h) ==
  /\ hpc[h] = "close" /\ hpc' = [hpc EXCEPT ![h] = "none"]
  /\ link' = [link EXCEPT ![sock[h]] = "closed"]
  /\ sock' = [sock EXCEPT ![h] = 0]
  /\ UNCHANGED <<acc, new, sem, failed, dead>>

\* The operator writes to a socket by its number.  What is sent to a peer that
\* has left is answered by a reset, and after that by SIGPIPE.
Tell(c) ==
  /\ \/ link[c] = "left" /\ link' = [link EXCEPT ![c] = "reset"] /\ UNCHANGED dead
     \/ link[c] = "reset" /\ dead' = TRUE /\ UNCHANGED link
  /\ UNCHANGED threads

Handler(h) == Take(h) \/ Post(h) \/ RecvEnd(h) \/ Close(h)
Acceptor == Wait \/ Accept \/ Create

Next == /\ ~dead
        /\ \/ Acceptor \/ AcceptFails \/ CreateFails
           \/ \E h \in Handlers : Handler(h)
           \/ \E c \in Conns : Connect(c) \/ Leave(c) \/ Tell(c)

Safety == Init /\ [][Next]_vars
Spec == /\ Safety /\ WF_vars(~dead /\ Acceptor)
        /\ \A h \in Handlers : WF_vars(~dead /\ Handler(h))

-----------------------------------------------------------------------------
Serves(h, c) == hpc[h] \in {"post", "recv", "close"} /\ sock[h] = c

\* Each connection is served by one thread, although all threads take theirs from
\* one variable: no two have the same socket, and an open socket that is nobody's
\* is still in new_client (client_handle.c:18-30, 41-46).
OneHandlerEach ==
  \A c \in Conns :
    /\ \A g, h \in Handlers : Serves(g, c) /\ Serves(h, c) => g = h
    /\ link[c] \in {"up"} \cup Gone /\ (\A h \in Handlers : ~Serves(h, c)) => new = c

\* A connection that waits is accepted or closed, unless pthread_create has failed
\* before: the semaphore is then never posted again (client_handle.c:26-30).
Accepted(c) == link[c] # "queued" \/ failed \/ dead
AcceptedInTheEnd == \A c \in Conns : link[c] = "queued" ~> Accepted(c)
=============================================================================
