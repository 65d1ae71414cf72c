------------------------------ MODULE OlderChat ------------------------------
(***************************************************************************)
(* Two versions of the chat server from before there were members.  In the *)
(* early one (Backup: client_handle(6797).c, msg_handle(4478).c,           *)
(* fds_manage(7585).c, main(3545).c) every thread has a buffer of its own  *)
(* and all is sent to all.  In 4.tftp/code the threads share one buffer;   *)
(* msgHandler, which has an unfinished branch there and compiles as        *)
(* msg_handle(1752).c of Backup, knows private texts and keeps blank ones  *)
(* back.  Sockets are numbered as they are accepted and not used again.    *)
(***************************************************************************)
EXTENDS Integers, FiniteSetsExt

CONSTANTS N,      \* connections that are made
          Texts   \* the most texts of the clients and the operator

VARIABLES version,  \* "early" or "shared"
          link,     \* of each connection: "away", "up", "left", "reset" or "closed"
          apc, sem, \* the acceptor: "init", "wait", "accept", "add", "exit"; its semaphore
          new,      \* what it has accepted last: threads read it through arg
          sock,     \* of each thread: client_socket, 0 before it has read it
          users,    \* the descriptors in fds
          pc, todo, \* of each thread: where it is, the targets it has to send to
          buffer,   \* by thread; the shared one is the operator's
          texts     \* texts so far

Client == 1 .. N
Operator == 0      \* main, whose output is a target like the sockets
Threads == {Operator} \cup Client

server == <<version, sock, link, apc, sem, new, users>>
vars == <<server, pc, todo, buffer, texts>>

Alive == apc # "exit"
Kinds == {"plain", "blank", "private", "slash"}
Text(t, k) == [by |-> t, kind |-> k]

Buffer(t) == IF version = "early" THEN t ELSE Operator
Now(t) == buffer[Buffer(t)]

\* What a thread receives, and its greeting, is of the client of its socket.
Puts(t, k) == buffer' = [buffer EXCEPT ![Buffer(t)] = Text(sock[t], k)]

Goes(t, there) == pc' = [pc EXCEPT ![t] = there]

-----------------------------------------------------------------------------
(* threadAcceptClient *)

fdsInit ==
  /\ apc = "init" /\ apc' = "wait" /\ sem' = 1 /\ users' = {Operator}
  /\ UNCHANGED <<version, sock, link, new, pc, todo, buffer, texts>>

\* Defect: the semaphore is not waited for.
WaitNot ==
  /\ apc = "wait" /\ apc' = "accept"
  /\ UNCHANGED <<version, sock, link, sem, new, users, pc, todo, buffer, texts>>

Wait ==
  /\ apc = "wait" /\ sem > 0 /\ sem' = sem - 1 /\ apc' = "accept"
  /\ UNCHANGED <<version, sock, link, new, users, pc, todo, buffer, texts>>

AcceptNew == new < N /\ new' = new + 1 /\ apc' = "add"

Accept ==
  /\ apc = "accept" /\ AcceptNew
  /\ link' = [link EXCEPT ![new'] = "up"] /\ Goes(new', "start")
  /\ UNCHANGED <<version, sock, sem, users, todo, buffer, texts>>

\* The number is added all the same, and nobody posts the semaphore.
CreateFails ==
  /\ apc = "accept" /\ AcceptNew
  /\ link' = [link EXCEPT ![new'] = "closed"]
  /\ UNCHANGED <<version, sock, sem, users, pc, todo, buffer, texts>>

AcceptFails ==
  /\ apc = "accept" /\ apc' = "exit"
  /\ UNCHANGED <<version, sock, link, sem, new, users, pc, todo, buffer, texts>>

Add ==
  /\ apc = "add" /\ apc' = "wait" /\ users' = users \cup {new}
  /\ UNCHANGED <<version, sock, link, sem, new, pc, todo, buffer, texts>>

-----------------------------------------------------------------------------
(* msgBroadcast and sendMsgToTarget; before fdsInit there is no target *)

Broadcast(t) ==
  /\ pc[t] \in {"tell", "greet", "part"}
  /\ IF pc[t] = "tell" THEN UNCHANGED buffer ELSE Puts(t, pc[t])
  /\ todo' = [todo EXCEPT ![t] = users]
  /\ Goes(t, CASE users = {} -> "clear"
               [] pc[t] = "part" -> "last"
               [] OTHER -> "send")
  /\ UNCHANGED <<server, texts>>

\* The peer that has left answers with a reset, sooner or later, and the next send
\* to it ends the process.
Reaches(d) ==
  /\ link' \in IF d \in Client /\ link[d] = "left" THEN {link, [link EXCEPT ![d] = "reset"]}
                                               ELSE {link}
  /\ apc' = IF d \in Client /\ link[d] = "reset" THEN "exit" ELSE apc
  /\ UNCHANGED <<version, sock, sem, new, users>>

Sending(t) == pc[t] \in {"send", "last"}

Send(t) ==
  /\ Sending(t)
  /\ LET d == Min(todo[t])
     IN  /\ todo' = [todo EXCEPT ![t] = @ \ {d}] /\ Reaches(d)
         /\ Goes(t, CASE todo[t] # {d} -> pc[t]
                      [] pc[t] = "last" -> "close"
                      [] OTHER -> "clear")
  /\ UNCHANGED <<buffer, texts>>

-----------------------------------------------------------------------------
(* msgHandler *)

EarlyHandler(t) ==
  /\ pc[t] = "handle" /\ version = "early" /\ Goes(t, "tell")
  /\ UNCHANGED <<server, todo, buffer, texts>>

\* Defect: blank texts are not told apart.
HandlerOfPrivate(t) ==
  /\ pc[t] = "handle" /\ version = "shared"
  /\ Goes(t, IF Now(t).kind \in {"private", "slash"} THEN "whisper" ELSE "tell")
  /\ UNCHANGED <<server, todo, buffer, texts>>

SharedHandler(t) ==
  /\ pc[t] = "handle" /\ version = "shared"
  /\ Goes(t, CASE Now(t).kind \in {"private", "slash"} -> "whisper"
               [] Now(t).kind = "blank" -> "warn"
               [] OTHER -> "tell")
  /\ UNCHANGED <<server, todo, buffer, texts>>

\* The text after the ':' goes to the number after the '/'.  Without a ':' the
\* program reads beyond the buffer: it is ended, or sends nothing to a socket.
Whisper(t) ==
  /\ pc[t] = "whisper" /\ Goes(t, "clear")
  /\ IF Now(t).kind = "private"
     THEN \E d \in {c \in Client : link[c] # "away"} : Reaches(d)
     ELSE /\ apc' \in {apc, "exit"} /\ UNCHANGED <<version, sock, link, sem, new, users>>
  /\ UNCHANGED <<todo, buffer, texts>>

\* The warning is written behind the blank and sent back; to the operator's output
\* nothing can be sent.
Warn(t) ==
  /\ pc[t] = "warn" /\ Puts(t, "warning") /\ Goes(t, "warned")
  /\ UNCHANGED <<server, todo, texts>>

Warned(t) ==
  /\ pc[t] = "warned" /\ Goes(t, "clear")
  /\ IF t = Operator THEN UNCHANGED server ELSE Reaches(sock[t])
  /\ UNCHANGED <<todo, buffer, texts>>

-----------------------------------------------------------------------------
(* the threads: threadHandleClient and the loop of main *)

ReadArg(t) ==
  /\ pc[t] = "start" /\ sock' = [sock EXCEPT ![t] = new] /\ Goes(t, "post")
  /\ UNCHANGED <<version, link, apc, sem, new, users, todo, buffer, texts>>

Post(t) ==
  /\ pc[t] = "post" /\ sem' = sem + 1 /\ Goes(t, "greet")
  /\ UNCHANGED <<version, sock, link, apc, new, users, todo, buffer, texts>>

Clear(t) ==
  /\ pc[t] = "clear" /\ Puts(t, "empty") /\ Goes(t, "read")
  /\ UNCHANGED <<server, todo, texts>>

Read(t) ==
  /\ pc[t] = "read" /\ texts < Texts /\ texts' = texts + 1
  /\ t \in Client => link[sock[t]] = "up"
  /\ \E k \in Kinds : Puts(t, k)
  /\ Goes(t, "handle")
  /\ UNCHANGED <<server, todo>>

\* fgets leaves the buffer as it is.
ReadEOF ==
  /\ pc[Operator] = "read" /\ texts < Texts
  /\ texts' = texts + 1 /\ Goes(Operator, "handle")
  /\ UNCHANGED <<server, todo, buffer>>

ReadEnd(t) ==
  /\ pc[t] = "read" /\ t \in Client /\ link[sock[t]] \in {"left", "reset"}
  /\ Goes(t, IF link[sock[t]] = "left" THEN "part" ELSE "close")
  /\ UNCHANGED <<server, todo, buffer, texts>>

Close(t) ==
  /\ pc[t] = "close" /\ link' = [link EXCEPT ![sock[t]] = "closed"] /\ Goes(t, "delete")
  /\ UNCHANGED <<version, sock, apc, sem, new, users, todo, buffer, texts>>

Delete(t) ==
  /\ pc[t] = "delete" /\ users' = users \ {sock[t]} /\ Goes(t, "off")
  /\ UNCHANGED <<version, sock, link, apc, sem, new, todo, buffer, texts>>

Leave(c) ==
  /\ link[c] = "up" /\ link' = [link EXCEPT ![c] = "left"]
  /\ UNCHANGED <<version, sock, apc, sem, new, users, pc, todo, buffer, texts>>

-----------------------------------------------------------------------------
Init ==
  /\ version \in {"early", "shared"} /\ link = [c \in Client |-> "away"]
  /\ apc = "init" /\ sem = 0 /\ new = 0 /\ users = {}
  /\ pc = [t \in Threads |-> IF t = Operator THEN "clear" ELSE "off"]
  /\ sock = [t \in Threads |-> 0] /\ todo = [t \in Threads |-> {}] /\ texts = 0
  /\ buffer = [t \in Threads |-> Text(t, "empty")]

Acceptor == fdsInit \/ Wait \/ Accept \/ CreateFails \/ AcceptFails \/ Add

Talk(t) == \/ Broadcast(t) \/ Send(t) \/ EarlyHandler(t) \/ SharedHandler(t)
           \/ Whisper(t) \/ Warn(t) \/ Warned(t) \/ Clear(t) \/ Read(t)

Handler(c) == Talk(c) \/ ReadArg(c) \/ Post(c) \/ ReadEnd(c) \/ Close(c) \/ Delete(c)

Main == Talk(Operator) \/ ReadEOF

EarlyAcceptor == version = "early" /\ Acceptor
EarlyHandling(c) == version = "early" /\ Handler(c)
EarlyMain == version = "early" /\ Main

SharedAcceptor == version = "shared" /\ Acceptor
SharedHandling(c) == version = "shared" /\ Handler(c)
SharedMain == version = "shared" /\ Main

Next == /\ Alive
        /\ \/ EarlyAcceptor \/ SharedAcceptor \/ EarlyMain \/ SharedMain
           \/ \E c \in Client : EarlyHandling(c) \/ SharedHandling(c) \/ Leave(c)

Spec == Init /\ [][Next]_vars

-----------------------------------------------------------------------------
\* A thread has the connection it was created for, although the acceptor overwrites
\* new_client with each one (client_handle.c:24-32, 48-53).
ServesItsOwn == \A t \in Client : pc[t] \notin {"off", "start"} => sock[t] = t

\* No thread sends its own client's blank text to the others; that of another client
\* it may, through the buffer they share (msg_handle.c:25-29).
BlankKept == \A t \in Threads :
  version = "shared" /\ Sending(t) => Now(t) # Text(sock[t], "blank")
=============================================================================
