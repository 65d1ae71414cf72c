-------------------------- MODULE ChatServer_proofs --------------------------
(***************************************************************************)
(* Theorems about ChatServer, for every number of connections, threads,    *)
(* descriptors and places.                                                 *)
(***************************************************************************)
EXTENDS ChatServer, FiniteSetTheorems, SequenceTheorems, TLAPS

-----------------------------------------------------------------------------
(* Types. *)

\* TypeOK without the upper bounds of the two semaphores, which only hold
\* because of the baton and of the places, and with the fact that new_client is
\* a descriptor while accept's result is being looked at.
Types ==
  /\ running \in BOOLEAN
  /\ acc \in Turn \cup {"init", "wait", "add"}
  /\ newClient \in Fds \cup {NoFd}
  /\ acc \in {"try", "create"} => newClient \in Fds
  /\ sem \in Nat /\ memberMax \in Nat
  /\ fds \subseteq Targets \cup {NoFd}
  /\ file \in [Fds -> Conns \cup {NoConn}]
  /\ link \in [Conns -> {"idle", "up", "fin", "rst", "gone", "refused"}]
  /\ backlog \in Seq(Conns)
  /\ pc \in [Senders -> Inside \cup {"free"}]
  /\ sock \in [Senders -> Targets \cup {NoFd}]
  /\ of \in [Senders -> Conns \cup {NoConn}]
  /\ todo \in [Senders -> SUBSET (Targets \cup {NoFd})]

LEMMA TypesInit == Init => Types
  BY ChatAssumption DEF Init, Types, Senders, Targets, Inside, Own, Chat, Turn

LEMMA TypesStep == Types /\ [Next]_vars => Types'
<1> SUFFICES ASSUME Types, [Next]_vars PROVE Types'
  OBVIOUS
<1> USE ChatAssumption DEF AccAt, At, Types, Senders, Targets, Inside, Own, Chat, Turn, net, thr, acceptor
<1>1. CASE \E c \in Conns : Connect(c)
  BY <1>1 DEF Connect
<1>2. CASE \E c \in Conns : Hangup(c)
  BY <1>2 DEF Hangup
<1>3. CASE AcceptInit
  BY <1>3 DEF AcceptInit
<1>4. CASE SemWait
  BY <1>4 DEF SemWait
<1>5. CASE Accept
  <2>1. Head(backlog) \in Conns /\ Tail(backlog) \in Seq(Conns)
    BY <1>5 DEF Accept
  <2>2. QED
    BY <1>5, <2>1 DEF Accept
<1>6. CASE AcceptFails
  BY <1>6 DEF AcceptFails
<1>7. CASE TryWait
  BY <1>7 DEF TryWait
<1>8. CASE TurnAway
  <2>1. CASE running' = FALSE /\ UNCHANGED <<acc, sem, net>>
    BY <1>8, <2>1 DEF TurnAway
  <2>2. CASE /\ CloseFd(newClient, "refused") /\ sem' = sem + 1 /\ acc' = "wait"
             /\ UNCHANGED <<running, backlog>>
    <3>1. newClient \in Fds /\ UNCHANGED <<newClient, memberMax, fds, thr>>
      BY <1>8 DEF TurnAway
    <3>2. QED
      BY <2>2, <3>1 DEF CloseFd
  <2>3. QED
    BY <1>8, <2>1, <2>2 DEF TurnAway
<1>9. CASE \E t \in Threads : Create(t)
  BY <1>9 DEF Create
<1>10. CASE CreateFails
  BY <1>10 DEF CreateFails, CloseFd
<1>11. CASE AddUser
  BY <1>11 DEF AddUser
<1>12. ASSUME NEW t \in Threads, ReadArg(t) PROVE Types'
  BY <1>12 DEF ReadArg, Goto
<1>13. ASSUME NEW t \in Threads, Post(t) PROVE Types'
  BY <1>13 DEF Post, Goto
<1>14. ASSUME NEW t \in Senders, Recv(t) PROVE Types'
  BY <1>14 DEF Recv, Goto
<1>15. ASSUME NEW t \in Senders, CopyFds(t) PROVE Types'
  BY <1>15 DEF CopyFds, SendTo, Goto
<1>16. ASSUME NEW t \in Senders, CheckTarget(t) PROVE Types'
  BY <1>16 DEF CheckTarget, SendTo, Goto
<1>17. ASSUME NEW t \in Senders, Send(t) PROVE Types'
  <2>1. UNCHANGED <<acceptor, sem, memberMax, fds, net, sock, of>> /\ running' \in BOOLEAN
    BY <1>17 DEF Send
  <2>2. /\ pc' \in [Senders -> Inside \cup {"free"}]
        /\ todo' \in [Senders -> SUBSET (Targets \cup {NoFd})]
    <3>1. PICK d \in todo[t] :
            \/ SendTo(t, todo[t] \ {d}, pc[t], IF pc[t] = "send" THEN "recv" ELSE "close")
            \/ UNCHANGED <<pc, todo>>
      BY <1>17 DEF Send
    <3>2. pc[t] \in {"send", "last"}
      BY <1>17 DEF Send
    <3>3. QED
      BY <3>1, <3>2 DEF SendTo, Goto
  <2>3. QED
    BY <2>1, <2>2
<1>18. ASSUME NEW t \in Threads, CloseSocket(t) PROVE Types'
  BY <1>18 DEF CloseSocket, CloseFd, Goto
<1>19. ASSUME NEW t \in Threads, DelUser(t) PROVE Types'
  BY <1>19 DEF DelUser, Goto
<1>20. ASSUME NEW t \in Threads, FreeSlot(t) PROVE Types'
  BY <1>20 DEF FreeSlot, Goto
<1>21. CASE UNCHANGED vars
  BY <1>21 DEF vars
<1>22. QED
  BY <1>1, <1>2, <1>3, <1>4, <1>5, <1>6, <1>7, <1>8, <1>9, <1>10, <1>11, <1>12,
     <1>13, <1>14, <1>15, <1>16, <1>17, <1>18, <1>19, <1>20, <1>21
  DEF Next, AcceptThread, ClientThread, Handler

\* The steps of the message handler, of a client thread or of the main thread,
\* move that thread inside the part of its program where its socket is open and
\* it owes no sem_post, and touch nothing but todo and, dying, running.
Quiet == Own \ {"post"}

LEMMA HandlerMoves ==
  ASSUME Types, NEW t \in Senders, Handler(t)
  PROVE  /\ UNCHANGED <<acc, newClient, sem, memberMax, fds, file, link, backlog, sock, of>>
         /\ pc[t] \in Quiet /\ pc'[t] \in Quiet
         /\ pc' = [pc EXCEPT ![t] = pc'[t]]
         /\ running' \in {running, FALSE}
<1> USE DEF AccAt, At, Types, Quiet, Own, Chat, net, thr, acceptor
<1>1. CASE Recv(t)
  BY <1>1 DEF Recv, Goto
<1>2. CASE CopyFds(t)
  BY <1>2 DEF CopyFds, SendTo, Goto
<1>3. CASE CheckTarget(t)
  BY <1>3 DEF CheckTarget, SendTo, Goto
<1>4. CASE Send(t)
  <2>1. pc[t] \in {"send", "last"} /\ running' \in {running, FALSE}
        /\ UNCHANGED <<acceptor, sem, memberMax, fds, net, sock, of>>
    BY <1>4 DEF Send
  <2>2. PICK d \in todo[t] :
          \/ SendTo(t, todo[t] \ {d}, pc[t], IF pc[t] = "send" THEN "recv" ELSE "close")
          \/ UNCHANGED <<pc, todo>>
    BY <1>4 DEF Send
  <2>3. pc' = [pc EXCEPT ![t] = pc'[t]] /\ pc'[t] \in Quiet
    BY <2>1, <2>2 DEF SendTo, Goto
  <2>4. QED
    BY <2>1, <2>3
<1>5. QED
  BY <1>1, <1>2, <1>3, <1>4 DEF Handler

-----------------------------------------------------------------------------
(* The baton. *)

NoneFresh == \A t \in Threads : pc[t] \notin Fresh

\* At most one of: sem is up, the accept thread is between sem_wait and
\* pthread_create, one thread has not posted yet.
Baton ==
  /\ sem \in 0..1
  /\ acc = "init" => sem = 0
  /\ sem = 1 \/ acc \in Turn \cup {"init"} => NoneFresh
  /\ sem = 1 => acc \notin Turn
  /\ \A t, u \in Threads : pc[t] \in Fresh /\ pc[u] \in Fresh => t = u

LEMMA BatonInit == Init => Baton
  BY ChatAssumption DEF Init, Baton, NoneFresh, Senders, Fresh, Turn

LEMMA BatonStep == Types /\ Baton /\ [Next]_vars => Baton'
<1> SUFFICES ASSUME Types, Baton, [Next]_vars PROVE Baton'
  OBVIOUS
<1> USE ChatAssumption DEF AccAt, At, Baton, NoneFresh, Fresh, Turn, net, thr, acceptor
<1>0. pc \in [Senders -> Inside \cup {"free"}] /\ Threads \subseteq Senders
  BY DEF Types, Senders
<1>1. CASE UNCHANGED <<acc, sem, pc>>
  BY <1>1
<1>2. CASE AcceptInit
  BY <1>2 DEF AcceptInit
<1>3. CASE SemWait
  BY <1>3 DEF SemWait
<1>4. CASE Accept \/ TryWait
  BY <1>4 DEF Accept, TryWait
<1>5. CASE TurnAway
  <2>1. /\ acc = "try" /\ UNCHANGED pc
        /\ \/ sem' = sem + 1 /\ acc' = "wait"
           \/ UNCHANGED <<acc, sem>>
    BY <1>5 DEF TurnAway
  <2>2. QED
    BY <2>1
<1>6. ASSUME NEW t \in Threads, Create(t) PROVE Baton'
  BY <1>0, <1>6 DEF Create
<1>7. CASE CreateFails
  BY <1>7 DEF CreateFails
<1>8. CASE AddUser
  BY <1>8 DEF AddUser
<1>9. ASSUME NEW t \in Threads, ReadArg(t) PROVE Baton'
  BY <1>0, <1>9 DEF ReadArg, Goto
<1>10. ASSUME NEW t \in Threads, Post(t) PROVE Baton'
  BY <1>0, <1>10 DEF Post, Goto
<1>11. ASSUME NEW t \in Senders, Handler(t) PROVE Baton'
  <2>1. /\ UNCHANGED <<acc, sem>> /\ pc' = [pc EXCEPT ![t] = pc'[t]]
        /\ pc[t] \notin Fresh /\ pc'[t] \notin Fresh
    BY <1>11, HandlerMoves DEF Quiet, Own, Chat
  <2>2. \A u \in Threads : pc'[u] \in Fresh <=> pc[u] \in Fresh
    BY <1>0, <2>1
  <2>3. QED
    BY <2>1, <2>2
<1>12. ASSUME NEW t \in Threads, CloseSocket(t) \/ DelUser(t) \/ FreeSlot(t) PROVE Baton'
  <2>1. UNCHANGED <<acc, sem>> /\ \A u \in Threads : pc'[u] \in Fresh <=> pc[u] \in Fresh
    BY <1>0, <1>12 DEF CloseSocket, DelUser, FreeSlot, Goto
  <2>2. QED
    BY <2>1
<1>13. QED
  BY <1>1, <1>2, <1>3, <1>4, <1>5, <1>6, <1>7, <1>8, <1>9, <1>10, <1>11, <1>12
  DEF Next, AcceptThread, ClientThread, Senders, vars, Connect, Hangup, AcceptFails

-----------------------------------------------------------------------------
(* Descriptors. *)

\* A descriptor is in the hands of one thread at a time: the accept thread that
\* got it, the new thread that will read it in new_client, the thread that has
\* read it.  Whoever has it may rely on what it refers to.
Hands ==
  /\ \A t \in Threads : pc[t] \in Own =>
       sock[t] \in Fds /\ of[t] \in Conns /\ file[sock[t]] = of[t]
  /\ \A t, u \in Threads :
       pc[t] \in Own /\ pc[u] \in Own /\ sock[t] = sock[u] => t = u
  /\ acc \in {"try", "create"} =>
       /\ newClient \in Fds /\ file[newClient] \in Conns
       /\ \A u \in Threads : pc[u] \in Own => sock[u] # newClient
  /\ \A t \in Threads : pc[t] = "start" =>
       /\ newClient \in Fds /\ of[t] \in Conns /\ file[newClient] = of[t]
       /\ \A u \in Threads : pc[u] \in Own => sock[u] # newClient

LEMMA HandsInit == Init => Hands
  BY ChatAssumption DEF Init, Hands, Senders, Own, Chat

LEMMA HandsStep == Types /\ Baton /\ Hands /\ [Next]_vars => Hands'
<1> SUFFICES ASSUME Types, Baton, Hands, [Next]_vars PROVE Hands'
  OBVIOUS
<1> USE ChatAssumption DEF AccAt, At, Hands, Own, Chat, net, thr, acceptor
<1>0. /\ Threads \subseteq Senders /\ NoConn \notin Conns
      /\ pc \in [Senders -> Inside \cup {"free"}]
      /\ sock \in [Senders -> Targets \cup {NoFd}]
      /\ of \in [Senders -> Conns \cup {NoConn}]
      /\ file \in [Fds -> Conns \cup {NoConn}]
  BY DEF Types, Senders
<1>1. CASE UNCHANGED <<acc, newClient, file, pc, sock, of>>
  BY <1>1
<1>2. CASE AcceptInit
  BY <1>2 DEF AcceptInit
<1>3. CASE SemWait
  BY <1>3 DEF SemWait
<1>4. CASE Accept
  <2>1. Head(backlog) \in Conns
    BY <1>4 DEF Accept, Types
  <2>2. \A t \in Threads : pc[t] # "start"
    BY <1>4 DEF Accept, Baton, NoneFresh, Fresh, Turn
  <2>3. PICK d \in Fds : file[d] = NoConn /\ newClient' = d
                        /\ file' = [file EXCEPT ![d] = Head(backlog)]
    BY <1>4 DEF Accept
  <2>4. \A t \in Threads : pc[t] \in Own => sock[t] # d
    BY <2>3, <1>0
  <2>5. UNCHANGED <<pc, sock, of>>
    BY <1>4 DEF Accept
  <2>6. \A t \in Threads : pc[t] \in Own => file'[sock[t]] = file[sock[t]]
    BY <2>3, <2>4, <1>0
  <2>7. file'[d] \in Conns
    BY <1>0, <2>1, <2>3
  <2>8. QED
    BY <2>2, <2>3, <2>4, <2>5, <2>6, <2>7
<1>5. CASE TryWait
  BY <1>5 DEF TryWait
<1>6. CASE acc \in {"try", "create"} /\ (\E s : CloseFd(newClient, s))
             /\ acc' \in {"wait", "add"} /\ UNCHANGED <<newClient, thr>>
  <2>1. \A t \in Threads : pc[t] # "start"
    BY <1>6 DEF Baton, NoneFresh, Fresh, Turn
  <2>2. \A t \in Threads : pc[t] \in Own => file'[sock[t]] = file[sock[t]]
    BY <1>0, <1>6 DEF CloseFd
  <2>3. QED
    BY <1>6, <2>1, <2>2
<1>7. ASSUME NEW t \in Threads, Create(t) PROVE Hands'
  <2>1. \A u \in Threads : pc[u] # "start"
    BY <1>7 DEF Create, Baton, NoneFresh, Fresh, Turn
  <2>2. /\ pc[t] = "free" /\ pc' = [pc EXCEPT ![t] = "start"]
        /\ of' = [of EXCEPT ![t] = file[newClient]]
        /\ acc = "create" /\ acc' = "add" /\ UNCHANGED <<newClient, file, sock>>
    BY <1>7 DEF Create
  <2>3. QED
    BY <1>0, <2>1, <2>2
<1>8. CASE AddUser
  BY <1>8 DEF AddUser
<1>9. ASSUME NEW t \in Threads, ReadArg(t) PROVE Hands'
  <2>1. \A u \in Threads : u # t => pc[u] # "start"
    BY <1>9 DEF ReadArg, Baton, Fresh
  <2>2. /\ pc[t] = "start" /\ pc' = [pc EXCEPT ![t] = "post"]
        /\ sock' = [sock EXCEPT ![t] = newClient]
        /\ UNCHANGED <<acc, newClient, file, of>>
    BY <1>9 DEF ReadArg, Goto
  <2>3. acc \notin {"try", "create"}
    BY <2>2 DEF Baton, NoneFresh, Fresh, Turn
  <2>4. QED
    BY <1>0, <2>1, <2>2, <2>3
<1>10. ASSUME NEW t \in Threads, Post(t) PROVE Hands'
  BY <1>0, <1>10 DEF Post, Goto
<1>11. ASSUME NEW t \in Senders, Handler(t) PROVE Hands'
  <2>1. /\ UNCHANGED <<acc, newClient, file, sock, of>>
        /\ pc[t] \in Quiet /\ pc'[t] \in Quiet /\ pc' = [pc EXCEPT ![t] = pc'[t]]
    BY <1>11, HandlerMoves
  <2>2. \A u \in Threads : /\ pc'[u] \in Own <=> pc[u] \in Own
                           /\ pc'[u] = "start" <=> pc[u] = "start"
    BY <1>0, <2>1 DEF Quiet
  <2>3. QED
    BY <2>1, <2>2
<1>12. ASSUME NEW t \in Threads, CloseSocket(t) PROVE Hands'
  <2>1. /\ pc[t] = "close" /\ pc' = [pc EXCEPT ![t] = "del"]
        /\ file' = [file EXCEPT ![sock[t]] = NoConn]
        /\ UNCHANGED <<acc, newClient, sock, of>>
    BY <1>12 DEF CloseSocket, Goto, CloseFd
  <2>2. \A u \in Threads : pc'[u] \in Own => u # t /\ pc[u] \in Own
                                           /\ file'[sock[u]] = file[sock[u]]
    BY <1>0, <2>1
  <2>3. acc \in {"try", "create"} \/ (\E u \in Threads : pc[u] = "start")
          => file'[newClient] = file[newClient]
    BY <1>0, <2>1
  <2>4. \A u \in Threads : pc'[u] = "start" => pc[u] = "start"
    BY <1>0, <2>1
  <2>5. QED
    BY <2>1, <2>2, <2>3, <2>4
<1>13. ASSUME NEW t \in Threads, DelUser(t) PROVE Hands'
  BY <1>0, <1>13 DEF DelUser, Goto
<1>14. ASSUME NEW t \in Threads, FreeSlot(t) PROVE Hands'
  BY <1>0, <1>14 DEF FreeSlot, Goto
<1>15. QED
  BY <1>1, <1>2, <1>3, <1>4, <1>5, <1>6, <1>7, <1>8, <1>9, <1>10, <1>11, <1>12,
     <1>13, <1>14
  DEF Next, AcceptThread, ClientThread, Senders, vars, Connect, Hangup,
      AcceptFails, TurnAway, CreateFails

-----------------------------------------------------------------------------
(* Connections. *)

InLine(c) == \E i \in 1..Len(backlog) : backlog[i] = c

\* A connection is in one place: not opened, in line, being looked at by the
\* accept thread, or with the one thread that was created for it.
Line ==
  /\ \A i, j \in 1..Len(backlog) : backlog[i] = backlog[j] => i = j
  /\ \A c \in Conns : InLine(c) => link[c] # "idle"
  /\ \A c \in Conns : link[c] = "idle" \/ InLine(c) =>
       /\ \A d \in Fds : file[d] # c
       /\ \A t \in Threads : pc[t] \in Inside => of[t] # c
  /\ acc \in {"try", "create"} =>
       \A t \in Threads : pc[t] \in Inside => of[t] # file[newClient]
  /\ \A t, u \in Threads :
       pc[t] \in Inside /\ pc[u] \in Inside /\ of[t] = of[u] => t = u

LEMMA LineInit == Init => Line
  BY ChatAssumption DEF Init, Line, InLine, Senders, Inside, Own, Chat

LEMMA LineStep == Types /\ Hands /\ Line /\ [Next]_vars => Line'
<1> SUFFICES ASSUME Types, Hands, Line, [Next]_vars PROVE Line'
  OBVIOUS
<1> USE ChatAssumption DEF AccAt, At, Line, net, thr, acceptor
<1>0. /\ Threads \subseteq Senders /\ NoConn \notin Conns
      /\ pc \in [Senders -> Inside \cup {"free"}]
      /\ of \in [Senders -> Conns \cup {NoConn}]
      /\ file \in [Fds -> Conns \cup {NoConn}] /\ backlog \in Seq(Conns)
      /\ link \in [Conns -> {"idle", "up", "fin", "rst", "gone", "refused"}]
  BY DEF Types, Senders
<1>1. CASE UNCHANGED <<acc, newClient, file, link, backlog, of>>
             /\ \A t \in Threads : pc'[t] \in Inside <=> pc[t] \in Inside
  BY <1>1 DEF InLine
<1>2. ASSUME NEW c \in Conns, Connect(c) PROVE Line'
  <2>1. /\ link[c] = "idle" /\ link' = [link EXCEPT ![c] = "up"]
        /\ backlog' = Append(backlog, c) /\ UNCHANGED <<acc, newClient, file, pc, of>>
    BY <1>2 DEF Connect
  <2>2. /\ Len(backlog') = Len(backlog) + 1 /\ backlog'[Len(backlog) + 1] = c
        /\ \A i \in 1..Len(backlog) : backlog'[i] = backlog[i]
    BY <1>0, <2>1
  <2>3. ~InLine(c) /\ Len(backlog) \in Nat
    BY <1>0, <2>1
  <2>4. \A e \in Conns : InLine(e)' <=> InLine(e) \/ e = c
    BY <2>2, <2>3 DEF InLine
  <2>5. \A i, j \in 1..Len(backlog') : backlog'[i] = backlog'[j] => i = j
    BY <2>2, <2>3 DEF InLine
  <2>6. QED
    BY <1>0, <2>1, <2>4, <2>5
<1>3. ASSUME NEW c \in Conns, Hangup(c) PROVE Line'
  BY <1>0, <1>3 DEF Hangup, InLine
<1>4. CASE Accept
  <2>1. /\ backlog # <<>> /\ backlog' = Tail(backlog)
        /\ acc' = "try" /\ UNCHANGED <<link, pc, of>>
    BY <1>4 DEF Accept
  <2>2. PICK d \in Fds : newClient' = d /\ file' = [file EXCEPT ![d] = Head(backlog)]
    BY <1>4 DEF Accept
  <2>3. /\ Len(backlog) \in Nat \ {0} /\ Len(backlog') = Len(backlog) - 1
        /\ Head(backlog) = backlog[1] /\ backlog[1] \in Conns
        /\ \A i \in 1..Len(backlog') : backlog'[i] = backlog[i + 1]
    BY <1>0, <2>1
  <2>4. \A e \in Conns : InLine(e)' => InLine(e) /\ e # backlog[1]
    BY <2>3 DEF InLine
  <2>5. \A i, j \in 1..Len(backlog') : backlog'[i] = backlog'[j] => i = j
    BY <2>3
  <2>6. InLine(backlog[1])
    BY <2>3 DEF InLine
  <2>7. QED
    BY <1>0, <2>1, <2>2, <2>3, <2>4, <2>5, <2>6
<1>5. CASE AcceptInit \/ SemWait \/ TryWait \/ AddUser
  BY <1>5 DEF AcceptInit, SemWait, TryWait, AddUser, InLine
<1>6. CASE (\E s \in {"refused", "gone"} : CloseFd(newClient, s))
             /\ acc' \in {"wait", "add"} /\ UNCHANGED <<newClient, backlog, thr>>
  BY <1>0, <1>6 DEF CloseFd, InLine
<1>7. ASSUME NEW t \in Threads, Create(t) PROVE Line'
  <2>1. /\ pc[t] = "free" /\ pc' = [pc EXCEPT ![t] = "start"]
        /\ of' = [of EXCEPT ![t] = file[newClient]]
        /\ acc = "create" /\ acc' = "add" /\ UNCHANGED net
    BY <1>7 DEF Create
  <2>2. newClient \in Fds /\ file[newClient] \in Conns
    BY <2>1 DEF Hands
  <2>3. \A u \in Threads : pc'[u] \in Inside => u = t \/ pc[u] \in Inside
    BY <1>0, <2>1
  <2>4. \A u \in Threads : u # t => of'[u] = of[u]
    BY <1>0, <2>1
  <2>5. of'[t] = file[newClient] /\ pc[t] \notin Inside
    BY <1>0, <2>1 DEF Inside, Own, Chat
  <2>6. QED
    BY <2>1, <2>2, <2>3, <2>4, <2>5 DEF InLine
<1>8. ASSUME NEW t \in Senders, Handler(t) PROVE Line'
  <2>1. \A u \in Threads : pc'[u] \in Inside <=> pc[u] \in Inside
    BY <1>0, <1>8, HandlerMoves DEF Quiet, Inside
  <2>2. UNCHANGED <<acc, newClient, file, link, backlog, of>>
    BY <1>8, HandlerMoves
  <2>3. QED
    BY <2>1, <2>2, <1>1
<1>9. ASSUME NEW t \in Threads, ReadArg(t) \/ Post(t) \/ DelUser(t) PROVE Line'
  BY <1>0, <1>1, <1>9 DEF ReadArg, Post, DelUser, Goto, Inside, Own, Chat
<1>10. ASSUME NEW t \in Threads, CloseSocket(t) PROVE Line'
  <2>1. /\ \A u \in Threads : pc'[u] \in Inside <=> pc[u] \in Inside
        /\ pc[t] = "close" /\ CloseFd(sock[t], "gone")
        /\ UNCHANGED <<acc, newClient, backlog, of>>
    BY <1>0, <1>10 DEF CloseSocket, Goto, Inside, Own, Chat
  <2>2. acc \in {"try", "create"} => file'[newClient] = file[newClient]
    BY <1>0, <2>1 DEF Hands, CloseFd, Own
  <2>3. \A d \in Fds : file'[d] \in {file[d], NoConn}
    BY <1>0, <2>1 DEF CloseFd
  <2>4. \A c \in Conns : link'[c] = "idle" => link[c] = "idle"
    BY <1>0, <2>1 DEF CloseFd
  <2>5. \A c \in Conns : link[c] # "idle" => link'[c] # "idle"
    BY <1>0, <2>1 DEF CloseFd
  <2>6. QED
    BY <1>0, <2>1, <2>2, <2>3, <2>4, <2>5 DEF InLine
<1>11. ASSUME NEW t \in Threads, FreeSlot(t) PROVE Line'
  <2>1. /\ UNCHANGED <<acc, newClient, file, link, backlog>>
        /\ pc' = [pc EXCEPT ![t] = "free"] /\ of' = [of EXCEPT ![t] = NoConn]
    BY <1>11 DEF FreeSlot, Goto
  <2>2. \A u \in Threads : pc'[u] \in Inside => u # t /\ pc[u] \in Inside /\ of'[u] = of[u]
    BY <1>0, <2>1 DEF Inside, Own, Chat
  <2>3. QED
    BY <2>1, <2>2 DEF InLine
<1>12. CASE UNCHANGED vars \/ AcceptFails \/ UNCHANGED <<acc, newClient, net, thr>>
  BY <1>1, <1>12 DEF vars, AcceptFails
<1>13. QED
  BY <1>2, <1>3, <1>4, <1>5, <1>6, <1>7, <1>8, <1>9, <1>10, <1>11, <1>12
  DEF Next, AcceptThread, ClientThread, Senders, TurnAway, CreateFails

-----------------------------------------------------------------------------
(* Places. *)

Freshes == {t \in Threads : pc[t] \in Fresh}
AtCreate == IF acc = "create" THEN 1 ELSE 0
AtTurn == IF acc \in Turn THEN 1 ELSE 0

\* SlotsAccounted with the cardinalities named, and what holds before sem_init.
Places ==
  /\ acc = "init" => memberMax = 0 /\ Holders = {}
  /\ acc # "init" => memberMax + Cardinality(Holders) + AtCreate + 1
                       = Limits + sem + AtTurn + Cardinality(Freshes)

\* A step of one thread adds it to a set of threads, takes it out, or neither.
LEMMA OneThread ==
  ASSUME NEW S \in SUBSET Threads, NEW T \in SUBSET Threads, NEW t \in Threads,
         \A u \in Threads : u # t => (u \in T <=> u \in S)
  PROVE  /\ Cardinality(S) \in Nat /\ Cardinality(T) \in Nat
         /\ t \notin S /\ t \in T => Cardinality(T) = Cardinality(S) + 1
         /\ t \in S /\ t \notin T => Cardinality(T) = Cardinality(S) - 1
         /\ (t \in S <=> t \in T) => Cardinality(T) = Cardinality(S)
<1>1. IsFiniteSet(S) /\ IsFiniteSet(T)
  BY ChatAssumption, FS_Subset
<1>2. Cardinality(S) \in Nat /\ Cardinality(T) \in Nat
  BY <1>1, FS_CardinalityType
<1>3. CASE t \notin S /\ t \in T
  <2>1. T = S \cup {t}
    BY <1>3
  <2>2. QED
    BY <1>1, <1>2, <1>3, <2>1, FS_AddElement
<1>4. CASE t \in S /\ t \notin T
  <2>1. T = S \ {t}
    BY <1>4
  <2>2. QED
    BY <1>1, <1>2, <1>4, <2>1, FS_RemoveElement
<1>5. CASE t \in S <=> t \in T
  <2>1. T = S
    BY <1>5
  <2>2. QED
    BY <1>2, <1>5, <2>1
<1>6. QED
  BY <1>2, <1>3, <1>4, <1>5

LEMMA PlacesInit == Init => Places
  BY ChatAssumption DEF Init, Places, Senders, Holders, Inside, Own, Chat

LEMMA PlacesStep == Types /\ Baton /\ Places /\ [Next]_vars => Places'
<1> SUFFICES ASSUME Types, Baton, Places, [Next]_vars PROVE Places'
  OBVIOUS
<1> USE ChatAssumption DEF AccAt, At, Places, AtCreate, AtTurn, Turn, net, thr, acceptor
<1>0. /\ Threads \subseteq Senders /\ sem \in Nat /\ memberMax \in Nat
      /\ pc \in [Senders -> Inside \cup {"free"}]
  BY DEF Types, Senders
<1>a. /\ Holders \in SUBSET Threads /\ Freshes \in SUBSET Threads
      /\ Holders' \in SUBSET Threads /\ Freshes' \in SUBSET Threads
  BY DEF Holders, Freshes
<1>b. /\ Cardinality(Holders) \in Nat /\ Cardinality(Freshes) \in Nat
  BY <1>a, ChatAssumption, FS_Subset, FS_CardinalityType
<1>1. CASE UNCHANGED <<acc, sem, memberMax>> /\ Holders' = Holders /\ Freshes' = Freshes
  BY <1>1
<1>2. CASE AcceptInit
  <2>1. /\ acc = "init" /\ acc' = "wait" /\ sem' = 1 /\ memberMax' = Limits
        /\ UNCHANGED pc
    BY <1>2 DEF AcceptInit
  <2>2. Holders' = {} /\ Freshes' = {}
    BY <2>1 DEF Holders, Freshes, Inside, Fresh, Own
  <2>3. QED
    BY <2>1, <2>2, FS_EmptySet
<1>3. CASE UNCHANGED pc /\ (SemWait \/ Accept \/ TryWait \/ TurnAway \/ CreateFails \/ AddUser)
  <2>1. Holders' = Holders /\ Freshes' = Freshes
    BY <1>3 DEF Holders, Freshes
  <2>2. CASE SemWait
    BY <1>0, <1>b, <2>1, <2>2 DEF SemWait
  <2>3. CASE Accept \/ AddUser
    BY <1>0, <1>b, <2>1, <2>3 DEF Accept, AddUser
  <2>4. CASE TryWait
    BY <1>0, <1>b, <2>1, <2>4 DEF TryWait
  <2>5. CASE TurnAway
    <3>1. acc = "try" /\ UNCHANGED memberMax
          /\ \/ sem' = sem + 1 /\ acc' = "wait"
             \/ UNCHANGED <<acc, sem>>
      BY <2>5 DEF TurnAway
    <3>2. QED
      BY <1>0, <1>b, <2>1, <3>1
  <2>6. CASE CreateFails
    BY <1>0, <1>b, <2>1, <2>6 DEF CreateFails
  <2>7. QED
    BY <1>3, <2>2, <2>3, <2>4, <2>5, <2>6
<1>4. ASSUME NEW t \in Threads, Create(t) PROVE Places'
  <2>1. /\ \A u \in Threads : u # t => pc'[u] = pc[u]
        /\ pc[t] = "free" /\ pc'[t] = "start"
        /\ acc = "create" /\ acc' = "add" /\ UNCHANGED <<sem, memberMax>>
    BY <1>0, <1>4 DEF Create
  <2>2. /\ \A u \in Threads : u # t => (u \in Holders' <=> u \in Holders)
        /\ \A u \in Threads : u # t => (u \in Freshes' <=> u \in Freshes)
        /\ t \notin Holders /\ t \in Holders' /\ t \notin Freshes /\ t \in Freshes'
    BY <2>1 DEF Holders, Freshes, Inside, Fresh, Own, Chat
  <2>3. /\ Cardinality(Holders') = Cardinality(Holders) + 1
        /\ Cardinality(Freshes') = Cardinality(Freshes) + 1
    BY <1>a, <2>2, OneThread
  <2>4. QED
    BY <1>0, <1>b, <2>1, <2>3
<1>5. ASSUME NEW t \in Threads, Post(t) PROVE Places'
  <2>1. /\ \A u \in Threads : u # t => pc'[u] = pc[u]
        /\ pc[t] = "post" /\ pc'[t] = "bcast"
        /\ sem' = sem + 1 /\ UNCHANGED <<acc, memberMax>>
    BY <1>0, <1>5 DEF Post, Goto
  <2>2. /\ Holders' = Holders
        /\ \A u \in Threads : u # t => (u \in Freshes' <=> u \in Freshes)
        /\ t \in Freshes /\ t \notin Freshes'
    BY <2>1 DEF Holders, Freshes, Inside, Fresh, Own, Chat
  <2>3. Cardinality(Freshes') = Cardinality(Freshes) - 1
    BY <1>a, <2>2, OneThread
  <2>4. acc # "init"
    BY <2>1 DEF Baton, NoneFresh, Fresh
  <2>5. QED
    BY <1>0, <1>b, <2>1, <2>2, <2>3, <2>4
<1>6. ASSUME NEW t \in Threads, FreeSlot(t) PROVE Places'
  <2>1. /\ \A u \in Threads : u # t => pc'[u] = pc[u]
        /\ pc[t] = "slot" /\ pc'[t] = "free"
        /\ memberMax' = memberMax + 1 /\ UNCHANGED <<acc, sem>>
    BY <1>0, <1>6 DEF FreeSlot, Goto
  <2>2. /\ Freshes' = Freshes
        /\ \A u \in Threads : u # t => (u \in Holders' <=> u \in Holders)
        /\ t \in Holders /\ t \notin Holders'
    BY <2>1 DEF Holders, Freshes, Inside, Fresh, Own, Chat
  <2>3. Cardinality(Holders') = Cardinality(Holders) - 1
    BY <1>a, <2>2, OneThread
  <2>4. QED
    BY <1>0, <1>b, <2>1, <2>2, <2>3
<1>7. ASSUME NEW t \in Senders, Handler(t) PROVE Places'
  <2>1. /\ UNCHANGED <<acc, sem, memberMax>> /\ pc' = [pc EXCEPT ![t] = pc'[t]]
        /\ pc[t] \in Quiet /\ pc'[t] \in Quiet
    BY <1>7, HandlerMoves
  <2>2. Holders' = Holders /\ Freshes' = Freshes
    BY <1>0, <2>1 DEF Holders, Freshes, Inside, Fresh, Quiet, Own, Chat
  <2>3. QED
    BY <1>1, <2>1, <2>2
<1>8. ASSUME NEW t \in Threads, ReadArg(t) \/ CloseSocket(t) \/ DelUser(t) PROVE Places'
  <2>1. UNCHANGED <<acc, sem, memberMax>> /\ Holders' = Holders /\ Freshes' = Freshes
    BY <1>0, <1>8 DEF ReadArg, CloseSocket, DelUser, Goto, Holders, Freshes,
                      Inside, Fresh, Own, Chat
  <2>2. QED
    BY <1>1, <2>1
<1>9. CASE UNCHANGED <<acc, sem, memberMax, pc>>
  <2>1. Holders' = Holders /\ Freshes' = Freshes
    BY <1>9 DEF Holders, Freshes
  <2>2. QED
    BY <1>1, <1>9, <2>1
<1>10. QED
  BY <1>2, <1>3, <1>4, <1>5, <1>6, <1>7, <1>8, <1>9
  DEF Next, AcceptThread, ClientThread, Senders, vars, Connect, Hangup, AcceptFails,
      SemWait, Accept, TryWait, TurnAway, CreateFails, AddUser

-----------------------------------------------------------------------------
(* Theorems. *)

Inv == Types /\ Baton /\ Hands /\ Line /\ Places

LEMMA InvAlways == Safety => []Inv
<1>1. Init => Inv
  BY TypesInit, BatonInit, HandsInit, LineInit, PlacesInit DEF Inv
<1>2. Inv /\ [Next]_vars => Inv'
  BY TypesStep, BatonStep, HandsStep, LineStep, PlacesStep DEF Inv
<1>3. QED
  BY <1>1, <1>2, PTL DEF Safety

\* There is one baton at most.
LEMMA FewFreshes == Types /\ Baton => Cardinality(Freshes) \in Nat /\ sem + AtTurn + Cardinality(Freshes) <= 1
<1> SUFFICES ASSUME Types, Baton
             PROVE  Cardinality(Freshes) \in Nat /\ sem + AtTurn + Cardinality(Freshes) <= 1
  OBVIOUS
<1>1. CASE Freshes = {}
  BY <1>1, FS_EmptySet DEF Baton, AtTurn
<1>2. ASSUME NEW t \in Freshes PROVE Cardinality(Freshes) = 1 /\ sem = 0 /\ AtTurn = 0
  <2>1. Freshes = {t}
    BY <1>2 DEF Freshes, Baton
  <2>2. Cardinality(Freshes) = 1
    BY <2>1, FS_Singleton
  <2>3. QED
    BY <1>2, <2>2 DEF Freshes, Baton, NoneFresh, AtTurn
<1>3. QED
  BY <1>1, <1>2

\* The types, with the bounds of both semaphores: sem never exceeds 1, and
\* member_max never exceeds the limit of option -l (client_handle.c:17-18).
THEOREM TypeOKAlways == Safety => []TypeOK
<1>1. Inv => TypeOK
  <2> SUFFICES ASSUME Inv PROVE TypeOK
    OBVIOUS
  <2>1. Cardinality(Holders) \in Nat
    BY ChatAssumption, FS_Subset, FS_CardinalityType DEF Holders
  <2>2. memberMax \in 0..Limits
    BY <2>1, FewFreshes, ChatAssumption DEF Inv, Places, Types, AtCreate, AtTurn
  <2>3. sem \in 0..1
    BY DEF Inv, Baton
  <2>4. QED
    BY <2>2, <2>3 DEF Inv, Types, TypeOK
<1>2. QED
  BY <1>1, InvAlways, PTL

\* No place is lost or given twice: member_max and the clients inside add up to
\* the limit, unless pthread_create failed (client_handle.c:29, 36 and 76).
THEOREM SlotsAccountedAlways == Safety => []SlotsAccounted
<1>1. Inv => SlotsAccounted
  <2> SUFFICES ASSUME Inv, acc # "init"
               PROVE  memberMax + Cardinality(Holders) + (IF acc = "create" THEN 1 ELSE 0)
                        + (1 - Batons) = Limits
    BY DEF SlotsAccounted
  <2>1. Cardinality(Holders) \in Nat
    BY ChatAssumption, FS_Subset, FS_CardinalityType DEF Holders
  <2>2. Batons = sem + AtTurn + Cardinality(Freshes)
    BY DEF Batons, AtTurn, Freshes
  <2>3. Cardinality(Freshes) \in Nat /\ AtTurn \in Nat /\ sem \in Nat /\ memberMax \in Nat
    BY FewFreshes DEF Inv, Types, AtTurn
  <2>4. memberMax + Cardinality(Holders) + AtCreate + 1
          = Limits + sem + AtTurn + Cardinality(Freshes)
    BY DEF Inv, Places
  <2>5. QED
    BY <2>1, <2>2, <2>3, <2>4, ChatAssumption DEF AtCreate
<1>2. QED
  BY <1>1, InvAlways, PTL

\* Every thread serves the connection it was created for, alone, for any number
\* of connections, threads and descriptors (client_handle.c:24-60).
THEOREM HandedOffAlways == Safety => []HandedOff
<1>1. Hands /\ Line => HandedOff
  BY DEF Hands, Line, HandedOff, Holders
<1>2. QED
  BY <1>1, InvAlways, PTL DEF Inv

-----------------------------------------------------------------------------
(* The admission that the server implements. *)

Live == {"up", "fin", "rst"}

\* A descriptor refers to a connection that nobody has refused or closed, and no
\* two of them to the same; every place is held for a connection.
Open ==
  /\ \A c \in Conns : InLine(c) => link[c] \in Live
  /\ \A d \in Fds : file[d] \in Conns => link[file[d]] \in Live
  /\ \A d, e \in Fds : file[d] \in Conns /\ file[d] = file[e] => d = e
  /\ \A t \in Threads : pc[t] \in Inside => of[t] \in Conns

LEMMA OpenInit == Init => Open
  BY ChatAssumption DEF Init, Open, InLine, Senders, Inside, Own, Chat

\* Closing a descriptor changes the connection it refers to, and no other.
LEMMA OpenClose ==
  ASSUME Types, Line, Open, NEW d \in Fds, file[d] \in Conns, NEW s,
         CloseFd(d, s), UNCHANGED backlog
  PROVE  /\ \A c \in Conns : InLine(c)' => link'[c] \in Live
         /\ \A e \in Fds : file'[e] \in Conns => link'[file'[e]] \in Live
         /\ \A e, f \in Fds : file'[e] \in Conns /\ file'[e] = file'[f] => e = f
         /\ \A c \in Conns : link'[c] = IF c = file[d] THEN s ELSE link[c]
         /\ link[file[d]] \in Live
<1> USE ChatAssumption DEF Types
<1>1. file' = [file EXCEPT ![d] = NoConn]
  BY DEF CloseFd
<1>2. \A c \in Conns : link'[c] = IF c = file[d] THEN s ELSE link[c]
  BY DEF CloseFd
<1>3. \A c \in Conns : InLine(c)' => InLine(c) /\ c # file[d]
  BY DEF InLine, Line
<1>4. \A e \in Fds : file'[e] \in Conns => e # d /\ file'[e] = file[e] /\ file[e] # file[d]
  BY <1>1 DEF Open
<1>5. QED
  BY <1>1, <1>2, <1>3, <1>4 DEF Open

LEMMA OpenStep == Types /\ Hands /\ Line /\ Open /\ [Next]_vars => Open'
<1> SUFFICES ASSUME Types, Hands, Line, Open, [Next]_vars PROVE Open'
  OBVIOUS
<1> USE ChatAssumption DEF AccAt, At, net, thr, acceptor
<1>0. /\ Threads \subseteq Senders /\ NoConn \notin Conns
      /\ pc \in [Senders -> Inside \cup {"free"}]
      /\ of \in [Senders -> Conns \cup {NoConn}]
      /\ file \in [Fds -> Conns \cup {NoConn}] /\ backlog \in Seq(Conns)
      /\ link \in [Conns -> {"idle", "up", "fin", "rst", "gone", "refused"}]
  BY DEF Types, Senders
<1>1. CASE UNCHANGED <<file, link, backlog, of>>
             /\ \A t \in Threads : pc'[t] \in Inside => pc[t] \in Inside
  BY <1>1 DEF InLine, Open
<1>2. ASSUME NEW c \in Conns, Connect(c) PROVE Open'
  <2>1. /\ link[c] = "idle" /\ link' = [link EXCEPT ![c] = "up"]
        /\ backlog' = Append(backlog, c) /\ UNCHANGED <<file, pc, of>>
    BY <1>2 DEF Connect
  <2>2. Len(backlog) \in Nat /\ Len(backlog') = Len(backlog) + 1
        /\ backlog'[Len(backlog) + 1] = c
        /\ \A i \in 1..Len(backlog) : backlog'[i] = backlog[i]
    BY <1>0, <2>1
  <2>3. \A e \in Conns : InLine(e)' => InLine(e) \/ e = c
    BY <2>2 DEF InLine
  <2>4. \A d \in Fds : file[d] # c
    BY <2>1 DEF Line
  <2>5. QED
    BY <1>0, <2>1, <2>3, <2>4 DEF Open, Live
<1>3. ASSUME NEW c \in Conns, Hangup(c) PROVE Open'
  <2>1. UNCHANGED <<file, backlog, pc, of>> /\ \A e \in Conns : link[e] \in Live => link'[e] \in Live
    BY <1>0, <1>3 DEF Hangup, Live
  <2>2. QED
    BY <1>0, <2>1 DEF Open, InLine
<1>4. CASE Accept
  <2>1. backlog # <<>> /\ backlog' = Tail(backlog) /\ UNCHANGED <<link, pc, of>>
    BY <1>4 DEF Accept
  <2>2. PICK d \in Fds : file' = [file EXCEPT ![d] = Head(backlog)]
    BY <1>4 DEF Accept
  <2>3. /\ Len(backlog) \in Nat \ {0} /\ Len(backlog') = Len(backlog) - 1
        /\ Head(backlog) = backlog[1] /\ backlog[1] \in Conns
        /\ \A i \in 1..Len(backlog') : backlog'[i] = backlog[i + 1]
    BY <1>0, <2>1
  <2>4. InLine(backlog[1]) /\ \A e \in Conns : InLine(e)' => InLine(e)
    BY <2>3 DEF InLine
  <2>5. \A e \in Fds : file[e] # backlog[1]
    BY <2>3, <2>4 DEF Line
  <2>6. QED
    BY <1>0, <2>1, <2>2, <2>3, <2>4, <2>5 DEF Open
<1>5. CASE \E s : acc \in {"try", "create"} /\ CloseFd(newClient, s)
             /\ UNCHANGED <<backlog, thr>>
  <2>1. newClient \in Fds /\ file[newClient] \in Conns
    BY <1>5 DEF Hands
  <2>2. QED
    BY <1>5, <2>1, OpenClose DEF Open
<1>6. ASSUME NEW t \in Threads, Create(t) PROVE Open'
  <2>1. file[newClient] \in Conns
    BY <1>6 DEF Create, Hands
  <2>2. QED
    BY <1>0, <1>6, <2>1 DEF Create, Open, InLine
<1>7. ASSUME NEW t \in Senders, Handler(t) PROVE Open'
  BY <1>0, <1>1, <1>7, HandlerMoves DEF Quiet, Inside
<1>8. ASSUME NEW t \in Threads, ReadArg(t) \/ Post(t) \/ DelUser(t) PROVE Open'
  BY <1>0, <1>1, <1>8 DEF ReadArg, Post, DelUser, Goto, Inside, Own, Chat
<1>9. ASSUME NEW t \in Threads, CloseSocket(t) PROVE Open'
  <2>1. /\ pc[t] = "close" /\ pc' = [pc EXCEPT ![t] = "del"]
        /\ CloseFd(sock[t], "gone") /\ UNCHANGED <<backlog, of>>
    BY <1>9 DEF CloseSocket, Goto
  <2>2. sock[t] \in Fds /\ file[sock[t]] \in Conns
    BY <2>1 DEF Hands, Own
  <2>3. \A u \in Threads : pc'[u] \in Inside => pc[u] \in Inside
    BY <1>0, <2>1 DEF Inside, Own
  <2>4. QED
    BY <2>1, <2>2, <2>3, OpenClose DEF Open
<1>10. ASSUME NEW t \in Threads, FreeSlot(t) PROVE Open'
  BY <1>0, <1>10 DEF FreeSlot, Goto, Open, InLine, Inside, Own, Chat
<1>11. CASE UNCHANGED vars \/ AcceptFails \/ UNCHANGED <<net, thr>>
  BY <1>1, <1>11 DEF vars, AcceptFails
<1>12. QED
  BY <1>2, <1>3, <1>4, <1>5, <1>6, <1>7, <1>8, <1>9, <1>10, <1>11
  DEF Next, AcceptThread, ClientThread, Senders, TurnAway, CreateFails,
      AcceptInit, SemWait, TryWait, AddUser

LEMMA AllAlways == Safety => [](Inv /\ Open)
<1>1. Init => Open
  BY OpenInit
<1>2. Inv /\ Open /\ [Next]_vars => Open'
  BY OpenStep DEF Inv
<1>3. QED
  BY <1>1, <1>2, InvAlways, PTL DEF Safety

\* Who is inside: as many connections as threads that hold a place, and the one
\* a thread is about to be created for.
LEMMA AdmittedCount ==
  ASSUME Inv, Open
  PROVE  Cardinality(Admitted) = Cardinality(Holders) + AtCreate
         /\ Cardinality(Holders) \in Nat
<1> DEFINE Served == {of[t] : t \in Holders}
           serves == [t \in Holders |-> of[t]]
<1>1. IsFiniteSet(Holders) /\ Cardinality(Holders) \in Nat
  BY ChatAssumption, FS_Subset, FS_CardinalityType DEF Holders
<1>2. serves \in Bijection(Holders, Served)
  <2>1. \A t, u \in Holders : of[t] = of[u] => t = u
    BY DEF Inv, Line, Holders
  <2>2. QED
    BY <2>1 DEF Bijection, Injection, Surjection, IsInjective
<1>3. IsFiniteSet(Served) /\ Cardinality(Served) = Cardinality(Holders)
  BY <1>1, <1>2, FS_Bijection DEF ExistsBijection
<1>4. CASE acc = "create"
  <2>1. file[newClient] \notin Served
    BY <1>4 DEF Inv, Line, Holders
  <2>2. Admitted = Served \cup {file[newClient]}
    BY <1>4 DEF Admitted
  <2>3. QED
    BY <1>1, <1>3, <1>4, <2>1, <2>2, FS_AddElement DEF AtCreate
<1>5. CASE acc # "create"
  BY <1>1, <1>3, <1>5 DEF Admitted, AtCreate
<1>6. QED
  BY <1>1, <1>4, <1>5

\* While a connection is looked at, the free places are those of member_max.
LEMMA FreeAtTry ==
  ASSUME Inv, Open, acc = "try"
  PROVE  Cardinality(Admitted) = Limits - memberMax /\ memberMax \in Nat
<1>1. /\ Cardinality(Freshes) \in Nat /\ sem \in Nat /\ memberMax \in Nat
      /\ sem + AtTurn + Cardinality(Freshes) <= 1
  BY FewFreshes DEF Inv, Types
<1>2. memberMax + Cardinality(Holders) + AtCreate + 1
        = Limits + sem + AtTurn + Cardinality(Freshes)
  BY DEF Inv, Places
<1>3. AtTurn = 1 /\ AtCreate = 0
  BY DEF AtTurn, Turn, AtCreate
<1>4. QED
  BY <1>1, <1>2, <1>3, AdmittedCount, ChatAssumption

-----------------------------------------------------------------------------
\* The head of the line and the rest of it, when the accept thread looks at one.
LEMMA HeadOfLine ==
  ASSUME NEW c \in Conns, NEW q \in Seq(Conns)
  PROVE  /\ <<c>> \o q # <<>> /\ Head(<<c>> \o q) = c /\ Tail(<<c>> \o q) = q
         /\ <<c>> \o q \in Seq(Conns)
<1>1. <<c>> \in Seq(Conns) /\ Len(<<c>>) = 1 /\ <<c>>[1] = c
  OBVIOUS
<1>2. /\ <<c>> \o q \in Seq(Conns) /\ Len(<<c>> \o q) = 1 + Len(q) /\ Len(q) \in Nat
      /\ \A i \in 1 .. 1 + Len(q) : (<<c>> \o q)[i] = IF i <= 1 THEN <<c>>[i] ELSE q[i - 1]
  BY <1>1, ConcatProperties
<1>3. <<c>> \o q # <<>> /\ Head(<<c>> \o q) = c
  BY <1>1, <1>2
<1>4. /\ Tail(<<c>> \o q) \in Seq(Conns) /\ Len(Tail(<<c>> \o q)) = Len(q)
      /\ \A i \in 1 .. Len(q) : Tail(<<c>> \o q)[i] = (<<c>> \o q)[i + 1]
  BY <1>2, <1>3, HeadTailProperties
<1>5. \A i \in 1 .. Len(q) : Tail(<<c>> \o q)[i] = q[i]
  BY <1>2, <1>4
<1>6. Tail(<<c>> \o q) = q
  BY <1>4, <1>5, SeqEqual
<1>7. QED
  BY <1>2, <1>3, <1>6

LEMMA LastOfLine ==
  ASSUME NEW p \in Seq(Conns), NEW q \in Seq(Conns), NEW c \in Conns
  PROVE  p \o Append(q, c) = Append(p \o q, c)
<1>1. <<c>> \in Seq(Conns) /\ p \o q \in Seq(Conns)
  BY ConcatProperties
<1>2. Append(q, c) = q \o <<c>> /\ Append(p \o q, c) = (p \o q) \o <<c>>
  BY <1>1, AppendIsConcat
<1>3. QED
  BY <1>1, <1>2, ConcatAssociative

LEMMA NextOfLine ==
  ASSUME NEW q \in Seq(Conns), q # <<>>
  PROVE  <<Head(q)>> \o Tail(q) = q
<1>1. Head(q) \in Conns /\ Tail(q) \in Seq(Conns) /\ Len(Tail(q)) = Len(q) - 1
      /\ \A i \in 1 .. Len(Tail(q)) : Tail(q)[i] = q[i + 1]
  BY HeadTailProperties
<1>2. <<Head(q)>> \in Seq(Conns) /\ Len(<<Head(q)>>) = 1 /\ <<Head(q)>>[1] = Head(q)
  BY <1>1
<1>3. Len(q) \in Nat \ {0} /\ Head(q) = q[1]
  BY EmptySeq
<1>4. /\ <<Head(q)>> \o Tail(q) \in Seq(Conns) /\ Len(<<Head(q)>> \o Tail(q)) = Len(q)
      /\ \A i \in 1 .. Len(q) : (<<Head(q)>> \o Tail(q))[i]
            = IF i <= 1 THEN <<Head(q)>>[i] ELSE Tail(q)[i - 1]
  BY <1>1, <1>2, <1>3, ConcatProperties
<1>5. \A i \in 1 .. Len(q) : (<<Head(q)>> \o Tail(q))[i] = q[i]
  BY <1>1, <1>2, <1>3, <1>4
<1>6. QED
  BY <1>4, <1>5, SeqEqual

LEMMA SameLine ==
  ASSUME NEW q \in Seq(Conns)
  PROVE  <<>> \o q = q
BY ConcatEmptySeq

\* What the abstract line and places are in a step that leaves them alone.
LEMMA Stutters ==
  ASSUME UNCHANGED <<running, newClient, file, backlog>>,
         acc' = acc \/ {acc, acc'} \cap {"try", "create"} = {},
         Refusals' = Refusals, \A t \in Threads : pc'[t] \in Inside <=> pc[t] \in Inside,
         UNCHANGED of
  PROVE  UNCHANGED A!avars
<1>1. Holders' = Holders
  BY DEF Holders
<1>2. Deciding' = Deciding /\ Admitted' = Admitted
  BY <1>1 DEF Deciding, Admitted
<1>3. QED
  BY <1>2 DEF A!avars

LEMMA AdmissionInit == Init => A!AInit
<1> SUFFICES ASSUME Init PROVE A!AInit
  OBVIOUS
<1> USE ChatAssumption DEF Init
<1>1. Holders = {}
  BY DEF Holders, Senders, Inside, Own, Chat
<1>2. Admitted = {} /\ Refusals = {}
  BY <1>1 DEF Admitted, Refusals
<1>3. Deciding \o backlog = <<>>
  BY SameLine DEF Deciding
<1>4. QED
  BY <1>2, <1>3 DEF A!AInit

LEMMA AdmissionStep == Inv /\ Open /\ [Next]_vars => [A!ANext]_(A!avars)
<1> SUFFICES ASSUME Inv, Open, [Next]_vars PROVE [A!ANext]_(A!avars)
  OBVIOUS
<1> USE ChatAssumption DEF AccAt, At, net, thr, acceptor
<1>0. /\ Threads \subseteq Senders /\ NoConn \notin Conns
      /\ pc \in [Senders -> Inside \cup {"free"}]
      /\ of \in [Senders -> Conns \cup {NoConn}]
      /\ file \in [Fds -> Conns \cup {NoConn}] /\ backlog \in Seq(Conns)
      /\ link \in [Conns -> {"idle", "up", "fin", "rst", "gone", "refused"}]
  BY DEF Inv, Types, Senders
<1>1. ASSUME NEW c \in Conns, Connect(c) PROVE A!ANext
  <2>1. /\ running /\ link' = [link EXCEPT ![c] = "up"] /\ backlog' = Append(backlog, c)
        /\ UNCHANGED <<running, acc, newClient, file, thr>> /\ link[c] = "idle"
    BY <1>1 DEF Connect
  <2>2. Deciding \in Seq(Conns) /\ Deciding' = Deciding
    BY <2>1 DEF Deciding, Inv, Hands
  <2>3. Deciding' \o backlog' = Append(Deciding \o backlog, c)
    BY <1>0, <2>1, <2>2, LastOfLine
  <2>4. Refusals' = Refusals
    BY <1>0, <2>1 DEF Refusals
  <2>5. Admitted' = Admitted
    BY <2>1 DEF Admitted, Holders
  <2>6. A!Arrive(c)
    BY <2>1, <2>3, <2>4, <2>5 DEF A!Arrive
  <2>7. QED
    BY <2>1, <2>6 DEF A!ANext
<1>2. ASSUME NEW c \in Conns, Hangup(c) PROVE UNCHANGED A!avars
  <2>1. Refusals' = Refusals
    BY <1>0, <1>2 DEF Hangup, Refusals
  <2>2. QED
    BY <1>2, <2>1, Stutters DEF Hangup
<1>3. CASE AcceptInit \/ SemWait \/ AddUser
  <2>1. UNCHANGED <<running, newClient, file, link, backlog, pc, of>>
        /\ acc \in {"init", "wait", "add"} /\ acc' \in {"wait", "accept"}
    BY <1>3 DEF AcceptInit, SemWait, AddUser
  <2>2. Refusals' = Refusals
    BY <2>1 DEF Refusals
  <2>3. QED
    BY <2>1, <2>2, Stutters
<1>4. CASE Accept
  <2>1. /\ acc = "accept" /\ acc' = "try" /\ backlog # <<>> /\ backlog' = Tail(backlog)
        /\ UNCHANGED <<running, link, thr>>
    BY <1>4 DEF Accept
  <2>2. PICK d \in Fds : newClient' = d /\ file' = [file EXCEPT ![d] = Head(backlog)]
    BY <1>4 DEF Accept
  <2>3. Deciding = <<>> /\ Deciding' = <<Head(backlog)>>
    BY <1>0, <2>1, <2>2 DEF Deciding
  <2>4. Deciding' \o backlog' = Deciding \o backlog
    BY <1>0, <2>1, <2>3, NextOfLine, SameLine
  <2>5. Admitted' = Admitted /\ Refusals' = Refusals
    BY <2>1 DEF Admitted, Holders, Refusals
  <2>6. QED
    BY <2>1, <2>4, <2>5 DEF A!avars
<1>5. CASE AcceptFails
  <2>1. running /\ running' = FALSE /\ UNCHANGED <<acc, newClient, net, thr>>
    BY <1>5 DEF AcceptFails
  <2>2. UNCHANGED <<Deciding \o backlog, Admitted, Refusals>>
    BY <2>1 DEF Deciding, Admitted, Holders, Refusals
  <2>3. QED
    BY <2>1, <2>2 DEF A!ANext, A!Stop
<1>6. CASE TryWait
  <2>1. /\ running /\ acc = "try" /\ acc' = "create" /\ memberMax > 0
        /\ UNCHANGED <<running, newClient, net, thr>>
    BY <1>6 DEF TryWait
  <2>2. file[newClient] \in Conns
    BY <2>1 DEF Inv, Hands
  <2>3. Deciding = <<file[newClient]>> /\ Deciding' = <<>>
    BY <2>1 DEF Deciding
  <2>4. /\ Deciding \o backlog # <<>> /\ Head(Deciding \o backlog) = file[newClient]
        /\ Deciding' \o backlog' = Tail(Deciding \o backlog)
    BY <1>0, <2>1, <2>2, <2>3, HeadOfLine, SameLine
  <2>5. Admitted' = Admitted \cup {file[newClient]} /\ Refusals' = Refusals
    BY <2>1 DEF Admitted, Holders, Refusals
  <2>6. Cardinality(Admitted) < Limits
    BY <2>1, FreeAtTry
  <2>7. A!Admit
    BY <2>1, <2>4, <2>5, <2>6 DEF A!Admit, Cardinality, A!Cardinality, IsFiniteSet, A!IsFiniteSet
  <2>8. QED
    BY <2>1, <2>7 DEF A!ANext, A!Decide
<1>7. CASE TurnAway
  <2>1. /\ running /\ acc = "try" /\ memberMax = 0 /\ UNCHANGED <<newClient, thr>>
    BY <1>7 DEF TurnAway
  <2>2. newClient \in Fds /\ file[newClient] \in Conns
    BY <2>1 DEF Inv, Hands
  <2>3. CASE CloseFd(newClient, "refused") /\ acc' = "wait" /\ UNCHANGED <<running, backlog>>
    <3>1. Deciding = <<file[newClient]>> /\ Deciding' = <<>>
      BY <2>1, <2>3 DEF Deciding
    <3>2. /\ Deciding \o backlog # <<>> /\ Head(Deciding \o backlog) = file[newClient]
          /\ Deciding' \o backlog' = Tail(Deciding \o backlog)
      BY <1>0, <2>2, <2>3, <3>1, HeadOfLine, SameLine
    <3>3. \A c \in Conns : link'[c] = IF c = file[newClient] THEN "refused" ELSE link[c]
      BY <2>2, <2>3 DEF CloseFd
    <3>4. Refusals' = Refusals \cup {file[newClient]}
      BY <2>2, <3>3 DEF Refusals
    <3>5. Admitted' = Admitted
      BY <2>1, <2>3 DEF Admitted, Holders
    <3>6. Cardinality(Admitted) = Limits
      BY <2>1, FreeAtTry
    <3>7. A!Refuse
      BY <2>3, <3>2, <3>4, <3>5, <3>6
      DEF A!Refuse, Cardinality, A!Cardinality, IsFiniteSet, A!IsFiniteSet
    <3>8. QED
      BY <2>1, <3>7 DEF A!ANext, A!Decide
  <2>4. CASE running' = FALSE /\ UNCHANGED <<acc, net>>
    <3>1. UNCHANGED <<Deciding \o backlog, Admitted, Refusals>>
      BY <2>1, <2>4 DEF Deciding, Admitted, Holders, Refusals
    <3>2. QED
      BY <2>1, <2>4, <3>1 DEF A!ANext, A!Stop
  <2>5. QED
    BY <1>7, <2>3, <2>4 DEF TurnAway
<1>8. ASSUME NEW t \in Threads, Create(t) PROVE UNCHANGED A!avars
  <2>1. /\ pc[t] = "free" /\ pc' = [pc EXCEPT ![t] = "start"]
        /\ of' = [of EXCEPT ![t] = file[newClient]]
        /\ acc = "create" /\ acc' = "add" /\ UNCHANGED <<running, newClient, net>>
    BY <1>8 DEF Create
  <2>2. \A u \in Threads : u \in Holders' <=> u = t \/ u \in Holders
    BY <1>0, <2>1 DEF Holders, Inside, Own, Chat
  <2>3. t \notin Holders /\ Holders' = Holders \cup {t}
    BY <2>1, <2>2 DEF Holders, Inside, Own, Chat
  <2>4. of'[t] = file[newClient] /\ \A u \in Holders : of'[u] = of[u]
    BY <1>0, <2>1, <2>3 DEF Holders
  <2>5. Admitted' = Admitted
    BY <2>1, <2>3, <2>4 DEF Admitted
  <2>6. Deciding' = Deciding /\ Refusals' = Refusals
    BY <2>1 DEF Deciding, Refusals
  <2>7. QED
    BY <2>1, <2>5, <2>6 DEF A!avars
<1>9. CASE CreateFails
  <2>1. /\ running /\ acc = "create" /\ acc' = "add" /\ CloseFd(newClient, "gone")
        /\ UNCHANGED <<running, newClient, backlog, thr>>
    BY <1>9 DEF CreateFails
  <2>2. newClient \in Fds /\ file[newClient] \in Conns
    BY <2>1 DEF Inv, Hands
  <2>3. link[file[newClient]] \in Live
    BY <2>2 DEF Open
  <2>4. \A c \in Conns : link'[c] = IF c = file[newClient] THEN "gone" ELSE link[c]
    BY <2>1, <2>2 DEF CloseFd
  <2>5. Refusals' = Refusals
    BY <2>3, <2>4 DEF Refusals, Live
  <2>6. \A t \in Holders : of[t] # file[newClient]
    BY <2>1 DEF Inv, Line, Holders
  <2>7. /\ Admitted = {of[t] : t \in Holders} \cup {file[newClient]}
        /\ Admitted' = {of[t] : t \in Holders}
    BY <2>1 DEF Admitted, Holders
  <2>8. file[newClient] \in Admitted /\ Admitted' = Admitted \ {file[newClient]}
    BY <2>6, <2>7
  <2>9. Deciding' = Deciding
    BY <2>1 DEF Deciding
  <2>10. A!Leave(file[newClient])
    BY <2>1, <2>5, <2>8, <2>9 DEF A!Leave
  <2>11. QED
    BY <2>1, <2>2, <2>10 DEF A!ANext
<1>10. ASSUME NEW t \in Senders, Handler(t) PROVE [A!ANext]_(A!avars)
  <2>1. /\ UNCHANGED <<acc, newClient, file, link, backlog, of>> /\ running' \in {running, FALSE}
    BY <1>10, HandlerMoves DEF Inv
  <2>2. \A u \in Threads : pc'[u] \in Inside <=> pc[u] \in Inside
    BY <1>0, <1>10, HandlerMoves DEF Inv, Quiet, Inside
  <2>3. UNCHANGED <<Deciding \o backlog, Admitted, Refusals>>
    BY <2>1, <2>2 DEF Deciding, Admitted, Holders, Refusals
  <2>4. running \in BOOLEAN
    BY DEF Inv, Types
  <2>5. CASE running' = running
    BY <2>3, <2>5 DEF A!avars
  <2>6. CASE running /\ running' = FALSE
    BY <2>3, <2>6 DEF A!ANext, A!Stop
  <2>7. QED
    BY <2>1, <2>4, <2>5, <2>6
<1>11. ASSUME NEW t \in Threads, ReadArg(t) \/ Post(t) \/ DelUser(t) PROVE UNCHANGED A!avars
  <2>1. /\ UNCHANGED <<running, acc, newClient, file, link, backlog, of>>
        /\ \A u \in Threads : pc'[u] \in Inside <=> pc[u] \in Inside
    BY <1>0, <1>11 DEF ReadArg, Post, DelUser, Goto, Inside, Own, Chat
  <2>2. Refusals' = Refusals
    BY <2>1 DEF Refusals
  <2>3. QED
    BY <2>1, <2>2, Stutters
<1>12. ASSUME NEW t \in Threads, CloseSocket(t) PROVE UNCHANGED A!avars
  <2>1. /\ pc[t] = "close" /\ pc' = [pc EXCEPT ![t] = "del"] /\ CloseFd(sock[t], "gone")
        /\ UNCHANGED <<running, acc, newClient, backlog, of>>
    BY <1>12 DEF CloseSocket, Goto
  <2>2. sock[t] \in Fds /\ file[sock[t]] \in Conns /\ link[file[sock[t]]] \in Live
    BY <2>1 DEF Inv, Hands, Own, Open
  <2>3. \A c \in Conns : link'[c] = IF c = file[sock[t]] THEN "gone" ELSE link[c]
    BY <2>1, <2>2 DEF CloseFd
  <2>4. Refusals' = Refusals
    BY <2>2, <2>3 DEF Refusals, Live
  <2>5. Holders' = Holders
    BY <1>0, <2>1 DEF Holders, Inside, Own
  <2>6. acc \in {"try", "create"} => file'[newClient] = file[newClient]
    BY <1>0, <2>1 DEF Inv, Hands, CloseFd, Own
  <2>7. Deciding' = Deciding /\ Admitted' = Admitted
    BY <2>1, <2>5, <2>6 DEF Deciding, Admitted
  <2>8. QED
    BY <2>1, <2>4, <2>7 DEF A!avars
<1>13. ASSUME NEW t \in Threads, FreeSlot(t) PROVE A!ANext
  <2>1. /\ running /\ pc[t] = "slot" /\ pc' = [pc EXCEPT ![t] = "free"]
        /\ of' = [of EXCEPT ![t] = NoConn]
        /\ UNCHANGED <<running, acc, newClient, file, link, backlog>>
    BY <1>13 DEF FreeSlot, Goto
  <2>2. t \in Holders /\ of[t] \in Conns
    BY <2>1 DEF Holders, Inside, Open
  <2>3. \A u \in Threads : u \in Holders' <=> u # t /\ u \in Holders
    BY <1>0, <2>1 DEF Holders, Inside, Own, Chat
  <2>4. Holders' = Holders \ {t}
    BY <2>3 DEF Holders
  <2>5. \A u \in Holders' : of'[u] = of[u]
    BY <1>0, <2>1, <2>4 DEF Holders
  <2>6. \A u \in Holders : of[u] = of[t] => u = t
    BY <2>2 DEF Inv, Line, Holders
  <2>7. acc = "create" => of[t] # file[newClient]
    BY <2>2 DEF Inv, Line, Holders
  <2>8. of[t] \in Admitted /\ Admitted' = Admitted \ {of[t]}
    BY <2>1, <2>2, <2>4, <2>5, <2>6, <2>7 DEF Admitted
  <2>9. Deciding' = Deciding /\ Refusals' = Refusals
    BY <2>1 DEF Deciding, Refusals
  <2>10. A!Leave(of[t])
    BY <2>1, <2>8, <2>9 DEF A!Leave
  <2>11. QED
    BY <2>1, <2>2, <2>10 DEF A!ANext
<1>14. CASE UNCHANGED vars
  <2>1. UNCHANGED <<running, acc, newClient, net, thr>>
    BY <1>14 DEF vars
  <2>2. UNCHANGED <<Deciding \o backlog, Admitted, Refusals>>
    BY <2>1 DEF Deciding, Admitted, Holders, Refusals
  <2>3. QED
    BY <2>1, <2>2 DEF A!avars
<1>15. QED
  BY <1>1, <1>2, <1>3, <1>4, <1>5, <1>6, <1>7, <1>8, <1>9, <1>10, <1>11, <1>12, <1>13, <1>14
  DEF Next, AcceptThread, ClientThread, Senders

\* The server implements its admission, for every number of connections, threads,
\* descriptors and places: connections are decided in the order they arrived, no
\* more than Limits are inside, one is refused only while they are, and whoever is
\* admitted stays inside until its own thread ends (client_handle.c:23-42, 74-77).
THEOREM AdmissionSafeAlways == Safety => AdmissionSafe
<1>1. Init => A!AInit
  BY AdmissionInit
<1>2. Inv /\ Open /\ [Next]_vars => [A!ANext]_(A!avars)
  BY AdmissionStep
<1>3. QED
  BY <1>1, <1>2, AllAlways, PTL DEF Safety, AdmissionSafe, A!Safe
=============================================================================
