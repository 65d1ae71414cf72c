------------------------------ MODULE Programs ------------------------------
(***************************************************************************)
(* The smaller programs for TLC: those over System V semaphores and        *)
(* message queues, the older chat servers, the TCP client, the UDP peers   *)
(* and the contacts.  A behaviour is one of a single one, chosen at the    *)
(* start; the variables of the others are "none".                          *)
(***************************************************************************)
EXTENDS Naturals

CONSTANTS Processes, Increments, MayKill, Capacity, Lines, Clients, Texts, Most

ASSUME ProgramsAssumption ==
  /\ Increments \in Nat /\ MayKill \in BOOLEAN
  /\ Lines \in Nat /\ Capacity \in Nat \ {0} /\ Clients \in Nat

VARIABLES program,
          key, sets, val, shm,                      \* ForkCounter, Mailbox
          undo, semid, n, reg, ignored,             \* ForkCounter
          pc,                                       \* and OlderChat, Contacts
          a, b, ida, idb, printed, late,            \* Mailbox
          typed,                                    \* and QueuePeers, TcpClient, UdpPeers
          reads,                                    \* QueuePeers, UdpPeers
          queue, msg,                               \* QueuePeers
          shown, spc, rpc,                          \* and TcpClient, UdpPeers
          version, buffer,                          \* OlderChat, TcpClient
          link, apc, sem, new, sock,                 \* OlderChat
          users, todo, texts,
          mpc, done, conn, eof, told, down, up,     \* TcpClient
          mode, addr, net, text, got, live,         \* UdpPeers
          exists, file, list, rest, out, freed, harmed  \* Contacts

\* Two letters, one of them small and capital, and the name of the head.
Names == [letter : {1}, upper : BOOLEAN] \cup
           {[letter |-> 0, upper |-> TRUE], [letter |-> 2, upper |-> TRUE]}

Fork == INSTANCE ForkCounter WITH Programs <- Processes
Mail == INSTANCE Mailbox
Queue == INSTANCE QueuePeers
Chat == INSTANCE OlderChat WITH N <- Clients
Client == INSTANCE TcpClient
Udp == INSTANCE UdpPeers WITH Sends <- Lines
Book == INSTANCE Contacts

semVars == <<key, sets, val, shm>>
forkVars == <<undo, semid, n, reg, ignored>>
mailVars == <<a, b, ida, idb, printed, late>>
queueVars == <<queue, msg>>
bothVars == <<version, buffer>>
chatVars == <<link, apc, sem, new, sock, users, todo, texts>>
clientVars == <<mpc, done, conn, eof, told, down, up>>
udpVars == <<mode, addr, net, text, got, live>>
bookVars == <<exists, file, list, rest, out, freed, harmed>>
vars == <<program, semVars, forkVars, pc, mailVars, typed, reads, queueVars, shown,
          spc, rpc, bothVars, chatVars, clientVars, udpVars, bookVars>>

None(v) == v = "none"
NoSem == None(key) /\ None(sets) /\ None(val) /\ None(shm)
NoFork == None(undo) /\ None(semid) /\ None(n) /\ None(reg) /\ None(ignored)
NoMail == /\ None(a) /\ None(b) /\ None(ida) /\ None(idb)
          /\ None(printed) /\ None(late)
NoQueue == None(queue) /\ None(msg)
NoBoth == None(version) /\ None(buffer)
NoChat == /\ None(link) /\ None(apc) /\ None(sem) /\ None(new) /\ None(sock)
          /\ None(users) /\ None(todo) /\ None(texts)
NoClient == /\ None(mpc) /\ None(done) /\ None(conn) /\ None(eof) /\ None(told)
            /\ None(down) /\ None(up)
NoUdp == None(mode) /\ None(addr) /\ None(net) /\ None(text) /\ None(got) /\ None(live)
NoBook == /\ None(exists) /\ None(file) /\ None(list) /\ None(rest) /\ None(out)
          /\ None(freed) /\ None(harmed)
NoIpc == NoSem /\ NoFork /\ NoMail /\ NoQueue
NoPeer == NoBoth /\ NoChat /\ NoClient /\ NoUdp
NoTalk == None(typed) /\ None(reads) /\ None(shown) /\ None(spc) /\ None(rpc)

Init ==
  \/ /\ program = "fork" /\ Fork!Init
     /\ NoMail /\ NoQueue /\ NoTalk /\ NoPeer /\ NoBook
  \/ /\ program = "shm" /\ Mail!Init /\ NoFork /\ None(pc) /\ NoQueue
     /\ None(reads) /\ None(shown) /\ None(spc) /\ None(rpc) /\ NoPeer /\ NoBook
  \/ /\ program = "queue" /\ Queue!Init
     /\ NoSem /\ NoFork /\ None(pc) /\ NoMail /\ NoPeer /\ NoBook
  \/ /\ program = "chat" /\ Chat!Init
     /\ NoIpc /\ NoTalk /\ NoClient /\ NoUdp /\ NoBook
  \/ /\ program = "client" /\ Client!Init
     /\ NoIpc /\ None(pc) /\ None(reads) /\ None(rpc) /\ NoChat /\ NoUdp /\ NoBook
  \/ /\ program = "udp" /\ Udp!Init
     /\ NoIpc /\ None(pc) /\ None(shown) /\ NoBoth /\ NoChat /\ NoClient /\ NoBook
  \/ /\ program = "contacts" /\ Book!Init
     /\ NoIpc /\ NoTalk /\ NoPeer

Runs(p, A) == program = p /\ A /\ UNCHANGED program
Ipcs(p, A) == Runs(p, A) /\ UNCHANGED <<bothVars, chatVars, clientVars, udpVars, bookVars>>
Forks(A) == Ipcs("fork", A) /\ UNCHANGED <<mailVars, typed, reads, queueVars, shown, spc, rpc>>
Mails(A) == Ipcs("shm", A) /\ UNCHANGED <<forkVars, pc, reads, queueVars, shown, spc, rpc>>
Queues(A) == Ipcs("queue", A) /\ UNCHANGED <<semVars, forkVars, pc, mailVars>>

Others(p, A) == Runs(p, A) /\ UNCHANGED <<semVars, forkVars, mailVars, queueVars>>
Chats(A) == /\ Others("chat", A)
            /\ UNCHANGED <<typed, reads, shown, spc, rpc, clientVars, udpVars, bookVars>>
Clienting(A) == /\ Others("client", A)
                /\ UNCHANGED <<pc, reads, rpc, chatVars, udpVars, bookVars>>
Udps(A) == /\ Others("udp", A)
           /\ UNCHANGED <<pc, shown, bothVars, chatVars, clientVars, bookVars>>
Books(A) == /\ Others("contacts", A)
            /\ UNCHANGED <<typed, reads, shown, spc, rpc, bothVars, chatVars, clientVars,
                           udpVars>>

Next == \/ Forks(Fork!Next) \/ Mails(Mail!Next) \/ Queues(Queue!Next)
        \/ Chats(Chat!Next) \/ Clienting(Client!Next) \/ Udps(Udp!Next) \/ Books(Book!Next)

Spec == /\ Init /\ [][Next]_vars
        /\ \A x \in Fork!Procs : WF_vars(Forks(Fork!Run(x)))
        /\ WF_vars(Clienting(mpc # "ended" /\ Client!Main))

-----------------------------------------------------------------------------
\* One process at a time is in the critical region and no increment is lost, unless
\* semget or a semop has failed unlooked at; and each process ends, also when the other
\* is killed (6.sem/fork/main.c:27, 53-61).
OneInside == program = "fork" => Fork!OneInside
NothingLost == program = "fork" => Fork!NothingLost
EveryoneEnds == <>(program = "fork" => Fork!Ended)

\* A reader that was ready in time and waits for nothing has printed the last line, if
\* no set was removed and neither semget nor a V failed (shm_a/main.c:30, 52-54,
\* shm_b/main.c:50-51).
CaughtUp == program = "shm" => Mail!CaughtUp

\* While only one side reads its input, the other shows it all in order, and the last
\* line again when the input has ended (a.c:61-71, b.c:60-69).
OneWay == program = "queue" => Queue!OneWay

\* In both older chat servers a thread has the connection it was created for
\* (4.tftp/code/client_handle.c:24-32, 48-53, client_handle(6797).c:20-25, 39-44).
ServesItsOwn == program = "chat" => Chat!ServesItsOwn

\* No thread of the later one sends its own client's blank text to the others, although
\* all use one buffer (4.tftp/code/msg_handle.c:25-29).
BlankKept == program = "chat" => Chat!BlankKept

\* What is typed arrives and what the server tells is printed, in order and nothing
\* else, while both go on (1.tcp_client/main.c:16-26, 101-112).
FullDuplex == program = "client" => Client!FullDuplex

\* When the server closes the connection the client ends (1.tcp_client/main.c:101-114).
ClientEnds == program = "client" /\ conn \in {"fin", "rst"}
                ~> (program = "client" => mpc = "ended")

\* A process prints with an address what was typed at a process that has it
\* (3.udp/main.c:95-113, broadcast/main.c:82-100).
NameIsTypist == program = "udp" => Udp!NameIsTypist

\* The file of contacts is in order at every moment (contacts.c:69-76, 131-144).
Sorted == program = "contacts" => Book!Sorted

\* When the program ends by its menu or by a signal that meets a whole list, and the
\* file can be opened and written, it has all of the list (contacts.c:81-100,
\* main.c:13-18).
Saved == program = "contacts" => Book!Saved
=============================================================================
