--------------------------- MODULE Programs_proofs ---------------------------
(***************************************************************************)
(* Invariants of the smaller programs for all values of their parameters.  *)
(***************************************************************************)
EXTENDS Programs, Integers, FiniteSetTheorems, SequenceTheorems, WellFoundedInduction, TLAPS

-----------------------------------------------------------------------------
(* the mailbox of 6.sem/idenpendence *)

MailTypes == key \in Nat /\ sets \in Nat /\ typed \in Nat /\ val \in Nat

\* Each side has the set that exists.
OwnSet == /\ a # "get" => ida = key /\ key # 0
          /\ b # "get" => idb = key /\ key # 0

\* As long as a side may still set the semaphore nothing is in it or in the memory.
NothingYet ==
  a \in {"get", "set"} \/ b \in {"get", "set"} =>
    /\ typed = 0 /\ val = 0 /\ printed = 0 /\ shm = 0
    /\ a \in {"get", "set", "read", "gone"}

\* The last line is in the memory, and counted in the semaphore, or printed already.
LastLine ==
  /\ a \in {"read", "V"} => shm = typed
  /\ a = "read" /\ val = 0 /\ b = "P" => printed = typed

MailInv == MailTypes /\ (~late => OwnSet /\ NothingYet /\ LastLine)

LEMMA MailInit == Mail!Init => MailInv
BY DEF Mail!Init, MailInv, MailTypes, OwnSet, NothingYet, LastLine

LEMMA MailStep == MailInv /\ [Mail!Next]_Mail!vars => MailInv'
<1> SUFFICES ASSUME MailInv, [Mail!Next]_Mail!vars PROVE MailInv'
  OBVIOUS
<1> USE DEF MailInv, MailTypes, OwnSet, NothingYet, LastLine,
            Mail!kernel, Mail!writer, Mail!reader
<1>1. CASE Mail!GetA  BY <1>1 DEF Mail!GetA, Mail!Get
<1>2. CASE Mail!SetA  BY <1>2 DEF Mail!SetA, Mail!Set
<1>3. CASE Mail!Read \/ Mail!ReadEnd
  <2>1. ~late' => ~late /\ b \notin {"get", "set"}
    BY <1>3, Zenon DEF Mail!Read, Mail!ReadEnd
  <2>2. /\ a = "read" /\ a' = "copy" /\ typed' \in {typed, typed + 1}
        /\ UNCHANGED <<key, sets, val, ida, b, idb, printed, shm>>
    BY <1>3 DEF Mail!Read, Mail!ReadEnd
  <2> QED  BY <2>1, <2>2
<1>4. CASE Mail!Copy \/ Mail!CopyEnds  BY <1>4 DEF Mail!Copy, Mail!CopyEnds
<1>5. CASE Mail!V \/ Mail!VFails  BY <1>5 DEF Mail!V, Mail!VFails
<1>6. CASE Mail!GetB  BY <1>6 DEF Mail!GetB, Mail!Get
<1>7. CASE Mail!SetB  BY <1>7 DEF Mail!SetB, Mail!Set
<1>8. CASE Mail!P \/ Mail!PFails  BY <1>8 DEF Mail!P, Mail!PFails
<1>9. CASE Mail!PrintLine  BY <1>9 DEF Mail!PrintLine
<1>10. CASE Mail!InterruptA \/ Mail!InterruptB
  BY <1>10 DEF Mail!InterruptA, Mail!InterruptB, Mail!Interrupt
<1>11. CASE Mail!GetAFails \/ Mail!GetBFails
  BY <1>11 DEF Mail!GetAFails, Mail!GetBFails, Mail!GetFails
<1>12. CASE UNCHANGED Mail!vars  BY <1>12 DEF Mail!vars
<1> QED
  BY <1>1, <1>2, <1>3, <1>4, <1>5, <1>6, <1>7, <1>8, <1>9, <1>10, <1>11, <1>12
  DEF Mail!Next, Mail!WriterRuns, Mail!ReaderRuns

-----------------------------------------------------------------------------
(* the older chat servers *)

Places == {"clear", "read", "handle", "tell", "send", "last", "whisper", "warn", "warned",
           "off", "start", "post", "greet", "part", "close", "delete"}
Kinds == Chat!Kinds \cup {"empty", "warning", "greet", "part"}

ChatTypes ==
  /\ version \in {"early", "shared"} /\ pc \in [Chat!Threads -> Places]
  /\ buffer \in [Chat!Threads -> [by : Chat!Threads, kind : Kinds]]
  /\ sock \in [Chat!Threads -> Chat!Threads] /\ sem \in {0, 1} /\ new \in Nat

\* A baton: the semaphore is up, or the acceptor has it, or the newest thread.
New(t) == pc[t] \in {"start", "post"}
ChatBaton ==
  /\ apc \in {"init", "accept"} => sem = 0
  /\ \A t \in Chat!Threads :
       New(t) => t = new /\ sem = 0 /\ apc \notin {"init", "accept"}

\* What a thread has read while it had it.
OwnSocket ==
  /\ sock[Chat!Operator] = Chat!Operator /\ pc[Chat!Operator] \notin {"off", "start", "post"}
  /\ Chat!ServesItsOwn

\* A thread that is past msgHandler has no blank text of its own in the common buffer.
Past(t) == pc[t] \in {"tell", "send", "last"}
OwnBlank(t) == version = "shared" /\ buffer[Chat!Operator] = Chat!Text(sock[t], "blank")
NoOwnBlank == \A t \in Chat!Threads : Past(t) => ~OwnBlank(t)

ChatInv == ChatTypes /\ ChatBaton /\ OwnSocket /\ NoOwnBlank

LEMMA ChatInit == Chat!Init => ChatInv
<1> SUFFICES ASSUME Chat!Init PROVE ChatInv
  OBVIOUS
<1> USE DEF Chat!Init
<1>1. ChatTypes
  BY DEF ChatTypes, Chat!Text, Places, Kinds, Chat!Operator, Chat!Threads
<1>2. ChatBaton /\ OwnSocket
  BY DEF ChatBaton, New, OwnSocket, Chat!ServesItsOwn, Chat!Operator, Chat!Threads, Chat!Client
<1>3. NoOwnBlank  BY DEF NoOwnBlank, Past
<1> QED  BY <1>1, <1>2, <1>3 DEF ChatInv

\* Steps that leave the buffers, the semaphore and the sockets alone.
LEMMA Silent ==
  ASSUME ChatInv, UNCHANGED <<version, buffer, sock, sem, new>>, apc' \in {apc, "exit"},
         pc' \in [Chat!Threads -> Places],
         \A t \in Chat!Threads :
           \/ pc'[t] = pc[t]
           \/ /\ pc[t] \notin {"off", "start"}
              /\ pc'[t] \notin {"start", "post"} /\ (t = Chat!Operator => pc'[t] # "off")
              /\ Past(t)' => Past(t) \/ ~OwnBlank(t)
  PROVE  ChatInv'
<1>1. ChatTypes'  BY DEF ChatInv, ChatTypes
<1>2. ChatBaton'  BY DEF ChatInv, ChatBaton, New, ChatTypes
<1>3. OwnSocket'
  BY DEF ChatInv, OwnSocket, Chat!ServesItsOwn, Chat!Threads, Chat!Operator
<1>4. NoOwnBlank'  BY DEF ChatInv, NoOwnBlank, OwnBlank, Past
<1> QED  BY <1>1, <1>2, <1>3, <1>4 DEF ChatInv

LEMMA SilentGoes ==
  ASSUME ChatInv, UNCHANGED <<version, buffer, sock, sem, new>>, apc' \in {apc, "exit"},
         NEW t \in Chat!Threads, NEW there \in Places, Chat!Goes(t, there),
         pc[t] \notin {"off", "start"}, there \notin {"start", "post"},
         t = Chat!Operator => there # "off",
         there \in {"tell", "send", "last"} => Past(t) \/ ~OwnBlank(t)
  PROVE  ChatInv'
<1>1. pc' \in [Chat!Threads -> Places]  BY DEF ChatInv, ChatTypes, Chat!Goes
<1> QED  BY <1>1, Silent DEF ChatInv, ChatTypes, Chat!Goes, Past

\* A thread writes what is not blank, or is not past msgHandler.
LEMMA Puts ==
  ASSUME ChatInv, NEW t \in Chat!Threads, NEW k \in Kinds, Chat!Puts(t, k),
         UNCHANGED <<version, sock, sem, new, apc>>,
         NEW there \in Places, Chat!Goes(t, there),
         pc[t] \notin {"off", "start", "post"}, there \notin {"off", "start", "post"},
         there \in {"tell", "send", "last"} => k # "blank"
  PROVE  ChatInv'
<1> USE DEF Chat!Text
<1>1. /\ Chat!Operator \in Chat!Threads /\ Chat!Buffer(t) \in Chat!Threads
      /\ buffer' = [buffer EXCEPT ![Chat!Buffer(t)] = [by |-> sock[t], kind |-> k]]
      /\ pc' = [pc EXCEPT ![t] = there]
  BY DEF Chat!Puts, Chat!Buffer, Chat!Threads, Chat!Goes
<1>2. ChatTypes'
  <2>1. [by |-> sock[t], kind |-> k] \in [by : Chat!Threads, kind : Kinds]
    BY DEF ChatInv, ChatTypes
  <2> QED  BY <1>1, <2>1 DEF ChatInv, ChatTypes
<1>3. ChatBaton'  BY <1>1 DEF ChatInv, ChatTypes, ChatBaton, New
<1>4. OwnSocket'
  BY <1>1 DEF ChatInv, ChatTypes, OwnSocket, Chat!ServesItsOwn, Chat!Threads
<1>5. NoOwnBlank'
  <2> SUFFICES ASSUME version = "shared", NEW u \in Chat!Threads, Past(u)'
               PROVE  buffer'[Chat!Operator] # [by |-> sock[u], kind |-> "blank"]
    BY DEF NoOwnBlank, OwnBlank
  <2>1. buffer'[Chat!Operator] = [by |-> sock[t], kind |-> k]
    BY <1>1 DEF ChatInv, ChatTypes, Chat!Buffer
  <2>2. u = t => k # "blank"  BY <1>1 DEF ChatInv, ChatTypes, Past
  <2>3. sock[t] = t /\ sock[u] = u
    BY <1>1, <1>4
    DEF ChatInv, ChatTypes, OwnSocket, Chat!ServesItsOwn, Chat!Threads, Chat!Operator, Past
  <2> QED  BY <2>1, <2>2, <2>3
<1> QED  BY <1>2, <1>3, <1>4, <1>5 DEF ChatInv

LEMMA TalkStep ==
  ASSUME ChatInv, NEW t \in Chat!Threads, Chat!Talk(t)
  PROVE  ChatInv'
<1> USE DEF Chat!server, Places, Kinds, Chat!Kinds
<1>1. CASE Chat!Broadcast(t)
  <2>1. PICK there \in {"clear", "last", "send"} : Chat!Goes(t, there)
    BY <1>1, Zenon DEF Chat!Broadcast
  <2>2. CASE pc[t] = "tell"
    BY <1>1, <2>1, <2>2, SilentGoes DEF Chat!Broadcast, Past
  <2>3. CASE pc[t] \in {"greet", "part"}
    BY <1>1, <2>1, <2>3, Puts DEF Chat!Broadcast
  <2> QED  BY <1>1, <2>2, <2>3 DEF Chat!Broadcast
<1>2. CASE Chat!Send(t)
  <2>1. /\ Past(t) /\ UNCHANGED <<version, buffer, sock, sem, new>> /\ apc' \in {apc, "exit"}
        /\ \E there \in {pc[t], "close", "clear"} : Chat!Goes(t, there)
    BY <1>2 DEF Chat!Send, Chat!Sending, Chat!Reaches, Past
  <2> QED  BY <2>1, SilentGoes DEF Past
<1>3. CASE Chat!EarlyHandler(t)
  BY <1>3, SilentGoes DEF Chat!EarlyHandler, OwnBlank
<1>4. CASE Chat!SharedHandler(t)
  <2>1. /\ version = "shared" /\ pc[t] = "handle"
        /\ UNCHANGED <<version, buffer, sock, sem, new, apc>>
    BY <1>4 DEF Chat!SharedHandler
  <2>2. \/ Chat!Goes(t, "whisper") \/ Chat!Goes(t, "warn")
        \/ Chat!Goes(t, "tell") /\ Chat!Now(t).kind # "blank"
    BY <1>4 DEF Chat!SharedHandler
  <2>3. Chat!Now(t).kind # "blank" => ~OwnBlank(t)
    BY <2>1 DEF Chat!Now, Chat!Buffer, OwnBlank, Chat!Text
  <2> QED  BY <2>1, <2>2, <2>3, SilentGoes
<1>5. CASE Chat!Whisper(t)
  <2>1. UNCHANGED <<version, buffer, sock, sem, new>> /\ apc' \in {apc, "exit"}
    BY <1>5 DEF Chat!Whisper, Chat!Reaches
  <2> QED  BY <1>5, <2>1, SilentGoes DEF Chat!Whisper
<1>6. CASE Chat!Warn(t) \/ Chat!Clear(t)
  BY <1>6, Puts DEF Chat!Warn, Chat!Clear
<1>7. CASE Chat!Warned(t)
  <2>1. UNCHANGED <<version, buffer, sock, sem, new>> /\ apc' \in {apc, "exit"}
    BY <1>7 DEF Chat!Warned, Chat!Reaches
  <2> QED  BY <1>7, <2>1, SilentGoes DEF Chat!Warned
<1>8. CASE Chat!Read(t)
  BY <1>8, Puts DEF Chat!Read, Chat!Kinds
<1> QED
  BY <1>1, <1>2, <1>3, <1>4, <1>5, <1>6, <1>7, <1>8 DEF Chat!Talk

\* The steps that hand the baton on.
LEMMA AcceptorStep == ASSUME ChatInv, Chat!Acceptor PROVE ChatInv'
<1> USE DEF Chat!server, ChatInv, ChatTypes, ChatBaton, OwnSocket, NoOwnBlank, New, Past,
            OwnBlank, Chat!ServesItsOwn
<1>1. CASE Chat!fdsInit  BY <1>1 DEF Chat!fdsInit
<1>2. CASE Chat!Wait  BY <1>2 DEF Chat!Wait
<1>3. CASE Chat!Accept
  <2>1. /\ new' = new + 1 /\ new + 1 \in Chat!Client /\ apc = "accept" /\ apc' = "add"
        /\ pc' = [pc EXCEPT ![new'] = "start"] /\ UNCHANGED <<version, sock, sem, buffer>>
    BY <1>3, ProgramsAssumption DEF Chat!Accept, Chat!AcceptNew, Chat!Goes, Chat!Client
  <2>2. Chat!Operator \notin Chat!Client  BY DEF Chat!Operator, Chat!Client
  <2>3. ChatTypes'  BY <2>1 DEF Places, Chat!Threads
  <2> QED  BY <2>1, <2>2, <2>3 DEF Chat!Threads
<1>4. CASE Chat!CreateFails
  BY <1>4 DEF Chat!CreateFails, Chat!AcceptNew
<1>5. CASE Chat!AcceptFails \/ Chat!Add
  BY <1>5 DEF Chat!AcceptFails, Chat!Add
<1> QED  BY <1>1, <1>2, <1>3, <1>4, <1>5 DEF Chat!Acceptor

LEMMA HandStep ==
  ASSUME ChatInv, NEW c \in Chat!Client, Chat!ReadArg(c) \/ Chat!Post(c)
  PROVE  ChatInv'
<1> USE DEF ChatInv, ChatTypes, ChatBaton, OwnSocket, NoOwnBlank, New, Past, OwnBlank,
            Chat!ServesItsOwn, Chat!Threads, Chat!Goes, Places
<1>1. Chat!Operator \notin Chat!Client  BY DEF Chat!Operator, Chat!Client
<1>2. CASE Chat!ReadArg(c)
  <2>1. /\ pc[c] = "start" /\ new = c /\ sock' = [sock EXCEPT ![c] = c]
        /\ pc' = [pc EXCEPT ![c] = "post"] /\ UNCHANGED <<version, apc, sem, new, buffer>>
    BY <1>2 DEF Chat!ReadArg
  <2> QED  BY <1>1, <2>1
<1>3. CASE Chat!Post(c)
  <2>1. /\ pc[c] = "post" /\ new = c /\ sem' = 1 /\ pc' = [pc EXCEPT ![c] = "greet"]
        /\ apc \notin {"init", "accept"} /\ UNCHANGED <<version, apc, sock, new, buffer>>
    BY <1>3 DEF Chat!Post
  <2> QED  BY <1>1, <2>1
<1> QED  BY <1>2, <1>3

LEMMA ChatStep == ChatInv /\ [Chat!Next]_Chat!vars => ChatInv'
<1> SUFFICES ASSUME ChatInv, [Chat!Next]_Chat!vars PROVE ChatInv'
  OBVIOUS
<1> USE DEF Chat!server, Places
<1>1. CASE Chat!Acceptor  BY <1>1, AcceptorStep
<1>2. ASSUME NEW t \in Chat!Threads, Chat!Talk(t) PROVE ChatInv'
  BY <1>2, TalkStep
<1>3. CASE Chat!ReadEOF
  BY <1>3, SilentGoes DEF Chat!ReadEOF, Chat!Threads
<1>4. ASSUME NEW c \in Chat!Client,
             Chat!ReadEnd(c) \/ Chat!Close(c) \/ Chat!Delete(c)
      PROVE  ChatInv'
  <2>1. c \in Chat!Threads /\ c # Chat!Operator
    BY DEF Chat!Threads, Chat!Operator, Chat!Client
  <2> QED  BY <1>4, <2>1, SilentGoes DEF Chat!ReadEnd, Chat!Close, Chat!Delete
<1>5. ASSUME NEW c \in Chat!Client, Chat!ReadArg(c) \/ Chat!Post(c) PROVE ChatInv'
  BY <1>5, HandStep
<1>6. CASE (\E c \in Chat!Client : Chat!Leave(c)) \/ UNCHANGED Chat!vars
  BY <1>6, Silent DEF Chat!Leave, Chat!vars, ChatInv, ChatTypes, Past
<1> QED
  BY <1>1, <1>2, <1>3, <1>4, <1>5, <1>6
  DEF Chat!Next, Chat!EarlyAcceptor, Chat!SharedAcceptor, Chat!EarlyMain, Chat!SharedMain,
      Chat!EarlyHandling, Chat!SharedHandling, Chat!Main, Chat!Handler, Chat!Threads

-----------------------------------------------------------------------------
(* the UDP peers *)

\* A text that was typed, or is empty, at a process with the address.
TypedAt(from, t) ==
  t[1] \in Udp!Procs /\ addr[t[1]] = from /\ t[2] \in 0 .. typed[t[1]]

UdpTypes ==
  /\ typed \in [Udp!Procs -> Nat] /\ rpc \in [Udp!Procs -> {"recv", "show"}]
  /\ got = [p \in Udp!Procs |-> got[p]] /\ text = [p \in Udp!Procs |-> text[p]]

OwnText == \A p \in Udp!Procs : text[p][1] = p /\ text[p][2] \in 0 .. typed[p]
Living == live \subseteq Udp!Procs
UdpInv ==
  /\ UdpTypes /\ OwnText
  /\ \A d \in net : TypedAt(d.from, d.text)
  /\ \A p \in Udp!Procs : rpc[p] = "show" => TypedAt(got[p].from, got[p].text)

LEMMA UdpInit == Udp!Init => UdpInv /\ Living
BY DEF Udp!Init, UdpInv, Living, UdpTypes, OwnText, Udp!Procs, Udp!Empty

\* What was typed is typed still.
LEMMA TypedStays ==
  ASSUME UdpTypes, NEW p \in Udp!Procs,
         typed' \in {typed, [typed EXCEPT ![p] = @ + 1]}, UNCHANGED addr,
         NEW from, NEW t, TypedAt(from, t)
  PROVE  TypedAt(from, t)'
BY DEF TypedAt, UdpTypes

LEMMA UdpStep == UdpInv /\ Living /\ [Udp!Next]_Udp!vars => UdpInv' /\ Living'
<1> SUFFICES ASSUME UdpInv, Living, [Udp!Next]_Udp!vars PROVE UdpInv' /\ Living'
  OBVIOUS
<1> USE DEF UdpInv
<1>1. ASSUME NEW p \in Udp!Procs, Udp!Gets(p) PROVE UdpInv'
  <2>1. /\ typed' = [typed EXCEPT ![p] = typed[p] + 1]
        /\ text' = [text EXCEPT ![p] = <<p, typed'[p]>>]
        /\ UNCHANGED <<addr, net, rpc, got>>
    BY <1>1 DEF Udp!Gets
  <2>2. UdpTypes' /\ OwnText'  BY <2>1 DEF UdpTypes, OwnText
  <2>3. \A f, t : TypedAt(f, t) => TypedAt(f, t)'  BY <2>1, TypedStays
  <2> QED  BY <2>1, <2>2, <2>3
<1>2. ASSUME UNCHANGED <<addr, net, typed, text, rpc, got>> PROVE UdpInv'
  BY <1>2 DEF UdpTypes, OwnText, TypedAt
<1>3. ASSUME NEW p \in Udp!Procs, Udp!Send(p) PROVE UdpInv'
  <2>1. TypedAt(addr[p], text[p])  BY DEF OwnText, TypedAt
  <2>2. \A d \in net' : TypedAt(d.from, d.text)  BY <1>3, <2>1 DEF Udp!Send
  <2>3. UNCHANGED <<addr, typed, text, rpc, got>>  BY <1>3 DEF Udp!Send
  <2> QED  BY <2>2, <2>3 DEF UdpTypes, OwnText, TypedAt
<1>4. ASSUME NEW p \in Udp!Procs, Udp!Recv(p) PROVE UdpInv'
  <2>1. PICK d \in net : got' = [got EXCEPT ![p] = d] /\ net' \in {net, net \ {d}}
    BY <1>4 DEF Udp!Recv
  <2>2. rpc' = [rpc EXCEPT ![p] = "show"] /\ UNCHANGED <<addr, typed, text>>
    BY <1>4 DEF Udp!Recv
  <2>3. UdpTypes' /\ OwnText'  BY <2>1, <2>2 DEF UdpTypes, OwnText
  <2>4. \A q \in Udp!Procs : got'[q] = IF q = p THEN d ELSE got[q]
    BY <2>1 DEF UdpTypes
  <2>5. \A q \in Udp!Procs \ {p} : rpc'[q] = rpc[q]  BY <2>2 DEF UdpTypes
  <2>6. \A f, t : TypedAt(f, t)' <=> TypedAt(f, t)  BY <2>2 DEF TypedAt
  <2> QED  BY <2>1, <2>3, <2>4, <2>5, <2>6
<1>5. ASSUME NEW p \in Udp!Procs, Udp!Show(p) PROVE UdpInv'
  BY <1>5 DEF Udp!Show, UdpTypes, OwnText, TypedAt
<1>6. ASSUME Udp!Lose PROVE UdpInv'
  BY <1>6 DEF Udp!Lose, UdpTypes, OwnText, TypedAt
<1>7. ASSUME NEW p \in live, Udp!Process(p) PROVE UdpInv'
  <2>1. p \in Udp!Procs  BY DEF Living
  <2>2. CASE Udp!GetsEnd(p) \/ Udp!Fail(p)
    BY <1>2, <2>2 DEF Udp!GetsEnd, Udp!Fail
  <2> QED  BY <1>7, <1>1, <1>3, <1>4, <1>5, <2>1, <2>2 DEF Udp!Process
<1>8. ASSUME UNCHANGED Udp!vars PROVE UdpInv'
  BY <1>2, <1>8 DEF Udp!vars
<1>9. Udp!Next => Udp!Lose \/ \E p \in live : Udp!Process(p)
  BY DEF Udp!Next, Udp!udp, Udp!udp1501, Udp!udp7083, Udp!broadcast, Udp!broadcast691
<1>10. live' \subseteq live
  BY <1>9
  DEF Udp!Lose, Udp!Process, Udp!Gets, Udp!GetsEnd, Udp!Send, Udp!Fail, Udp!Recv, Udp!Show,
      Udp!vars
<1> QED  BY <1>6, <1>7, <1>8, <1>9, <1>10 DEF Living

-----------------------------------------------------------------------------
(* the two processes of a program of 6.sem/fork that is started once *)

Inside(x) == pc[x] \in {"load", "store", "V"}
Undone(x) == undo[x] = IF key # 0 /\ Inside(x) THEN 1 ELSE 0

ForkTypes ==
  /\ key \in {0, 1} /\ sets \in {0, 1} /\ val \in Nat
  /\ undo \in [Fork!Procs -> Int] /\ semid \in [Processes -> {0, 1}]
  /\ pc \in [Fork!Procs -> {"get", "set", "fork", "P", "load", "store", "V", "remove",
                            "unborn", "failed", "done", "killed"}]

\* Where the two processes are together.
Stages(x, y) ==
  /\ pc[x] \in {"get", "set", "fork"} => pc[y] = "unborn"
  /\ pc[y] \notin {"get", "set", "fork"}
  /\ pc[x] = "get" => sets = 0 /\ key = 0
  /\ pc[x] \notin {"get", "killed"} => semid[x[1]] = 1 /\ sets = 1
  /\ pc[y] # "unborn" => semid[x[1]] = 1 /\ sets = 1

\* While the set is there it counts; it is removed by one that is through.
Counted(x, y) ==
  /\ Undone(x) /\ Undone(y)
  /\ key # 0 /\ (pc[x] \notin {"get", "set", "killed"} \/ pc[y] # "unborn")
       => val + undo[x] + undo[y] = 1
  /\ key = 0 /\ sets = 1 => pc[x] = "done" \/ pc[y] = "done"

\* As long as no failing call was ignored.
Pair(x, y) == ForkTypes /\ Stages(x, y) /\ Counted(x, y)
ForkInv == ~ignored => \A p \in Processes : Pair(<<p, "parent">>, <<p, "child">>)

LEMMA ForkInit == Fork!Init => ForkInv
<1> SUFFICES ASSUME Fork!Init, NEW p \in Processes
             PROVE  Pair(<<p, "parent">>, <<p, "child">>)
  BY DEF ForkInv
<1> DEFINE x == <<p, "parent">>
<1> DEFINE y == <<p, "child">>
<1>1. x \in Fork!Procs /\ y \in Fork!Procs  BY DEF Fork!Procs
<1>2. pc[x] = "get" /\ pc[y] = "unborn" /\ undo[x] = 0 /\ undo[y] = 0
  BY <1>1 DEF Fork!Init
<1>3. ForkTypes  BY DEF Fork!Init, ForkTypes
<1> QED  BY <1>2, <1>3 DEF Fork!Init, Pair, Stages, Counted, Undone, Inside

\* What was ignored once stays so, and is what only two actions do.
LEMMA NotIgnored ==
  ASSUME [Fork!Next]_Fork!vars, ~ignored'
  PROVE  /\ ~ignored
         /\ \/ UNCHANGED Fork!vars
            \/ \E z \in Fork!Procs : Fork!Run(z) \/ Fork!Fails(z) \/ Fork!Kill(z)
<1>1. CASE UNCHANGED Fork!vars  BY <1>1, Zenon DEF Fork!vars
<1>2. ASSUME NEW z \in Fork!Procs, Fork!Run(z) \/ Fork!Fails(z) \/ Fork!Kill(z)
      PROVE  ~ignored
  <2>1. ignored' = ignored
    BY <1>2, Zenon
    DEF Fork!Run, Fork!Fails, Fork!Kill, Fork!SemGet, Fork!SetVal, Fork!Fork, Fork!P,
        Fork!PFails, Fork!Load, Fork!Store, Fork!V, Fork!Remove
  <2> QED  BY <2>1, Zenon
<1>3. ASSUME NEW z \in Fork!Procs, Fork!SemGetFails(z) \/ Fork!PInterrupted(z)
      PROVE  FALSE
  BY <1>3, Zenon DEF Fork!SemGetFails, Fork!PInterrupted
<1> QED  BY <1>1, <1>2, <1>3, Zenon DEF Fork!Next

LEMMA ForkStep ==
  ASSUME NEW one, Processes = {one}, ForkInv, [Fork!Next]_Fork!vars
  PROVE  ForkInv'
<1> SUFFICES ASSUME ~ignored' PROVE ForkInv'
  BY DEF ForkInv
<1> DEFINE x == <<one, "parent">>
<1> DEFINE y == <<one, "child">>
<1>1. Fork!Procs = {x, y} /\ x # y /\ x[1] = one /\ y[1] = one  BY DEF Fork!Procs
<1>2. Pair(x, y)  BY NotIgnored DEF ForkInv
<1> SUFFICES Pair(x, y)'
  BY DEF ForkInv
<1> HIDE DEF x, y
<1> USE <1>1, <1>2
    DEF Pair, ForkTypes, Stages, Counted, Undone, Inside, Fork!Goes, Fork!Mine, Fork!NoUndo
<1>3. ASSUME NEW z \in {x, y}, Fork!SemGet(z) PROVE Pair(x, y)'
  BY <1>3 DEF Fork!SemGet
<1>4. ASSUME NEW z \in {x, y}, Fork!SetVal(z) PROVE Pair(x, y)'
  BY <1>4 DEF Fork!SetVal
<1>5. ASSUME NEW z \in {x, y}, Fork!Fails(z) PROVE Pair(x, y)'
  BY <1>5 DEF Fork!Fails
<1>6. ASSUME NEW z \in {x, y}, Fork!P(z) PROVE Pair(x, y)'
  BY <1>6 DEF Fork!P, Fork!Work
<1>7. ASSUME NEW z \in {x, y}, Fork!PFails(z) PROVE Pair(x, y)'
  BY <1>7 DEF Fork!PFails, Fork!Work
<1>8. ASSUME NEW z \in {x, y}, Fork!Load(z) \/ Fork!Store(z) PROVE Pair(x, y)'
  BY <1>8 DEF Fork!Load, Fork!Store
<1>9. ASSUME NEW z \in {x, y}, Fork!V(z) PROVE Pair(x, y)'
  BY <1>9 DEF Fork!V
<1>10. ASSUME NEW z \in {x, y}, Fork!Remove(z) PROVE Pair(x, y)'
  BY <1>10 DEF Fork!Remove
<1>11. ASSUME NEW z \in {x, y}, Fork!Kill(z) PROVE Pair(x, y)'
  BY <1>11 DEF Fork!Kill, Fork!Living
<1>12. CASE UNCHANGED Fork!vars  BY <1>12 DEF Fork!vars
<1>13. CASE \E z \in {x, y} : Fork!Fork(z)
  BY <1>13 DEF Fork!Fork
<1> QED
  BY <1>3, <1>4, <1>5, <1>6, <1>7, <1>8, <1>9, <1>10, <1>11, <1>12, <1>13, NotIgnored
  DEF Fork!Run

\* Two processes are not inside together.
LEMMA OneIsInside ==
  ASSUME NEW one, Processes = {one}, ForkInv
  PROVE  Fork!OneInside
<1> SUFFICES ASSUME ~ignored PROVE Fork!Cardinality(Fork!Critical) <= 1
  BY DEF Fork!OneInside
<1> DEFINE x == <<one, "parent">>
<1> DEFINE y == <<one, "child">>
<1>1. Fork!Procs = {x, y}  BY DEF Fork!Procs
<1>2. x \notin Fork!Critical \/ y \notin Fork!Critical
  BY DEF ForkInv, Pair, ForkTypes, Stages, Counted, Undone, Inside, Fork!Procs, Fork!Critical
<1> HIDE DEF x, y
<1>3. Fork!Critical = {} \/ Fork!Critical = {x} \/ Fork!Critical = {y}
  BY <1>1, <1>2 DEF Fork!Critical
<1>4. Cardinality({}) = 0 /\ \A z : Cardinality({z}) = 1
  BY FS_EmptySet, FS_Singleton
<1>5. Cardinality(Fork!Critical) \in {0, 1}
  BY <1>3, <1>4, Zenon
<1>6. Fork!Cardinality(Fork!Critical) = Cardinality(Fork!Critical)
  BY DEF Fork!Cardinality, Cardinality, Fork!IsFiniteSet, IsFiniteSet
<1> QED  BY <1>5, <1>6

\* What the fold of the community modules is for two elements, whichever is taken first.
LEMMA SumOfTwo ==
  ASSUME NEW f, NEW x, NEW y, x # y, f[x] \in Int, f[y] \in Int
  PROVE  Fork!MapThenSumSet(LAMBDA z : f[z], {x, y}) = f[x] + f[y]
<1> DEFINE S == {x, y}
<1> DEFINE pick(s) == CHOOSE z \in s : TRUE
<1> DEFINE Sum(g, s) == IF s = {} THEN 0 ELSE f[pick(s)] + g[s \ {pick(s)}]
<1> DEFINE Eq(g) == g = [s \in SUBSET S |-> Sum(g, s)]
<1> DEFINE w == [s \in SUBSET S |->
                   IF s = {} THEN 0 ELSE IF s = {x} THEN f[x]
                   ELSE IF s = {y} THEN f[y] ELSE f[x] + f[y]]
<1>1. \A s \in SUBSET S : s # {} => pick(s) \in s
  OBVIOUS
<1>2. S \ {x} = {y} /\ S \ {y} = {x} /\ {x} \ {x} = {} /\ {y} \ {y} = {}
  OBVIOUS
<1>3. pick({x}) = x /\ pick({y}) = y /\ (pick(S) = x \/ pick(S) = y)
  BY <1>1
<1>4. Fork!MapThenSumSet(LAMBDA z : f[z], S) = (CHOOSE g : Eq(g))[S]
  BY DEF Fork!MapThenSumSet, Fork!MapThenFoldSet
<1>5. {} \in SUBSET S /\ {x} \in SUBSET S /\ {y} \in SUBSET S /\ S \in SUBSET S
  OBVIOUS
<1>6. {x} # {} /\ {y} # {} /\ S # {}
  OBVIOUS
<1>7. \A s \in SUBSET S : s = {} \/ s = {x} \/ s = {y} \/ s = S
  OBVIOUS
<1>8. f[x] + 0 = f[x] /\ f[y] + 0 = f[y] /\ f[y] + f[x] = f[x] + f[y]
  OBVIOUS
<1>9. w[{}] = 0 /\ w[{x}] = f[x] /\ w[{y}] = f[y] /\ w[S] = f[x] + f[y]
  OBVIOUS
<1> HIDE DEF pick, S
<1>10. ASSUME NEW g, Eq(g) PROVE g[S] = f[x] + f[y]
  <2>1. \A s \in SUBSET S : g[s] = Sum(g, s)  BY <1>10, Zenon
  <2>2. g[{}] = 0  BY <2>1, <1>5, Zenon
  <2>3. g[{x}] = f[x] + 0  BY <2>1, <2>2, <1>2, <1>3, <1>5, <1>6, Zenon
  <2>4. g[{y}] = f[y] + 0  BY <2>1, <2>2, <1>2, <1>3, <1>5, <1>6, Zenon
  <2>5. g[S] = f[x] + g[{y}] \/ g[S] = f[y] + g[{x}]
    BY <2>1, <1>2, <1>3, <1>5, <1>6, Zenon
  <2> QED  BY <2>3, <2>4, <2>5, <1>8, Zenon
<1>11. Eq(w)
  <2> HIDE DEF w
  <2>1. w[{}] = Sum(w, {}) /\ w[{x}] = Sum(w, {x}) /\ w[{y}] = Sum(w, {y})
    BY <1>2, <1>3, <1>6, <1>8, <1>9, Zenon
  <2>2. w[S] = Sum(w, S)  BY <1>2, <1>3, <1>6, <1>8, <1>9, Zenon
  <2>3. \A s \in SUBSET S : w[s] = Sum(w, s)  BY <2>1, <2>2, <1>7, Zenon
  <2>4. w = [s \in SUBSET S |-> w[s]]  BY DEF w
  <2> QED  BY <2>3, <2>4
<1> HIDE DEF Eq
<1>12. (CHOOSE g : Eq(g))[S] = f[x] + f[y]  BY <1>10, <1>11
<1> QED  BY <1>4, <1>12 DEF S

\* Who is about to store has read what is there, and the memory has what both have done.
AddTypes ==
  /\ shm \in Nat /\ n \in [Fork!Procs -> Nat] /\ reg \in [Fork!Procs -> Nat]
FreshRead == \A z \in Fork!Procs : pc[z] = "store" => reg[z] = shm
BothDone(x, y) == shm = n[x] + n[y]
AddInv ==
  ~ignored => /\ AddTypes /\ FreshRead
              /\ \A p \in Processes : BothDone(<<p, "parent">>, <<p, "child">>)

LEMMA AddInit == Fork!Init => AddInv
<1> SUFFICES ASSUME Fork!Init PROVE AddInv
  OBVIOUS
<1>1. AddTypes /\ FreshRead  BY DEF Fork!Init, AddTypes, FreshRead
<1>2. \A p \in Processes : <<p, "parent">> \in Fork!Procs /\ <<p, "child">> \in Fork!Procs
  BY DEF Fork!Procs
<1> QED  BY <1>1, <1>2 DEF Fork!Init, AddInv, BothDone

LEMMA AddStep ==
  ASSUME NEW one, Processes = {one}, ForkInv, AddInv, [Fork!Next]_Fork!vars
  PROVE  AddInv'
<1> SUFFICES ASSUME ~ignored' PROVE AddInv'
  BY DEF AddInv
<1> DEFINE x == <<one, "parent">>
<1> DEFINE y == <<one, "child">>
<1>1. Fork!Procs = {x, y} /\ x # y  BY DEF Fork!Procs
<1>2. ForkTypes /\ ~(pc[x] \in {"load", "store"} /\ pc[y] \in {"load", "store"})
  BY <1>1, NotIgnored DEF ForkInv, Pair, ForkTypes, Stages, Counted, Undone, Inside
<1>3. BothDone(x, y) /\ AddTypes /\ FreshRead  BY NotIgnored DEF AddInv
<1> SUFFICES AddTypes' /\ FreshRead' /\ BothDone(x, y)'
  BY DEF AddInv
<1> HIDE DEF x, y
<1> USE <1>1, <1>2, <1>3 DEF ForkTypes, AddTypes, FreshRead, BothDone, Fork!Goes
<1>4. ASSUME NEW z \in {x, y}, Fork!Store(z)
      PROVE  AddTypes' /\ FreshRead' /\ BothDone(x, y)'
  BY <1>4 DEF Fork!Store
<1>5. ASSUME NEW z \in {x, y}, Fork!Load(z)
      PROVE  AddTypes' /\ FreshRead' /\ BothDone(x, y)'
  BY <1>5 DEF Fork!Load
<1>6. ASSUME UNCHANGED <<n, reg, shm>>,
             \A z \in {x, y} : pc'[z] = "store" => pc[z] = "store"
      PROVE  AddTypes' /\ FreshRead' /\ BothDone(x, y)'
  BY <1>6
<1>7. ASSUME NEW z \in {x, y},
             \/ Fork!SemGet(z) \/ Fork!SetVal(z) \/ Fork!Fails(z) \/ Fork!P(z)
             \/ Fork!PFails(z) \/ Fork!V(z) \/ Fork!Remove(z) \/ Fork!Kill(z)
      PROVE  AddTypes' /\ FreshRead' /\ BothDone(x, y)'
  <2>1. UNCHANGED <<n, reg, shm>>
    BY <1>7
    DEF Fork!SemGet, Fork!SetVal, Fork!Fails, Fork!P, Fork!PFails, Fork!V, Fork!Remove,
        Fork!Kill
  <2>2. \E there : pc' = [pc EXCEPT ![z] = there] /\ there # "store"
    BY <1>7
    DEF Fork!SemGet, Fork!SetVal, Fork!Fails, Fork!P, Fork!PFails, Fork!V, Fork!Remove,
        Fork!Kill, Fork!Work
  <2> QED  BY <1>6, <2>1, <2>2
<1>8. CASE \E z \in {x, y} : Fork!Fork(z)
  <2>1. PICK z \in {x, y} : Fork!Fork(z)  BY <1>8
  <2> QED  BY <1>6, <2>1 DEF Fork!Fork
<1>9. CASE UNCHANGED Fork!vars  BY <1>6, <1>9 DEF Fork!vars
<1> QED  BY <1>4, <1>5, <1>7, <1>8, <1>9, NotIgnored DEF Fork!Run

\* No increment is lost.
LEMMA NothingIsLost ==
  ASSUME NEW one, Processes = {one}, AddInv
  PROVE  Fork!NothingLost
<1> SUFFICES ASSUME ~ignored PROVE shm = Fork!MapThenSumSet(LAMBDA z : n[z], Fork!Procs)
  BY DEF Fork!NothingLost
<1> DEFINE x == <<one, "parent">>
<1> DEFINE y == <<one, "child">>
<1>1. Fork!Procs = {x, y} /\ x # y  BY DEF Fork!Procs
<1>2. shm = n[x] + n[y] /\ n[x] \in Int /\ n[y] \in Int
  BY <1>1 DEF AddInv, AddTypes, BothDone
<1> HIDE DEF x, y
<1>3. Fork!MapThenSumSet(LAMBDA z : n[z], {x, y}) = n[x] + n[y]
  BY <1>1, <1>2, SumOfTwo
<1>4. Fork!MapThenSumSet(LAMBDA z : n[z], Fork!Procs) = n[x] + n[y]
  BY <1>1, <1>3, Zenon
<1> QED  BY <1>2, <1>4, Zenon

-----------------------------------------------------------------------------
(* the TCP client *)

Message == {<<>>} \cup ({"typed", "told"} \X Nat)

ClientTypes ==
  /\ version \in {"local", "global"} /\ done \in Nat /\ typed \in Nat /\ told \in Nat
  /\ buffer \in [{"main", "sender"} -> Message]
  /\ down \in Seq(Message) /\ up \in Seq(Message) /\ shown \in Seq(Message)

\* How far the calls of main are, and with them the sender and the descriptor.
Started ==
  /\ mpc = "calls" => done \in 0 .. 2
  /\ mpc = "calls" /\ (version = "local" \/ done = 0) => spc = "off" /\ typed = 0 /\ ~eof
  /\ mpc \in {"recv", "print", "wipe"} => conn \notin {"zero", "socket"}
  /\ version = "local" => /\ mpc = "calls" /\ done = 0 => conn = "zero"
                          /\ mpc = "calls" /\ done = 1 => conn = "socket"
                          /\ mpc = "calls" /\ done = 2 => conn \in {"up", "fin", "rst"}
                          /\ spc \notin {"wipe", "over"}
                          /\ spc # "off" => conn \notin {"zero", "socket"}
  /\ version = "global" => /\ mpc = "calls" /\ done < 2 => conn = "zero"
                           /\ mpc = "calls" /\ done = 2 => conn \in {"socket", "shut"}
  /\ conn \in {"zero", "socket"} => up = <<>>
  /\ typed = 0 /\ ~eof => spc \in {"off", "gets"} /\ up = <<>>
  /\ told = 0 => mpc \notin {"print", "wipe"} /\ shown = <<>>

\* What has not been received yet are the last messages that were told.
Waiting == /\ Len(down) <= told
           /\ \A k \in DOMAIN down : down[k] = <<"told", told - Len(down) + k>>

Taken == IF mpc = "print" THEN Len(shown) + 1 ELSE Len(shown)
Received == ~eof /\ (version = "local" \/ typed = 0) =>
  /\ mpc # "ended" => Len(down) + Taken = told
  /\ mpc = "print" => Client!Now("main") = <<"told", Taken>>
  /\ \A k \in DOMAIN shown : shown[k] = <<"told", k>>

\* But for the last one, which may be in the buffer, what was typed after the early
\* lines has been sent while the connection was up.
Begun == IF spc = "send" THEN typed - 1 ELSE typed
SentFrom(early) ==
  /\ version = "local" => early = 0
  /\ conn \in {"zero", "socket", "up"} => early + Len(up) = Begun
  /\ early + Len(up) <= Begun
  /\ \A k \in DOMAIN up : up[k] = <<"typed", early + k>>
Sent == ~eof /\ (version = "local" \/ told = 0) =>
  /\ spc = "send" => Client!Now("sender") = <<"typed", typed>> /\ typed > 0
  /\ \E early \in 0 .. typed : SentFrom(early)

ClientInv == ClientTypes /\ Started /\ Waiting /\ Received /\ Sent

LEMMA ClientInit == Client!Init => ClientInv
<1> SUFFICES ASSUME Client!Init PROVE ClientInv
  OBVIOUS
<1> USE DEF Client!Init
<1>1. ClientTypes  BY DEF ClientTypes, Message
<1>2. Started /\ Waiting /\ Received  BY DEF Started, Waiting, Received, Taken
<1>3. SentFrom(0)  BY DEF SentFrom, Begun
<1> QED  BY <1>1, <1>2, <1>3 DEF Sent, ClientInv

LEMMA CallStep == ASSUME ClientInv, Client!Call PROVE ClientInv'
<1> USE DEF ClientInv
<1>1. /\ mpc = "calls" /\ done \in 0 .. 2 /\ done' = done + 1
      /\ UNCHANGED <<version, buffer, typed, eof, told, down, up, shown>>
  BY DEF Client!Call, Started
<1>2. /\ spc' = IF Client!Calls[done + 1] = "thread" THEN "gets" ELSE spc
      /\ conn' = CASE Client!Calls[done + 1] = "socket" -> "socket"
                   [] Client!Calls[done + 1] = "connect"
                        -> IF conn = "shut" THEN conn ELSE "up"
                   [] OTHER -> conn
      /\ mpc' = CASE Client!Calls[done + 1] = "connect" /\ conn = "shut" -> "ended"
                  [] done + 1 = 3 -> "recv"
                  [] OTHER -> mpc
  BY DEF Client!Call, Client!Calls, Client!CallsLocal, Client!CallsGlobal
<1>3. Client!Calls[done + 1] =
        IF version = "local"
        THEN CASE done = 0 -> "socket" [] done = 1 -> "connect" [] OTHER -> "thread"
        ELSE CASE done = 0 -> "thread" [] done = 1 -> "socket" [] OTHER -> "connect"
  BY <1>1 DEF Client!Calls, Client!CallsLocal, Client!CallsGlobal
<1>4. ClientTypes'  BY <1>1 DEF ClientTypes
<1>5. Started'  BY <1>1, <1>2, <1>3 DEF ClientTypes, Started
<1>6. Waiting' /\ Received'
  BY <1>1, <1>2 DEF Waiting, Received, Taken, Client!Now, Client!Buffer
<1>7. Sent'
  <2>1. Begun' = Begun /\ (spc' = "send" <=> spc = "send")
    BY <1>1, <1>2, <1>3 DEF Begun, Started, ClientTypes
  <2>2. conn' \in {"zero", "socket", "up"} => conn \in {"zero", "socket", "up"}
    BY <1>1, <1>2, <1>3 DEF Started, ClientTypes
  <2>3. \A e : SentFrom(e) => SentFrom(e)'  BY <1>1, <2>1, <2>2 DEF SentFrom
  <2> QED  BY <1>1, <2>1, <2>3 DEF Sent, Client!Now, Client!Buffer
<1> QED  BY <1>4, <1>5, <1>6, <1>7

\* Steps of main after its calls.
LEMMA MainStep ==
  ASSUME ClientInv, Client!Recv \/ Client!RecvEnd \/ Client!Show \/ Client!Wipe
  PROVE  ClientInv'
<1> USE DEF ClientInv
<1>1. UNCHANGED <<version, done, spc, conn, typed, eof, told, up>>
  BY DEF Client!Recv, Client!RecvEnd, Client!Show, Client!Wipe
<1>2. ASSUME \/ Client!Now("sender")' = Client!Now("sender")
             \/ version = "global" /\ told > 0
      PROVE  Sent'
  <2>1. Begun' = Begun /\ \A e : SentFrom(e)' <=> SentFrom(e)
    BY <1>1 DEF Begun, SentFrom
  <2> QED  BY <1>1, <1>2, <2>1 DEF Sent
<1>3. mpc \in {"print", "wipe"} => told > 0  BY DEF Started, ClientTypes
<1>4. CASE Client!Recv
  <2> DEFINE size == Len(down)
  <2>1. /\ mpc = "recv" /\ mpc' = "print" /\ down # <<>> /\ shown' = shown
        /\ down' = Tail(down) /\ conn \notin {"zero", "socket"}
        /\ buffer' = [buffer EXCEPT ![Client!Buffer("main")] = down[1]]
    BY <1>4 DEF Client!Recv, Client!Puts, Started, ClientTypes
  <2>2. /\ size \in Nat \ {0} /\ DOMAIN down = 1 .. size
        /\ down' \in Seq(Message) /\ Len(down') = size - 1
        /\ DOMAIN down' = 1 .. size - 1
        /\ \A k \in 1 .. size - 1 : down'[k] = down[k + 1]
    BY <2>1 DEF ClientTypes
  <2>3. /\ told > 0 /\ size <= told /\ down[1] \in Message
        /\ \A k \in 1 .. size : down[k] = <<"told", told - size + k>>
    BY <2>1, <2>2 DEF Waiting, ClientTypes
  <2> HIDE DEF size
  <2>4. ClientTypes'
    BY <1>1, <2>1, <2>2, <2>3 DEF ClientTypes, Client!Buffer
  <2>5. Started'  BY <1>1, <2>1, <2>3 DEF Started
  <2>6. Waiting'
    <3>1. \A k \in 1 .. size - 1 : down'[k] = <<"told", told - (size - 1) + k>>
      <4> TAKE k \in 1 .. size - 1
      <4>1. k + 1 \in 1 .. size /\ told - size + (k + 1) = told - (size - 1) + k
        BY <2>2 DEF ClientTypes
      <4> QED  BY <2>2, <2>3, <4>1
    <3> QED  BY <1>1, <2>2, <2>3, <3>1 DEF Waiting, ClientTypes
  <2>7. Client!Now("main")' = <<"told", told - size + 1>>
    BY <1>1, <2>1, <2>2, <2>3 DEF ClientTypes, Client!Now, Client!Buffer
  <2>8. Received'
    <3> SUFFICES ASSUME ~eof, version = "local" \/ typed = 0 PROVE Received'
      BY <1>1 DEF Received
    <3>1. size + Len(shown) = told /\ \A k \in DOMAIN shown : shown[k] = <<"told", k>>
      BY <2>1 DEF Received, Taken, size
    <3>2. Taken' = Len(shown) + 1 /\ told - size + 1 = Len(shown) + 1
      <4>1. Taken' = Len(shown) + 1  BY <2>1 DEF Taken
      <4>2. Len(shown) \in Nat  BY DEF ClientTypes
      <4> QED  BY <2>2, <3>1, <4>1, <4>2
    <3>3. Len(down') + Taken' = told
      BY <2>2, <3>1, <3>2 DEF ClientTypes
    <3>4. Client!Now("main")' = <<"told", Taken'>>  BY <2>7, <3>2
    <3>5. \A k \in DOMAIN shown' : shown'[k] = <<"told", k>>  BY <2>1, <3>1
    <3> QED  BY <1>1, <3>3, <3>4, <3>5 DEF Received
  <2>9. Sent'
    BY <1>1, <1>2, <2>1, <2>3 DEF ClientTypes, Client!Now, Client!Buffer
  <2> QED  BY <2>4, <2>5, <2>6, <2>8, <2>9
<1>5. CASE Client!RecvEnd
  <2>1. mpc' = "ended" /\ mpc = "recv" /\ UNCHANGED <<buffer, down, shown>>
    BY <1>5 DEF Client!RecvEnd
  <2>2. ClientTypes' /\ Started' /\ Waiting' /\ Received'
    BY <1>1, <2>1 DEF ClientTypes, Started, Waiting, Received, Taken
  <2> QED  BY <1>1, <1>2, <2>1, <2>2 DEF Client!Now, Client!Buffer
<1>6. CASE Client!Show
  <2>1. /\ mpc = "print" /\ mpc' = "wipe" /\ UNCHANGED <<buffer, down>>
        /\ shown' = Append(shown, Client!Now("main")) /\ Len(shown') = Len(shown) + 1
        /\ \A k \in 1 .. Len(shown) : shown'[k] = shown[k]
        /\ shown'[Len(shown) + 1] = Client!Now("main")
        /\ DOMAIN shown' = 1 .. Len(shown) + 1
    BY <1>6 DEF Client!Show, ClientTypes
  <2>2. Client!Now("main") \in Message
    BY DEF ClientTypes, Client!Now, Client!Buffer
  <2>3. ClientTypes' /\ Started' /\ Waiting'
    BY <1>1, <2>1, <2>2 DEF ClientTypes, Started, Waiting
  <2>4. Received'
    <3> SUFFICES ASSUME ~eof, version = "local" \/ typed = 0 PROVE Received'
      BY <1>1 DEF Received
    <3>1. /\ Len(down) + Len(shown) + 1 = told
          /\ Client!Now("main") = <<"told", Len(shown) + 1>>
          /\ \A k \in 1 .. Len(shown) : shown[k] = <<"told", k>>
      BY <2>1 DEF Received, Taken, ClientTypes
    <3> QED  BY <1>1, <2>1, <3>1 DEF Received, Taken, ClientTypes
  <2> QED  BY <1>1, <1>2, <2>1, <2>3, <2>4 DEF Client!Now, Client!Buffer
<1>7. CASE Client!Wipe
  <2>1. /\ mpc = "wipe" /\ mpc' = "recv" /\ UNCHANGED <<down, shown>>
        /\ buffer' = [buffer EXCEPT ![Client!Buffer("main")] = <<>>]
    BY <1>7 DEF Client!Wipe, Client!Puts
  <2>2. ClientTypes'  BY <1>1, <2>1 DEF ClientTypes, Message, Client!Buffer
  <2>3. Started' /\ Waiting' /\ Received'
    BY <1>1, <2>1 DEF Started, Waiting, Received, Taken
  <2>4. Sent'
    BY <1>1, <1>2, <1>3, <2>1 DEF ClientTypes, Client!Now, Client!Buffer
  <2> QED  BY <2>2, <2>3, <2>4
<1> QED  BY <1>4, <1>5, <1>6, <1>7

\* Steps that leave the buffers and main alone, and connect nothing.
LEMMA Rests ==
  ASSUME ClientInv, UNCHANGED <<version, mpc, done, buffer, typed, told, down, up, shown>>,
         Started', eof' \/ ~eof, eof' \/ (spc' = "send" <=> spc = "send"),
         conn' \in {"zero", "socket", "up"} => conn \in {"zero", "socket", "up"}
  PROVE  ClientInv'
<1> USE DEF ClientInv
<1>1. ClientTypes' /\ Waiting'  BY DEF ClientTypes, Waiting
<1>2. Received'  BY DEF Received, Taken, Client!Now, Client!Buffer
<1>3. Sent'
  <2> SUFFICES ASSUME ~eof', version = "local" \/ told = 0 PROVE Sent'
    BY DEF Sent
  <2>1. ~eof /\ Begun' = Begun  BY DEF Begun
  <2>2. \A e : SentFrom(e) => SentFrom(e)'  BY <2>1 DEF SentFrom
  <2> QED  BY <2>1, <2>2 DEF Sent, Client!Now, Client!Buffer
<1> QED  BY <1>1, <1>2, <1>3

LEMMA SenderStep == ASSUME ClientInv, Client!Sender PROVE ClientInv'
<1> USE DEF ClientInv
<1>1. UNCHANGED <<version, done, told, down, shown>>
  BY DEF Client!Sender, Client!Gets, Client!GetsEnd, Client!Send, Client!SenderWipes,
         Client!SenderEnds
<1>2. CASE Client!Gets
  <2>1. /\ spc = "gets" /\ ~eof /\ typed' = typed + 1 /\ spc' = "send"
        /\ buffer' = [buffer EXCEPT ![Client!Buffer("sender")] = <<"typed", typed + 1>>]
        /\ UNCHANGED <<mpc, conn, eof, up>>
    BY <1>2 DEF Client!Gets, Client!Puts
  <2>2. <<"typed", typed + 1>> \in Message  BY DEF ClientTypes, Message
  <2>3. ClientTypes'  BY <1>1, <2>1, <2>2 DEF ClientTypes, Client!Buffer
  <2>4. Started' /\ Waiting'  BY <1>1, <2>1 DEF ClientTypes, Started, Waiting
  <2>5. Received'
    BY <1>1, <2>1 DEF ClientTypes, Received, Taken, Client!Now, Client!Buffer
  <2>6. Client!Now("sender")' = <<"typed", typed'>>
    BY <1>1, <2>1 DEF ClientTypes, Client!Now, Client!Buffer
  <2>7. \A e \in Nat : SentFrom(e) => SentFrom(e)'
    BY <1>1, <2>1 DEF ClientTypes, SentFrom, Begun
  <2>8. Sent'  BY <1>1, <2>1, <2>6, <2>7 DEF ClientTypes, Sent
  <2> QED  BY <2>3, <2>4, <2>5, <2>8
<1>3. CASE Client!GetsEnd
  BY <1>1, <1>3, Rests DEF Client!GetsEnd, Started
<1>4. CASE Client!Send
  <2>1. CASE conn = "zero"
    <3>1. /\ spc = "send" /\ spc' \in {"gets", "wipe", "over"} /\ version = "global"
          /\ UNCHANGED <<mpc, conn, up, buffer, typed, eof>>
      BY <1>4, <2>1 DEF Client!Send, Client!Onward, Started, ClientTypes
    <3>2. ClientTypes' /\ Started' /\ Waiting' /\ Received'
      BY <1>1, <2>1, <3>1
      DEF ClientTypes, Started, Waiting, Received, Taken, Client!Now, Client!Buffer
    <3>3. up = <<>>  BY <2>1 DEF Started
    <3>4. SentFrom(typed)'  BY <1>1, <2>1, <3>1, <3>3 DEF ClientTypes, SentFrom, Begun
    <3>5. Sent'  BY <1>1, <3>1, <3>4 DEF ClientTypes, Sent
    <3> QED  BY <3>2, <3>5
  <2>2. CASE conn \in {"socket", "rst"}
    <3>1. /\ mpc' = "ended" /\ UNCHANGED <<spc, conn, up, buffer, typed, eof>>
      BY <1>4, <2>2 DEF Client!Send
    <3>2. ClientTypes' /\ Started' /\ Waiting' /\ Received'
      BY <1>1, <3>1
      DEF ClientTypes, Started, Waiting, Received, Taken, Client!Now, Client!Buffer
    <3>3. Sent'
      BY <1>1, <3>1 DEF Sent, SentFrom, Begun, Client!Now, Client!Buffer
    <3> QED  BY <3>2, <3>3
  <2>3. CASE conn = "up"
    <3>1. /\ spc = "send" /\ spc' \in {"gets", "wipe"} /\ UNCHANGED <<mpc, conn>>
          /\ version = "local" => spc' = "gets"
          /\ up' = Append(up, Client!Now("sender")) /\ UNCHANGED <<buffer, typed, eof>>
      BY <1>4, <2>3 DEF Client!Send, Client!Onward
    <3>2. Client!Now("sender") \in Message
      BY DEF ClientTypes, Client!Now, Client!Buffer
    <3>3. /\ up' \in Seq(Message) /\ Len(up') = Len(up) + 1 /\ Len(up) \in Nat
          /\ DOMAIN up = 1 .. Len(up) /\ DOMAIN up' = 1 .. Len(up) + 1
          /\ \A k \in 1 .. Len(up) : up'[k] = up[k]
          /\ up'[Len(up) + 1] = Client!Now("sender")
      BY <3>1, <3>2 DEF ClientTypes
    <3>4. ClientTypes' /\ Started' /\ Waiting' /\ Received'
      BY <1>1, <2>3, <3>1, <3>3
      DEF ClientTypes, Started, Waiting, Received, Taken, Client!Now, Client!Buffer
    <3>5. Sent'
      <4> SUFFICES ASSUME ~eof, version = "local" \/ told = 0
                   PROVE  \E e \in 0 .. typed : SentFrom(e)'
        BY <1>1, <3>1 DEF Sent
      <4>1. Client!Now("sender") = <<"typed", typed>> /\ typed > 0
        BY <3>1 DEF Sent
      <4>2. PICK e \in 0 .. typed : SentFrom(e)  BY DEF Sent
      <4>3. e + Len(up) = typed - 1  BY <2>3, <3>1, <4>2 DEF SentFrom, Begun
      <4>4. e + (Len(up) + 1) = typed  BY <3>3, <4>3 DEF ClientTypes
      <4>5. \A k \in DOMAIN up' : up'[k] = <<"typed", e + k>>
        <5>1. \A k \in 1 .. Len(up) : up[k] = <<"typed", e + k>>
          BY <3>3, <4>2 DEF SentFrom
        <5>2. \A k \in 1 .. Len(up) + 1 : k \in 1 .. Len(up) \/ k = Len(up) + 1
          BY <3>3
        <5> QED  BY <3>3, <4>1, <4>4, <5>1, <5>2
      <4>6. Begun' = typed  BY <3>1 DEF Begun
      <4>7. SentFrom(e)'
        BY <1>1, <3>1, <3>3, <4>2, <4>4, <4>5, <4>6 DEF ClientTypes, SentFrom
      <4> QED  BY <4>7
    <3> QED  BY <3>4, <3>5
  <2>4. CASE conn = "fin"
    <3>1. /\ spc = "send" /\ spc' \in {"gets", "wipe"} /\ conn' \in {"fin", "rst"}
          /\ version = "local" => spc' = "gets"
          /\ UNCHANGED <<mpc, up, buffer, typed, eof>>
      BY <1>4, <2>4 DEF Client!Send, Client!Onward
    <3>2. ClientTypes' /\ Waiting' /\ Received'
      BY <1>1, <3>1 DEF ClientTypes, Waiting, Received, Taken, Client!Now, Client!Buffer
    <3>3. Started'  BY <1>1, <2>4, <3>1 DEF ClientTypes, Started
    <3>4. \A e \in 0 .. typed : SentFrom(e) => SentFrom(e)'
      BY <1>1, <3>1 DEF ClientTypes, SentFrom, Begun
    <3>5. Sent'  BY <1>1, <3>1, <3>4 DEF Sent
    <3> QED  BY <3>2, <3>3, <3>5
  <2> QED  BY <1>4, <2>1, <2>2, <2>3, <2>4 DEF Client!Send
<1>5. CASE Client!SenderWipes
  <2>1. /\ spc = "wipe" /\ version = "global" /\ spc' = "gets"
        /\ typed = 0 => eof
        /\ buffer' = [buffer EXCEPT !["main"] = <<>>]
        /\ UNCHANGED <<mpc, conn, typed, eof, up>>
    BY <1>5
    DEF Client!SenderWipes, Client!Puts, Client!Buffer, Started, ClientTypes
  <2>2. ClientTypes' /\ Started' /\ Waiting'
    BY <1>1, <2>1 DEF ClientTypes, Message, Started, Waiting
  <2>3. Received'  BY <1>1, <2>1 DEF Received
  <2>4. Sent'  BY <1>1, <2>1 DEF Sent, SentFrom, Begun
  <2> QED  BY <2>2, <2>3, <2>4
<1>6. CASE Client!SenderEnds
  <2>1. /\ spc = "over" /\ version = "global" /\ spc' = "off"
        /\ conn' = IF conn = "zero" THEN conn ELSE "shut"
        /\ UNCHANGED <<mpc, buffer, typed, eof, up>>
    BY <1>6 DEF Client!SenderEnds, Started, ClientTypes
  <2>2. Started'  BY <1>1, <2>1 DEF Started
  <2> QED  BY <1>1, <2>1, <2>2, Rests
<1> QED  BY <1>2, <1>3, <1>4, <1>5, <1>6 DEF Client!Sender

LEMMA ClientStep == ClientInv /\ [Client!Next]_Client!vars => ClientInv'
<1> SUFFICES ASSUME ClientInv, [Client!Next]_Client!vars PROVE ClientInv'
  OBVIOUS
<1>1. CASE Client!Main  BY <1>1, CallStep, MainStep DEF Client!Main
<1>2. CASE Client!Sender  BY <1>2, SenderStep
<1>3. CASE Client!CallFails
  <2>1. mpc' = "ended" /\ UNCHANGED <<version, done, spc, conn, buffer, typed, eof, told,
                                       down, up, shown>>
    BY <1>3 DEF Client!CallFails
  <2>2. mpc = "calls"  BY <1>3 DEF Client!CallFails
  <2> QED  BY <2>1, <2>2
    DEF ClientInv, ClientTypes, Started, Waiting, Received, Taken, Sent, SentFrom, Begun,
        Client!Now, Client!Buffer
<1>4. CASE Client!Tell
  <2>1. /\ conn = "up" /\ told' = told + 1 /\ down' = Append(down, <<"told", told + 1>>)
        /\ UNCHANGED <<version, mpc, done, spc, conn, buffer, typed, eof, up, shown>>
    BY <1>4 DEF Client!Tell
  <2>2. <<"told", told + 1>> \in Message  BY DEF ClientInv, ClientTypes, Message
  <2>3. /\ down' \in Seq(Message) /\ Len(down') = Len(down) + 1 /\ Len(down) \in Nat
        /\ DOMAIN down = 1 .. Len(down) /\ DOMAIN down' = 1 .. Len(down) + 1
        /\ \A k \in 1 .. Len(down) : down'[k] = down[k]
        /\ down'[Len(down) + 1] = <<"told", told + 1>>
    BY <2>1, <2>2 DEF ClientInv, ClientTypes
  <2>4. ClientTypes' /\ Started'
    BY <2>1, <2>3 DEF ClientInv, ClientTypes, Started
  <2>5. Waiting'
    <3>1. Len(down') <= told'  BY <2>1, <2>3 DEF ClientInv, ClientTypes, Waiting
    <3>2. told' - Len(down') = told - Len(down)
      BY <2>1, <2>3 DEF ClientInv, ClientTypes
    <3>3. told - Len(down) + (Len(down) + 1) = told + 1
      BY <2>3 DEF ClientInv, ClientTypes
    <3> QED  BY <2>3, <3>1, <3>2, <3>3 DEF ClientInv, Waiting
  <2>6. Received'
    <3>1. Taken' = Taken /\ Taken \in Nat
      BY <2>1 DEF Taken, ClientInv, ClientTypes
    <3>2. Len(down) + Taken = told => Len(down') + Taken' = told'
      <4>1. told \in Nat /\ told' = told + 1  BY <2>1 DEF ClientInv, ClientTypes
      <4> QED  BY <2>3, <3>1, <4>1
    <3> QED  BY <2>1, <3>1, <3>2 DEF ClientInv, Received, Client!Now, Client!Buffer
  <2>7. Sent'
    <3>1. told' # 0  BY <2>1 DEF ClientInv, ClientTypes
    <3>2. \A e : SentFrom(e) <=> SentFrom(e)'  BY <2>1 DEF SentFrom, Begun
    <3> QED  BY <2>1, <3>1, <3>2 DEF ClientInv, Sent, Client!Now, Client!Buffer
  <2> QED  BY <2>4, <2>5, <2>6, <2>7 DEF ClientInv
<1>5. CASE Client!ServerCloses
  <2>1. /\ conn = "up" /\ conn' \in {"fin", "rst"}
        /\ UNCHANGED <<version, mpc, done, spc, buffer, typed, eof, told, down, up, shown>>
    BY <1>5 DEF Client!ServerCloses
  <2>2. Started'  BY <2>1 DEF ClientInv, Started, ClientTypes
  <2> QED  BY <2>1, <2>2, Rests
<1>6. CASE UNCHANGED Client!vars
  BY <1>6
  DEF Client!vars, ClientInv, ClientTypes, Started, Waiting, Received, Taken, Sent,
      SentFrom, Begun, Client!Now, Client!Buffer
<1> QED
  BY <1>1, <1>2, <1>3, <1>4, <1>5, <1>6
  DEF Client!Next, Client!LocalMain, Client!LocalSender, Client!GlobalMain,
      Client!GlobalSender

LEMMA ClientDuplex == ClientInv => Client!FullDuplex
<1> SUFFICES ASSUME ClientInv, ~eof, version = "local" \/ typed = 0 \/ told = 0
             PROVE  /\ \A k \in DOMAIN shown : shown[k] = <<"told", k>>
                    /\ \E early \in 0 .. typed :
                         /\ version = "local" => early = 0
                         /\ \A k \in DOMAIN up : up[k] = <<"typed", early + k>>
  BY DEF Client!FullDuplex
<1> USE DEF ClientInv
<1>1. ASSUME version = "local" \/ typed = 0
      PROVE  \A k \in DOMAIN shown : shown[k] = <<"told", k>>
  BY <1>1 DEF Received
<1>2. ASSUME version = "local" \/ told = 0
      PROVE  \E early \in 0 .. typed :
               /\ version = "local" => early = 0
               /\ \A k \in DOMAIN up : up[k] = <<"typed", early + k>>
  BY <1>2 DEF Sent, SentFrom
<1>3. CASE version = "local"  BY <1>1, <1>2, <1>3
<1>4. CASE version = "global" /\ typed = 0
  <2>1. up = <<>> /\ 0 \in 0 .. typed /\ version # "local"
    BY <1>4 DEF Started, ClientTypes
  <2> QED  BY <1>1, <1>4, <2>1
<1>5. CASE version = "global" /\ told = 0
  <2>1. shown = <<>>  BY <1>5 DEF Started
  <2> QED  BY <1>2, <1>5, <2>1
<1> QED  BY <1>3, <1>4, <1>5 DEF ClientTypes

-----------------------------------------------------------------------------
(* the peers of the message queue *)

Side(p) == IF p = "a" THEN "b" ELSE "a"

Lined == Queue!Peers \X Nat
Packet == [type : {0, 1234, 1235}, data : Lined]
QueueTypes ==
  /\ queue \in Seq(Packet) /\ msg \in [Queue!Peers -> Packet]
  /\ spc \in [Queue!Peers -> {"read", "type", "send", "ended"}]
  /\ rpc \in [Queue!Peers -> {"recv", "print", "ended"}]
  /\ typed \in [Queue!Peers -> Nat] /\ reads \in [Queue!Peers -> Nat]
  /\ shown \in [Queue!Peers -> Seq(Lined)]
  /\ \A p \in Queue!Peers : typed[p] <= reads[p]

\* What p sends the k-th time; the texts of p that the other side has taken, and those
\* that p has sent.
Nth(p, k) == <<p, IF k <= typed[p] THEN k ELSE typed[p]>>
TakenBy(q) == IF rpc[q] = "print" THEN Len(shown[q]) + 1 ELSE Len(shown[q])
SentBy(p) == IF spc[p] \in {"type", "send"} THEN reads[p] - 1 ELSE reads[p]

Quiet(q) == reads[q] = 0 => spc[q] \notin {"type", "send"}
Alone(p, q) ==
  /\ shown[p] = <<>> /\ rpc[p] # "print"
  /\ msg[p].data = <<p, typed[p]>>
  /\ spc[p] = "send" => msg[p].type = Queue!To(p)
  /\ rpc[q] = "print" => msg[q].data = Nth(p, Len(shown[q]) + 1)
  /\ \A k \in DOMAIN queue :
       queue[k].type = Queue!To(p) /\ queue[k].data = Nth(p, TakenBy(q) + k)
  /\ \A k \in DOMAIN shown[q] : shown[q][k] = Nth(p, k)
  /\ TakenBy(q) + Len(queue) <= SentBy(p)
  /\ spc[p] # "ended" => TakenBy(q) + Len(queue) = SentBy(p)

QueueInv == /\ QueueTypes
            /\ \A p \in Queue!Peers : Quiet(p) /\ (reads[Side(p)] = 0 => Alone(p, Side(p)))

LEMMA OneOrMore == \A m \in Nat : m >= 1 => m = 1 \/ m >= 2
OBVIOUS

LEMMA QueueInit == Queue!Init => QueueInv
<1> SUFFICES ASSUME Queue!Init PROVE QueueInv
  OBVIOUS
<1> USE DEF Queue!Init, Queue!Peers, Side
<1>1. QueueTypes  BY DEF QueueTypes, Packet, Lined
<1>2. \A p \in Queue!Peers : Quiet(p) /\ Alone(p, Side(p))
  BY DEF Quiet, Alone, TakenBy, SentBy, Nth
<1> QED  BY <1>1, <1>2 DEF QueueInv

\* A step of one side leaves what the other says alone with it, and what it says.
LEMMA QueueStep == QueueInv /\ [Queue!Next]_Queue!vars => QueueInv'
<1> SUFFICES ASSUME QueueInv, [Queue!Next]_Queue!vars PROVE QueueInv'
  OBVIOUS
<1> USE DEF QueueInv
<1>1. \A p \in Queue!Peers : Side(p) \in Queue!Peers /\ Side(p) # p /\ Side(Side(p)) = p
                             /\ \A q \in Queue!Peers : q \in {p, Side(p)}
  BY DEF Side, Queue!Peers
<1>2. \A p \in Queue!Peers : /\ typed[p] \in Nat /\ reads[p] \in Nat /\ typed[p] <= reads[p]
                             /\ shown[p] \in Seq(Lined) /\ Len(shown[p]) \in Nat
  BY DEF QueueTypes
\* A line that is typed, or the end of the input.
<1>3. ASSUME NEW p \in Queue!Peers, Queue!Read(p) \/ Queue!ReadEnd(p) PROVE QueueInv'
  <2> DEFINE q == Side(p)
  <2>1. /\ spc[p] = "read" /\ spc' = [spc EXCEPT ![p] = "type"]
        /\ reads' = [reads EXCEPT ![p] = reads[p] + 1]
        /\ UNCHANGED <<queue, rpc, shown>>
    BY <1>3 DEF Queue!Read, Queue!ReadEnd
  <2>2. \/ /\ typed' = [typed EXCEPT ![p] = typed[p] + 1] /\ reads[p] = typed[p]
           /\ msg' = [msg EXCEPT ![p].data = <<p, typed[p] + 1>>]
        \/ UNCHANGED <<typed, msg>>
    BY <1>3 DEF Queue!Read, Queue!ReadEnd
  <2>3. typed[p] + 1 \in Nat /\ reads[p] + 1 \in Nat /\ reads[p] + 1 # 0  BY <1>2
  <2>4. msg' \in [Queue!Peers -> Packet] /\ (\A r \in Queue!Peers \ {p} : msg'[r] = msg[r])
        /\ msg'[p].type = msg[p].type
        /\ msg'[p].data = IF typed' = typed /\ msg' = msg THEN msg[p].data ELSE <<p, typed[p] + 1>>
    <3>1. CASE UNCHANGED <<typed, msg>>  BY <3>1 DEF QueueTypes
    <3>2. CASE msg' = [msg EXCEPT ![p].data = <<p, typed[p] + 1>>]
               /\ typed' = [typed EXCEPT ![p] = typed[p] + 1]
      <4>1. <<p, typed[p] + 1>> \in Lined  BY <2>3 DEF Lined
      <4>2. msg' = [msg EXCEPT ![p] = [msg[p] EXCEPT !.data = <<p, typed[p] + 1>>]]
        BY <3>2
      <4>3. msg[p] \in Packet  BY DEF QueueTypes
      <4>4. [msg[p] EXCEPT !.data = <<p, typed[p] + 1>>] \in Packet
        BY <4>1, <4>3 DEF Packet
      <4>5. typed'[p] = typed[p] + 1 /\ typed[p] + 1 # typed[p]
        BY <1>2, <3>2 DEF QueueTypes
      <4>6. typed' # typed  BY <4>5
      <4> QED  BY <4>2, <4>3, <4>4, <4>6 DEF QueueTypes, Packet
    <3> QED  BY <2>2, <3>1, <3>2
  <2>5. /\ typed'[p] \in Nat /\ typed'[p] <= reads'[p] /\ reads'[p] = reads[p] + 1
        /\ typed' \in [Queue!Peers -> Nat] /\ reads' \in [Queue!Peers -> Nat]
        /\ \A r \in Queue!Peers \ {p} : typed'[r] = typed[r] /\ reads'[r] = reads[r]
    <3>1. typed' = typed \/ (typed' = [typed EXCEPT ![p] = typed[p] + 1] /\ reads[p] = typed[p])
      BY <2>2
    <3>2. reads'[p] = reads[p] + 1 /\ \A r \in Queue!Peers \ {p} : reads'[r] = reads[r]
      BY <2>1 DEF QueueTypes
    <3>3. typed'[p] = typed[p] \/ (typed'[p] = typed[p] + 1 /\ reads[p] = typed[p])
      BY <3>1 DEF QueueTypes
    <3>4. typed'[p] \in Nat /\ typed'[p] <= reads[p] + 1  BY <1>2, <2>3, <3>3
    <3>5. typed' \in [Queue!Peers -> Nat] /\ reads' \in [Queue!Peers -> Nat]
      BY <2>1, <2>3, <3>1 DEF QueueTypes
    <3>6. \A r \in Queue!Peers \ {p} : typed'[r] = typed[r]  BY <3>1 DEF QueueTypes
    <3> QED  BY <3>2, <3>4, <3>5, <3>6
  <2>6. QueueTypes'  BY <1>2, <2>1, <2>4, <2>5 DEF QueueTypes
  <2>7. \A r \in Queue!Peers : Quiet(r)'
    BY <2>1, <2>3, <2>5 DEF Quiet, QueueTypes
  <2>8. ASSUME reads[q] = 0 PROVE Alone(p, q)'
    <3>1. Alone(p, q)  BY <1>1, <2>8
    <3>2. TakenBy(q)' = TakenBy(q) /\ SentBy(p) = reads[p] /\ SentBy(p)' = reads[p]
          /\ spc'[p] = "type" /\ TakenBy(q) \in Nat /\ Len(queue) \in Nat
      <4>1. spc'[p] = "type" /\ spc[p] = "read" /\ Len(queue) \in Nat
        BY <2>1 DEF QueueTypes
      <4>2. SentBy(p) = reads[p] /\ SentBy(p)' = reads[p]
        BY <1>2, <2>5, <4>1 DEF SentBy
      <4>3. TakenBy(q)' = TakenBy(q) /\ TakenBy(q) \in Nat
        BY <1>1, <1>2, <2>1 DEF TakenBy
      <4> QED  BY <4>1, <4>2, <4>3
    \* What was sent has a place before the new one.
    <3>3. ASSUME NEW k \in Nat, k <= reads[p] PROVE Nth(p, k)' = Nth(p, k)
      BY <1>2, <2>2, <2>5, <3>3 DEF Nth, QueueTypes
    <3>4. TakenBy(q) + Len(queue) = reads[p]  BY <2>1, <3>1, <3>2 DEF Alone
    <3>5. msg'[p].data = <<p, typed'[p]>>
      BY <2>2, <2>4, <3>1 DEF Alone, QueueTypes
    <3>6. \A k \in DOMAIN queue : queue[k].data = Nth(p, TakenBy(q) + k)'
      <4> TAKE k \in DOMAIN queue
      <4>1. k \in 1 .. Len(queue)  BY DEF QueueTypes
      <4>2. TakenBy(q) + k \in Nat /\ TakenBy(q) + k <= reads[p]
        BY <1>2, <3>2, <3>4, <4>1
      <4> QED  BY <3>1, <3>2, <3>3, <4>2 DEF Alone
    <3>7. \A k \in DOMAIN shown[q] : shown[q][k] = Nth(p, k)'
      <4> TAKE k \in DOMAIN shown[q]
      <4>1. k \in 1 .. Len(shown[q])  BY <1>1, <1>2
      <4>2. Len(shown[q]) <= TakenBy(q)  BY <1>1, <1>2 DEF TakenBy
      <4>3. k \in Nat /\ k <= reads[p]  BY <1>1, <1>2, <3>2, <3>4, <4>1, <4>2
      <4> QED  BY <3>1, <3>3, <4>3 DEF Alone
    <3>8. rpc[q] = "print" => msg'[q].data = Nth(p, Len(shown[q]) + 1)'
      <4> SUFFICES ASSUME rpc[q] = "print"
                   PROVE  msg'[q].data = Nth(p, Len(shown[q]) + 1)'
        OBVIOUS
      <4>1. TakenBy(q) = Len(shown[q]) + 1 /\ Len(shown[q]) + 1 <= reads[p]
        BY <1>1, <1>2, <3>2, <3>4 DEF TakenBy
      <4>2. Nth(p, Len(shown[q]) + 1)' = Nth(p, Len(shown[q]) + 1)
        BY <1>1, <1>2, <2>1, <3>2, <3>3, <4>1
      <4> QED  BY <1>1, <2>4, <3>1, <4>2 DEF Alone
    <3> QED  BY <2>1, <3>1, <3>2, <3>4, <3>5, <3>6, <3>7, <3>8 DEF Alone
  <2>9. reads'[p] # 0  BY <2>3, <2>5
  <2> QED  BY <1>1, <2>5, <2>6, <2>7, <2>8, <2>9
<1>4. ASSUME NEW p \in Queue!Peers, Queue!SetType(p) PROVE QueueInv'
  <2>1. /\ spc[p] = "type" /\ spc' = [spc EXCEPT ![p] = "send"]
        /\ msg' = [msg EXCEPT ![p].type = Queue!To(p)]
        /\ UNCHANGED <<queue, rpc, typed, reads, shown>>
    BY <1>4 DEF Queue!SetType
  <2>2. msg' \in [Queue!Peers -> Packet]
    <3>1. msg' = [msg EXCEPT ![p] = [msg[p] EXCEPT !.type = Queue!To(p)]]
      BY <2>1
    <3>2. msg[p] \in Packet /\ Queue!To(p) \in {1234, 1235}
      BY DEF QueueTypes, Queue!To
    <3>3. [msg[p] EXCEPT !.type = Queue!To(p)] \in Packet  BY <3>2 DEF Packet
    <3> QED  BY <3>1, <3>3 DEF QueueTypes
  <2>3. QueueTypes'  BY <2>1, <2>2 DEF QueueTypes
  <2>4. \A r \in Queue!Peers : /\ spc'[r] \in {"type", "send"} <=> spc[r] \in {"type", "send"}
                               /\ spc'[r] = "ended" <=> spc[r] = "ended"
                               /\ spc'[r] = "send" => spc[r] = "send" \/ r = p
                               /\ msg'[r].data = msg[r].data
                               /\ r = p => msg'[r].type = Queue!To(p)
                               /\ r # p => msg'[r] = msg[r]
    BY <2>1 DEF QueueTypes, Packet
  <2>5. ASSUME NEW r \in Queue!Peers, Alone(r, Side(r)) PROVE Alone(r, Side(r))'
    <3>1. TakenBy(Side(r))' = TakenBy(Side(r)) /\ SentBy(r)' = SentBy(r)
      BY <2>1, <2>4 DEF TakenBy, SentBy
    <3>2. spc'[r] = "send" => msg'[r].type = Queue!To(r)
      BY <2>4, <2>5 DEF Alone
    <3>3. /\ msg'[r].data = <<r, typed[r]>>
          /\ rpc[Side(r)] = "print"
               => msg'[Side(r)].data = Nth(r, Len(shown[Side(r)]) + 1)
      BY <1>1, <2>4, <2>5 DEF Alone
    <3>4. \A k : Nth(r, k)' = Nth(r, k)  BY <2>1 DEF Nth
    <3> QED  BY <2>1, <2>4, <2>5, <3>1, <3>2, <3>3, <3>4 DEF Alone
  <2>6. \A r \in Queue!Peers : Quiet(r)'  BY <2>1, <2>4 DEF Quiet
  <2> QED  BY <2>1, <2>3, <2>5, <2>6
<1>5. ASSUME NEW p \in Queue!Peers, Queue!Send(p) PROVE QueueInv'
  <2> DEFINE q == Side(p)
  <2>1. /\ spc[p] = "send" /\ spc' = [spc EXCEPT ![p] = "read"]
        /\ queue' = Append(queue, msg[p]) /\ UNCHANGED <<msg, rpc, typed, reads, shown>>
    BY <1>5 DEF Queue!Send
  <2>2. /\ queue' \in Seq(Packet) /\ Len(queue') = Len(queue) + 1 /\ Len(queue) \in Nat
        /\ DOMAIN queue = 1 .. Len(queue) /\ DOMAIN queue' = 1 .. Len(queue) + 1
        /\ \A k \in 1 .. Len(queue) : queue'[k] = queue[k]
        /\ queue'[Len(queue) + 1] = msg[p]
    BY <2>1 DEF QueueTypes
  <2>3. QueueTypes' /\ \A r \in Queue!Peers : Quiet(r)'
    BY <2>1, <2>2 DEF QueueTypes, Quiet
  <2>4. reads[p] # 0  BY <2>1 DEF Quiet
  <2>5. ASSUME reads[q] = 0 PROVE Alone(p, q)'
    <3>1. Alone(p, q)  BY <1>1, <2>5
    <3>2. /\ TakenBy(q)' = TakenBy(q) /\ TakenBy(q) \in Nat
          /\ SentBy(p) = reads[p] - 1 /\ SentBy(p)' = reads[p]
          /\ reads[p] \in Nat
      BY <1>1, <1>2, <2>1 DEF TakenBy, SentBy, QueueTypes
    <3>3. TakenBy(q) + Len(queue) = reads[p] - 1  BY <2>1, <3>1, <3>2 DEF Alone
    <3>4. TakenBy(q) + (Len(queue) + 1) = reads[p]
      <4>1. Len(queue) \in Nat  BY <2>2
      <4> QED  BY <3>2, <3>3, <4>1
    <3>5. msg[p].type = Queue!To(p) /\ msg[p].data = Nth(p, reads[p])
      BY <1>2, <2>1, <3>1 DEF Alone, Nth
    <3>6. \A k \in DOMAIN queue' :
            queue'[k].type = Queue!To(p) /\ queue'[k].data = Nth(p, TakenBy(q) + k)
      <4>1. \A k \in 1 .. Len(queue) :
              queue[k].type = Queue!To(p) /\ queue[k].data = Nth(p, TakenBy(q) + k)
        BY <2>2, <3>1 DEF Alone
      <4>2. \A k \in 1 .. Len(queue) + 1 : k \in 1 .. Len(queue) \/ k = Len(queue) + 1
        BY <2>2
      <4> QED  BY <2>2, <3>4, <3>5, <4>1, <4>2
    <3>7. TakenBy(q)' + Len(queue') = SentBy(p)'  BY <2>2, <3>2, <3>4
    <3>8. spc'[p] = "read"  BY <2>1 DEF QueueTypes
    <3>9. TakenBy(q)' + Len(queue') <= SentBy(p)'  BY <1>2, <3>2, <3>7
    <3>10. \A k : Nth(p, k)' = Nth(p, k)  BY <2>1 DEF Nth
    <3> QED  BY <2>1, <3>1, <3>2, <3>6, <3>7, <3>8, <3>9, <3>10 DEF Alone
  <2> QED  BY <1>1, <2>1, <2>3, <2>4, <2>5
<1>6. ASSUME NEW q \in Queue!Peers, Queue!Recv(q) PROVE QueueInv'
  <2> DEFINE p == Side(q)
  <2>1. PICK k \in DOMAIN queue :
          /\ queue[k].type = Queue!From(q)
          /\ \A j \in 1 .. k - 1 : queue[j].type # Queue!From(q)
          /\ msg' = [msg EXCEPT ![q] = queue[k]]
          /\ queue' = Queue!RemoveAt(queue, k)
    BY <1>6 DEF Queue!Recv
  <2>2. /\ rpc[q] = "recv" /\ rpc' = [rpc EXCEPT ![q] = "print"]
        /\ UNCHANGED <<spc, typed, reads, shown>>
    BY <1>6 DEF Queue!Recv
  <2>3. k \in 1 .. Len(queue) /\ Len(queue) \in Nat  BY DEF QueueTypes
  <2>4. queue' = SubSeq(queue, 1, k - 1) \o SubSeq(queue, k + 1, Len(queue))
    BY <2>1, <2>3 DEF Queue!RemoveAt
  <2>5. /\ SubSeq(queue, 1, k - 1) \in Seq(Packet)
        /\ SubSeq(queue, k + 1, Len(queue)) \in Seq(Packet)
    BY <2>3 DEF QueueTypes
  <2>6. queue' \in Seq(Packet)  BY <2>4, <2>5
  <2>7. QueueTypes' /\ \A r \in Queue!Peers : Quiet(r)'
    BY <2>1, <2>2, <2>3, <2>6 DEF QueueTypes, Quiet
  <2>8. ASSUME reads[p] = 0 PROVE FALSE
    <3>1. Alone(q, p)  BY <2>8
    <3>2. queue[k].type = Queue!To(q)  BY <3>1 DEF Alone
    <3> QED  BY <2>1, <3>2 DEF Queue!To, Queue!From
  <2>9. ASSUME reads[q] = 0 PROVE Alone(p, q)'
    <3>1. Alone(p, q)  BY <1>1, <2>9
    <3>2. k = 1
      <4>1. \A j \in DOMAIN queue : queue[j].type = Queue!From(q)
        BY <1>1, <2>1, <3>1 DEF Alone
      <4>2. k # 1 => 1 \in 1 .. k - 1 /\ 1 \in DOMAIN queue
        BY <2>3 DEF QueueTypes
      <4> QED  BY <2>1, <4>1, <4>2
    <3>3. /\ SubSeq(queue, 1, k - 1) = <<>>
          /\ Len(SubSeq(queue, 2, Len(queue))) = Len(queue) - 1
          /\ \A j \in 1 .. Len(queue) - 1 : SubSeq(queue, 2, Len(queue))[j] = queue[j + 1]
      <4>1. queue \in Seq(Packet) /\ Len(queue) >= 1  BY <2>3, <3>2 DEF QueueTypes
      <4>2. Len(SubSeq(queue, 1, 0)) = 0 /\ SubSeq(queue, 1, 0) \in Seq(Packet)
        BY <4>1
      <4>3. SubSeq(queue, 1, k - 1) = <<>>  BY <3>2, <4>2
      <4>4. Len(SubSeq(queue, 2, Len(queue))) = Len(queue) - 1
        <5>1. CASE Len(queue) = 1  BY <4>1, <5>1
        <5>2. CASE Len(queue) >= 2  BY <2>3, <4>1, <5>2
        <5>3. Len(queue) = 1 \/ Len(queue) >= 2  BY <2>3, <4>1, OneOrMore
        <5> QED  BY <5>1, <5>2, <5>3
      <4>5. ASSUME NEW j \in 1 .. Len(queue) - 1
            PROVE  SubSeq(queue, 2, Len(queue))[j] = queue[j + 1]
        <5>1. SubSeq(queue, 2, Len(queue))[j] = queue[2 + j - 1]  BY <2>3, <4>1
        <5>2. 2 + j - 1 = j + 1  BY <2>3
        <5> QED  BY <5>1, <5>2
      <4> QED  BY <4>3, <4>4, <4>5
    <3>4. queue' = SubSeq(queue, 2, Len(queue))
      BY <2>4, <2>5, <3>2, <3>3
    <3>5. DOMAIN queue' = 1 .. Len(queue) - 1 /\ Len(queue') = Len(queue) - 1
      BY <2>3, <2>6, <3>3, <3>4
    <3>6. /\ TakenBy(q) = Len(shown[q]) /\ TakenBy(q)' = Len(shown[q]) + 1
          /\ SentBy(p)' = SentBy(p)
      BY <2>2 DEF TakenBy, SentBy, QueueTypes
    <3>7. \A j \in DOMAIN queue' :
            queue'[j].type = Queue!To(p) /\ queue'[j].data = Nth(p, Len(shown[q]) + 1 + j)
      <4> TAKE j \in DOMAIN queue'
      <4>1. j + 1 \in DOMAIN queue /\ queue'[j] = queue[j + 1]
        BY <2>3, <3>3, <3>4, <3>5 DEF QueueTypes
      <4>2. Len(shown[q]) + (j + 1) = Len(shown[q]) + 1 + j
        <5>1. j \in 1 .. Len(queue) - 1 /\ Len(shown[q]) \in Nat  BY <1>2, <3>5
        <5> QED  BY <2>3, <5>1
      <4> QED  BY <3>1, <3>6, <4>1, <4>2 DEF Alone
    <3>8. Len(shown[q]) + 1 + (Len(queue) - 1) = Len(shown[q]) + Len(queue)
      BY <1>2, <2>3
    <3>9. msg'[q].data = Nth(p, Len(shown[q]) + 1) /\ msg'[p] = msg[p]
      BY <1>1, <2>1, <3>1, <3>2, <3>6 DEF Alone, QueueTypes
    <3>10. rpc'[p] = rpc[p]  BY <1>1, <2>2 DEF QueueTypes
    <3>11. \A j : Nth(p, j)' = Nth(p, j)  BY <2>2 DEF Nth
    <3> QED
      BY <2>2, <3>1, <3>5, <3>6, <3>7, <3>8, <3>9, <3>10, <3>11 DEF Alone
  <2> QED  BY <1>1, <2>2, <2>7, <2>8, <2>9
<1>7. ASSUME NEW q \in Queue!Peers, Queue!Show(q) PROVE QueueInv'
  <2> DEFINE p == Side(q)
  <2>1. /\ rpc[q] = "print" /\ rpc' = [rpc EXCEPT ![q] = "recv"]
        /\ shown' = [shown EXCEPT ![q] = Append(shown[q], msg[q].data)]
        /\ UNCHANGED <<queue, msg, spc, typed, reads>>
    BY <1>7 DEF Queue!Show
  <2>2. msg[q].data \in Lined  BY DEF QueueTypes, Packet
  <2> DEFINE size == Len(shown[q])
  <2>3. /\ Append(shown[q], msg[q].data) \in Seq(Lined)
        /\ Len(Append(shown[q], msg[q].data)) = size + 1
        /\ DOMAIN shown[q] = 1 .. size
        /\ DOMAIN Append(shown[q], msg[q].data) = 1 .. size + 1
        /\ \A k \in 1 .. size : Append(shown[q], msg[q].data)[k] = shown[q][k]
        /\ Append(shown[q], msg[q].data)[size + 1] = msg[q].data
    BY <1>2, <2>2
  <2>4. shown'[q] = Append(shown[q], msg[q].data) /\ shown'[p] = shown[p]
        /\ rpc'[q] = "recv" /\ rpc'[p] = rpc[p]
    BY <1>1, <2>1 DEF QueueTypes
  <2>5. QueueTypes' /\ \A r \in Queue!Peers : Quiet(r)'
    BY <2>1, <2>3 DEF QueueTypes, Quiet
  <2>6. reads[p] # 0
    BY <1>1, <2>1 DEF Alone
  <2>7. ASSUME reads[q] = 0 PROVE Alone(p, q)'
    <3>1. Alone(p, q)  BY <1>1, <2>7
    <3>2. msg[q].data = Nth(p, size + 1)  BY <2>1, <3>1 DEF Alone
    <3>3. \A k \in DOMAIN shown'[q] : shown'[q][k] = Nth(p, k)
      <4>1. \A k \in 1 .. size : shown[q][k] = Nth(p, k)  BY <2>3, <3>1 DEF Alone
      <4>2. \A k \in 1 .. size + 1 : k \in 1 .. size \/ k = size + 1
        BY <1>2
      <4> QED  BY <2>3, <2>4, <3>2, <4>1, <4>2
    <3>4. TakenBy(q)' = TakenBy(q) /\ SentBy(p)' = SentBy(p)
      BY <2>1, <2>3, <2>4 DEF TakenBy, SentBy
    <3>5. \A k : Nth(p, k)' = Nth(p, k)  BY <2>1 DEF Nth
    <3> QED  BY <2>1, <2>4, <3>1, <3>3, <3>4, <3>5 DEF Alone
  <2> QED  BY <1>1, <2>1, <2>5, <2>6, <2>7
\* A call that fails ends a thread or both; it takes no text with it while only the
\* other side types.
<1>8. ASSUME NEW p \in Queue!Peers, Queue!SendFails(p) PROVE QueueInv'
  <2>1. /\ spc[p] = "send" /\ spc' = [spc EXCEPT ![p] = "ended"]
        /\ rpc' \in {rpc, [rpc EXCEPT ![p] = "ended"]}
        /\ UNCHANGED <<queue, msg, typed, reads, shown>>
    BY <1>8 DEF Queue!SendFails
  <2>2. QueueTypes' /\ \A r \in Queue!Peers : Quiet(r)'
    BY <2>1 DEF QueueTypes, Quiet
  <2>3. reads[p] # 0  BY <2>1 DEF Quiet
  <2>4. ASSUME reads[Side(p)] = 0 PROVE Alone(p, Side(p))'
    <3> DEFINE q == Side(p)
    <3>1. Alone(p, q)  BY <1>1, <2>4
    <3>2. rpc'[q] = rpc[q] /\ rpc'[p] # "print" /\ spc'[p] = "ended"
      BY <1>1, <2>1, <3>1 DEF QueueTypes, Alone
    <3>3. TakenBy(q)' = TakenBy(q) /\ SentBy(p)' = reads[p] /\ SentBy(p) = reads[p] - 1
          /\ TakenBy(q) \in Nat /\ Len(queue) \in Nat /\ \A k : Nth(p, k)' = Nth(p, k)
      BY <1>1, <1>2, <2>1, <3>2 DEF TakenBy, SentBy, Nth, QueueTypes
    <3>4. TakenBy(q)' + Len(queue') <= SentBy(p)'
      <4>1. TakenBy(q) + Len(queue) <= reads[p] - 1  BY <3>1, <3>3 DEF Alone
      <4> QED  BY <1>2, <2>1, <3>3, <4>1
    <3> QED  BY <2>1, <3>1, <3>2, <3>3, <3>4 DEF Alone
  <2> QED  BY <1>1, <2>1, <2>2, <2>3, <2>4
<1>9. ASSUME NEW q \in Queue!Peers, Queue!RecvFails(q) PROVE QueueInv'
  <2>1. /\ rpc[q] = "recv" /\ rpc' = [rpc EXCEPT ![q] = "ended"]
        /\ spc' \in {spc, [spc EXCEPT ![q] = "ended"]}
        /\ UNCHANGED <<queue, msg, typed, reads, shown>>
    BY <1>9 DEF Queue!RecvFails
  <2>2. QueueTypes' /\ \A r \in Queue!Peers : Quiet(r)'
    BY <2>1 DEF QueueTypes, Quiet
  <2>3. ASSUME NEW p \in Queue!Peers, Alone(p, Side(p)) PROVE Alone(p, Side(p))'
    <3>1. /\ \A r \in Queue!Peers : rpc'[r] = "print" <=> rpc[r] = "print"
          /\ spc'[p] \in {spc[p], "ended"}
      BY <2>1 DEF QueueTypes
    <3>2. TakenBy(Side(p))' = TakenBy(Side(p)) /\ \A k : Nth(p, k)' = Nth(p, k)
          /\ TakenBy(Side(p)) \in Nat /\ Len(queue) \in Nat
      BY <1>1, <1>2, <2>1, <3>1 DEF TakenBy, Nth, QueueTypes
    <3>3. SentBy(p)' \in Int /\ SentBy(p) \in Int /\ SentBy(p) <= SentBy(p)'
          /\ (spc'[p] # "ended" => SentBy(p)' = SentBy(p))
      BY <1>2, <2>1, <3>1 DEF SentBy
    <3>4. TakenBy(Side(p)) + Len(queue) <= SentBy(p)'
      BY <2>3, <3>2, <3>3 DEF Alone
    <3> QED  BY <1>1, <2>1, <2>3, <3>1, <3>2, <3>3, <3>4 DEF Alone
  <2> QED  BY <1>1, <2>1, <2>2, <2>3
<1>10. CASE UNCHANGED Queue!vars
  BY <1>10 DEF Queue!vars, QueueTypes, Quiet, Alone, TakenBy, SentBy, Nth
<1> QED  BY <1>3, <1>4, <1>5, <1>6, <1>7, <1>8, <1>9, <1>10 DEF Queue!Next

LEMMA QueueOneWay == QueueInv => Queue!OneWay
<1> SUFFICES ASSUME QueueInv, NEW p \in Queue!Peers, reads[Queue!Peer(p)] = 0
             PROVE  /\ shown[p] = <<>>
                    /\ \A k \in DOMAIN shown[Queue!Peer(p)] :
                         shown[Queue!Peer(p)][k] = Nth(p, k)
                    /\ Len(shown[Queue!Peer(p)]) + Len(queue) <= reads[p]
  BY DEF Queue!OneWay, Nth
<1> DEFINE q == Side(p)
<1>1. Queue!Peer(p) = q
  <2>1. \A r \in Queue!Peers : r # p <=> r = q  BY DEF Queue!Peers, Side
  <2>2. q \in Queue!Peers  BY DEF Queue!Peers, Side
  <2> QED  BY <2>1, <2>2 DEF Queue!Peer
<1>2. Alone(p, q)  BY <1>1 DEF QueueInv
<1>3. Len(shown[q]) \in Nat /\ Len(queue) \in Nat /\ reads[p] \in Nat
  BY DEF QueueInv, QueueTypes, Queue!Peers, Side
<1>4. SentBy(p) <= reads[p] /\ Len(shown[q]) <= TakenBy(q) /\ TakenBy(q) \in Nat
      /\ SentBy(p) \in Int
  BY <1>3 DEF SentBy, TakenBy
<1>5. TakenBy(q) + Len(queue) <= SentBy(p)  BY <1>2 DEF Alone
<1>6. Len(shown[q]) + Len(queue) <= reads[p]
  BY <1>3, <1>4, <1>5
<1> QED  BY <1>1, <1>2, <1>6 DEF Alone

-----------------------------------------------------------------------------
(* the contacts *)

\* Every number is in a set that has 0 and with each number the next.
LEMMA EachInTurn ==
  ASSUME NEW T, 0 \in T, \A k \in T \cap Nat : k + 1 \in T
  PROVE  Nat \subseteq T
<1> SUFFICES ASSUME Nat \ T # {} PROVE FALSE
  OBVIOUS
<1>1. \E k \in Nat \ T : \A m \in Nat \ T : ~(<<m, k>> \in OpToRel(<, Nat))
  <2>1. IsWellFoundedOn(OpToRel(<, Nat), Nat)  BY NatLessThanWellFounded
  <2>2. Nat \ T \subseteq Nat  OBVIOUS
  <2> QED  BY <2>1, <2>2, WFMin
<1>2. PICK k \in Nat \ T : \A m \in Nat \ T : ~(m < k)
  BY <1>1 DEF OpToRel
<1>3. k # 0 /\ k - 1 \in Nat /\ k - 1 + 1 = k  OBVIOUS
<1> QED  BY <1>2, <1>3

\* The function of the fold that Kept is, which takes the last of a set of places first.
Saving(s, f, S) ==
  IF S = {} THEN <<>> ELSE Book!saveNodeData(f[S \ {Book!Max(S)}], s[Book!Max(S)])
IsFold(s, D, f) == f = [S \in SUBSET D |-> Saving(s, f, S)]

\* There is one.
LEMMA FoldExists ==
  ASSUME NEW s, NEW m \in Nat
  PROVE  \E f : IsFold(s, 1 .. m, f)
<1> DEFINE T == {k \in Nat : \E f : IsFold(s, 1 .. k, f)}
<1>1. 0 \in T
  <2> DEFINE f == [S \in SUBSET (1 .. 0) |-> <<>>]
  <2>1. \A S \in SUBSET (1 .. 0) : S = {}  OBVIOUS
  <2>2. \A S \in SUBSET (1 .. 0) : Saving(s, f, S) = <<>>  BY <2>1 DEF Saving
  <2>3. IsFold(s, 1 .. 0, f)  BY <2>2 DEF IsFold
  <2> QED  BY <2>3
<1>2. ASSUME NEW k \in T PROVE k + 1 \in T
  <2> DEFINE D == 1 .. k
  <2> DEFINE E == 1 .. k + 1
  <2>1. PICK f : IsFold(s, D, f)  BY <1>2
  <2> DEFINE g == [S \in SUBSET E |->
                     IF k + 1 \in S THEN Book!saveNodeData(f[S \ {k + 1}], s[k + 1])
                     ELSE f[S]]
  <2>2. ASSUME NEW S \in SUBSET E PROVE g[S] = Saving(s, g, S)
    <3>1. CASE k + 1 \in S
      <4>1. Book!Max(S) = k + 1
        <5>1. \A y \in S : k + 1 >= y  OBVIOUS
        <5>2. \A z \in S : (\A y \in S : z >= y) => z = k + 1  BY <3>1
        <5> QED  BY <3>1, <5>1, <5>2 DEF Book!Max
      <4>2. g[S \ {k + 1}] = f[S \ {k + 1}]  BY <3>1
      <4>3. S # {} /\ g[S] = Book!saveNodeData(f[S \ {k + 1}], s[k + 1])  BY <3>1
      <4> HIDE DEF g
      <4> QED  BY <4>1, <4>2, <4>3, Zenon DEF Saving
    <3>2. CASE k + 1 \notin S
      <4>1. S \in SUBSET D  BY <3>2
      <4>2. f[S] = Saving(s, f, S)  BY <2>1, <4>1, Zenon DEF IsFold
      <4>3. \A z : S \ {z} \in SUBSET E /\ k + 1 \notin S \ {z}  BY <3>2
      <4>4. \A z : g[S \ {z}] = f[S \ {z}]  BY <4>3
      <4>5. g[S] = f[S]  BY <3>2
      <4> HIDE DEF g
      <4> QED  BY <4>2, <4>4, <4>5, Zenon DEF Saving
    <3> QED  BY <3>1, <3>2
  <2>3. IsFold(s, E, g)
    <3> HIDE DEF E
    <3>1. g = [S \in SUBSET E |-> g[S]]  BY Zenon
    <3> HIDE DEF g
    <3> QED  BY <2>2, <3>1, Zenon DEF IsFold
  <2> QED  BY <2>3
<1>3. Nat \subseteq T
  <2> HIDE DEF T
  <2> QED  BY <1>1, <1>2, EachInTurn
<1> QED  BY <1>3

\* What is kept of a sequence is made from <<>> by saveNodeData with each in turn.
LEMMA KeptInTurn ==
  ASSUME NEW s, NEW m \in Nat, DOMAIN s = 1 .. m
  PROVE  \E g : /\ g[0] = <<>> /\ g[m] = Book!Kept(s)
                /\ \A k \in 0 .. m - 1 : g[k + 1] = Book!saveNodeData(g[k], s[k + 1])
<1>1. Book!Kept(s) = (CHOOSE f : IsFold(s, DOMAIN s, f))[DOMAIN s]
  BY DEF Book!Kept, Book!FoldLeft, Book!MapThenFoldSet, IsFold, Saving
<1>2. PICK f : IsFold(s, 1 .. m, f) /\ Book!Kept(s) = f[1 .. m]
  BY <1>1, FoldExists
<1> DEFINE g == [k \in 0 .. m |-> f[1 .. k]]
<1>3. \A S \in SUBSET (1 .. m) : f[S] = Saving(s, f, S)
  BY <1>2, Zenon DEF IsFold
<1>4. g[0] = <<>>
  <2>1. 1 .. 0 = {} /\ {} \in SUBSET (1 .. m) /\ g[0] = f[1 .. 0]  OBVIOUS
  <2> HIDE DEF g
  <2> QED  BY <1>3, <2>1, Zenon DEF Saving
<1>5. ASSUME NEW k \in 0 .. m - 1 PROVE g[k + 1] = Book!saveNodeData(g[k], s[k + 1])
  <2> DEFINE S == 1 .. k + 1
  <2>1. S \in SUBSET (1 .. m) /\ S # {}
    <3>1. k \in Int /\ k >= 0 /\ k + 1 <= m  OBVIOUS
    <3>2. \A i \in S : i \in 1 .. m  BY <3>1
    <3>3. k + 1 \in S  BY <3>1
    <3> HIDE DEF S
    <3> QED  BY <3>2, <3>3
  <2>2. Book!Max(S) = k + 1
    <3>1. k + 1 \in S /\ \A y \in S : k + 1 >= y  OBVIOUS
    <3>2. \A z \in S : (\A y \in S : z >= y) => z = k + 1  BY <3>1
    <3> QED  BY <3>1, <3>2 DEF Book!Max
  <2>3. S \ {k + 1} = 1 .. k  OBVIOUS
  <2>4. g[k + 1] = f[S] /\ g[k] = f[1 .. k]  OBVIOUS
  <2> HIDE DEF S, g
  <2> QED  BY <1>3, <2>1, <2>2, <2>3, <2>4, Zenon DEF Saving
<1>6. g[m] = Book!Kept(s)  BY <1>2
<1> QED  BY <1>4, <1>5, <1>6
\* Contacts in order stay in order, if some are left out.
Contact == [letter : Nat, upper : BOOLEAN]

LEMMA KeptInOrder ==
  ASSUME NEW s \in Seq(Contact), Book!InOrder(s)
  PROVE  Book!Kept(s) \in Seq(Contact) /\ Book!InOrder(Book!Kept(s))
<1> DEFINE m == Len(s)
<1>1. m \in Nat /\ DOMAIN s = 1 .. m  OBVIOUS
<1>2. PICK g : /\ g[0] = <<>> /\ g[m] = Book!Kept(s)
               /\ \A k \in 0 .. m - 1 : g[k + 1] = Book!saveNodeData(g[k], s[k + 1])
  BY <1>1, KeptInTurn
<1> DEFINE Good(k) == /\ g[k] \in Seq(Contact) /\ Book!InOrder(g[k])
                      /\ \A i \in DOMAIN g[k] : \E j \in 1 .. k : g[k][i] = s[j]
<1> DEFINE T == {k \in Nat : k <= m => Good(k)}
<1>3. 0 \in T
  <2>1. <<>> \in Seq(Contact) /\ DOMAIN <<>> = {}  OBVIOUS
  <2>2. g[0] \in Seq(Contact) /\ DOMAIN g[0] = {}  BY <1>2, <2>1, Zenon
  <2> QED  BY <2>2 DEF Book!InOrder
<1>4. ASSUME NEW k \in T PROVE k + 1 \in T
  <2> SUFFICES ASSUME k + 1 <= m PROVE Good(k + 1)
    OBVIOUS
  <2>1. k \in 0 .. m - 1 /\ Good(k)  BY <1>1
  <2>2. g[k + 1] = g[k] \/ g[k + 1] = Append(g[k], s[k + 1])
    BY <1>2, <2>1 DEF Book!saveNodeData
  <2>3. CASE g[k + 1] = g[k]  BY <2>1, <2>3
  <2>4. CASE g[k + 1] = Append(g[k], s[k + 1])
    <3> DEFINE h == g[k]
    <3> DEFINE h1 == Append(h, s[k + 1])
    <3>1. s[k + 1] \in Contact  BY <1>1, <2>1
    <3>2. h \in Seq(Contact) /\ Book!InOrder(h)
          /\ \A i \in DOMAIN h : \E j \in 1 .. k : h[i] = s[j]
      BY <2>1
    <3> HIDE DEF h
    <3>3. h1 \in Seq(Contact) /\ DOMAIN h1 = 1 .. Len(h) + 1 /\ DOMAIN h = 1 .. Len(h)
          /\ \A i \in DOMAIN h1 : h1[i] = IF i = Len(h) + 1 THEN s[k + 1] ELSE h[i]
      BY <3>1, <3>2
    <3> HIDE DEF h1
    <3>4. \A i \in DOMAIN h1 : \E j \in 1 .. k + 1 : h1[i] = s[j]  BY <3>2, <3>3
    <3>5. Book!InOrder(h1)
      <4> SUFFICES ASSUME NEW i \in DOMAIN h1, NEW j \in DOMAIN h1, i < j
                   PROVE  h1[i].letter <= h1[j].letter
        BY DEF Book!InOrder
      <4>1. i \in DOMAIN h /\ h1[i] = h[i]  BY <3>2, <3>3
      <4>2. CASE j \in DOMAIN h  BY <3>2, <3>3, <4>1, <4>2 DEF Book!InOrder
      <4>3. CASE j = Len(h) + 1
        <5>1. PICK l \in 1 .. k : h[i] = s[l]  BY <3>2, <4>1
        <5>2. l \in DOMAIN s /\ k + 1 \in DOMAIN s /\ l < k + 1  BY <1>1, <2>1
        <5>3. s[l].letter <= s[k + 1].letter  BY <5>2 DEF Book!InOrder
        <5> QED  BY <3>3, <4>1, <4>3, <5>1, <5>3
      <4> QED  BY <3>2, <3>3, <4>2, <4>3
    <3>6. h1 = g[k + 1]  BY <2>4 DEF h, h1
    <3> QED  BY <3>3, <3>4, <3>5, <3>6, Zenon
  <2> QED  BY <2>2, <2>3, <2>4
<1>5. Good(m)
  <2>1. Nat \subseteq T
    <3> HIDE DEF T
    <3> QED  BY <1>3, <1>4, EachInTurn
  <2> QED  BY <1>1, <2>1
<1> QED  BY <1>2, <1>5

\* The contacts of the list, with those that are to be linked, and those of the file are
\* in order.
BookTypes ==
  /\ pc \in {"off", "start", "load", "menu", "linked", "save", "write"}
  /\ file \in Seq(Contact) /\ list \in Seq(Contact) /\ rest \in Seq(Contact)
  /\ out \in Seq(Contact) /\ freed \in BOOLEAN
ListInOrder == Book!InOrder(file) /\ Book!InOrder(list \o rest)

\* What is not linked yet is there while the file is read or a contact is linked only.
NotLinked ==
  /\ pc = "start" => list = <<>>
  /\ pc \in {"menu", "save", "write"} => rest = <<>>

\* A list that is not harmed is not freed before it is written, and is written from its
\* first contact on.
FreedLate ==
  /\ pc \in {"start", "load", "menu", "linked"} => ~freed
  /\ pc = "save" /\ freed => harmed
OutIsFirst ==
  pc = "write" => Len(out) <= Len(list) /\ \A i \in 1 .. Len(out) : out[i] = list[i]

BookInv == BookTypes /\ ListInOrder /\ NotLinked /\ FreedLate /\ OutIsFirst /\ Book!Saved

LEMMA NamesAreContacts == ASSUME NEW m \in Names PROVE m \in Contact
<1>1. CASE m \in [letter : {1}, upper : BOOLEAN]  BY <1>1 DEF Contact
<1>2. CASE m \in {[letter |-> 0, upper |-> TRUE], [letter |-> 2, upper |-> TRUE]}
  <2>1. \A k \in Nat, u \in BOOLEAN : [letter |-> k, upper |-> u] \in Contact
    BY DEF Contact
  <2>2. [letter |-> 0, upper |-> TRUE] \in Contact  BY <2>1
  <2>3. [letter |-> 2, upper |-> TRUE] \in Contact  BY <2>1
  <2> QED  BY <1>2, <2>2, <2>3, Zenon
<1> QED  BY <1>1, <1>2 DEF Names

LEMMA BookInit == Book!Init => BookInv
<1> SUFFICES ASSUME Book!Init PROVE BookInv
  OBVIOUS
<1>1. file \in Seq(Contact) /\ Len(file) <= 1
  <2>1. file = <<>> \/ \E m \in Names : file = <<m>>
    BY Zenon DEF Book!Init
  <2>2. \A m \in Names : m \in Contact  BY NamesAreContacts
  <2>3. CASE file = <<>>  BY <2>3
  <2>4. CASE \E m \in Names : file = <<m>>  BY <2>2, <2>4
  <2> QED  BY <2>1, <2>3, <2>4
<1>2. /\ list = <<>> /\ rest = <<>> /\ out = <<>> /\ pc = "off"
      /\ ~freed /\ freed \in BOOLEAN /\ harmed
  BY DEF Book!Init
<1>3. BookTypes  BY <1>1, <1>2 DEF BookTypes
<1>4. ListInOrder
  <2>1. <<>> \o <<>> = <<>> /\ DOMAIN <<>> = {}  OBVIOUS
  <2>2. DOMAIN (list \o rest) = {}  BY <1>2, <2>1, Zenon
  <2>3. Book!InOrder(file)  BY <1>1 DEF Book!InOrder
  <2> QED  BY <2>2, <2>3 DEF ListInOrder, Book!InOrder
<1> QED
  BY <1>1, <1>2, <1>3, <1>4
  DEF BookInv, NotLinked, FreedLate, OutIsFirst, Book!Saved, Book!Running

\* Two sequences after each other.
LEMMA Joined ==
  ASSUME NEW s \in Seq(Contact), NEW t \in Seq(Contact)
  PROVE  Book!InOrder(s \o t) <=>
           /\ Book!InOrder(s) /\ Book!InOrder(t)
           /\ \A i \in DOMAIN s, j \in DOMAIN t : s[i].letter <= t[j].letter
<1> DEFINE h == s \o t
<1>1. /\ DOMAIN s = 1 .. Len(s) /\ DOMAIN t = 1 .. Len(t) /\ Len(s) \in Nat /\ Len(t) \in Nat
      /\ DOMAIN h = 1 .. Len(s) + Len(t)
      /\ \A i \in DOMAIN h : h[i] = IF i <= Len(s) THEN s[i] ELSE t[i - Len(s)]
  OBVIOUS
<1> HIDE DEF h
<1>2. \A i \in DOMAIN s : i \in DOMAIN h /\ h[i] = s[i]  BY <1>1
<1>3. \A j \in DOMAIN t : Len(s) + j \in DOMAIN h /\ h[Len(s) + j] = t[j]  BY <1>1
<1>4. ASSUME Book!InOrder(h)
      PROVE  /\ Book!InOrder(s) /\ Book!InOrder(t)
             /\ \A i \in DOMAIN s, j \in DOMAIN t : s[i].letter <= t[j].letter
  <2>1. Book!InOrder(s)  BY <1>1, <1>2, <1>4 DEF Book!InOrder
  <2>2. Book!InOrder(t)
    <3> SUFFICES ASSUME NEW i \in DOMAIN t, NEW j \in DOMAIN t, i < j
                 PROVE  t[i].letter <= t[j].letter
      BY DEF Book!InOrder
    <3>1. Len(s) + i < Len(s) + j  BY <1>1
    <3> QED  BY <1>3, <1>4, <3>1 DEF Book!InOrder
  <2>3. ASSUME NEW i \in DOMAIN s, NEW j \in DOMAIN t PROVE s[i].letter <= t[j].letter
    <3>1. i < Len(s) + j  BY <1>1
    <3> QED  BY <1>2, <1>3, <1>4, <3>1 DEF Book!InOrder
  <2> QED  BY <2>1, <2>2, <2>3
<1>5. ASSUME Book!InOrder(s), Book!InOrder(t),
             \A i \in DOMAIN s, j \in DOMAIN t : s[i].letter <= t[j].letter
      PROVE  Book!InOrder(h)
  <2> SUFFICES ASSUME NEW i \in DOMAIN h, NEW j \in DOMAIN h, i < j
               PROVE  h[i].letter <= h[j].letter
    BY DEF Book!InOrder
  <2>1. CASE i <= Len(s) /\ j <= Len(s)  BY <1>1, <1>5, <2>1 DEF Book!InOrder
  <2>2. CASE i <= Len(s) /\ j > Len(s)
    <3>1. i \in DOMAIN s /\ j - Len(s) \in DOMAIN t  BY <1>1, <2>2
    <3> QED  BY <1>1, <1>5, <2>2, <3>1
  <2>3. CASE i > Len(s)
    <3>1. i - Len(s) \in DOMAIN t /\ j - Len(s) \in DOMAIN t /\ i - Len(s) < j - Len(s)
      BY <1>1, <2>3
    <3>2. h[i] = t[i - Len(s)] /\ h[j] = t[j - Len(s)]  BY <1>1, <2>3
    <3> QED  BY <1>5, <3>1, <3>2 DEF Book!InOrder
  <2> QED  BY <1>1, <2>1, <2>2, <2>3
<1> QED  BY <1>4, <1>5 DEF h

\* The first of some places.
LEMMA FirstPlace ==
  ASSUME NEW m \in Nat, NEW I \in SUBSET (1 .. m), I # {}
  PROVE  Book!Min(I) \in I /\ \A k \in I : Book!Min(I) <= k
<1>1. \E k \in I : \A j \in I : ~(<<j, k>> \in OpToRel(<, Nat))
  <2>1. IsWellFoundedOn(OpToRel(<, Nat), Nat)  BY NatLessThanWellFounded
  <2>2. I \subseteq Nat  OBVIOUS
  <2> QED  BY <2>1, <2>2, WFMin
<1>2. PICK k \in I : \A j \in I : ~(<<j, k>> \in OpToRel(<, Nat))
  BY <1>1
<1>3. \A j \in I : j \in Nat  OBVIOUS
<1>4. \A j \in I : ~(j < k)  BY <1>2, <1>3 DEF OpToRel
<1>5. \A j \in I : k <= j  BY <1>3, <1>4
<1> QED  BY <1>5 DEF Book!Min

\* What is behind a place.
LEMMA Behind ==
  ASSUME NEW s \in Seq(Contact), NEW k \in Nat, k <= Len(s)
  PROVE  /\ SubSeq(s, k + 1, Len(s)) \in Seq(Contact)
         /\ Len(SubSeq(s, k + 1, Len(s))) = Len(s) - k
         /\ \A i \in 1 .. Len(s) - k : SubSeq(s, k + 1, Len(s))[i] = s[k + i]
<1> DEFINE L == Len(s)
<1> DEFINE t == SubSeq(s, k + 1, L)
<1>1. L \in Nat /\ k + 1 \in Int /\ \A i \in k + 1 .. L : s[i] \in Contact
  OBVIOUS
<1>2. /\ t \in Seq(Contact) /\ Len(t) = IF k + 1 <= L THEN L - (k + 1) + 1 ELSE 0
      /\ \A i \in 1 .. L - (k + 1) + 1 : t[i] = s[k + 1 + i - 1]
  BY <1>1, SubSeqProperties
<1> HIDE DEF t
<1>3. L - (k + 1) + 1 = L - k /\ \A i \in 1 .. L - k : k + 1 + i - 1 = k + i
  BY <1>1
<1>4. Len(t) = L - k  BY <1>1, <1>2
<1> QED  BY <1>2, <1>3, <1>4 DEF t

\* The new contact comes behind those that are not above it.
LEMMA LinkStep ==
  ASSUME BookInv, NEW m \in Names, Book!Link(m)
  PROVE  BookInv'
<1> DEFINE L == Len(list)
<1> DEFINE I == {i \in 1 .. L : Book!Above(list[i], m)}
<1> DEFINE k == IF \E i \in DOMAIN list : Book!Above(list[i], m) THEN Book!Min(I) - 1 ELSE L
<1> DEFINE p == SubSeq(list, 1, k)
<1>1. /\ BookTypes /\ rest = <<>> /\ pc = "menu" /\ pc' = "linked" /\ ~freed
      /\ list \in Seq(Contact) /\ L \in Nat /\ DOMAIN list = 1 .. L /\ m \in Contact
      /\ UNCHANGED <<exists, file, out, freed, harmed>>
  BY NamesAreContacts DEF Book!Link, BookInv, NotLinked, FreedLate, BookTypes
<1>2. /\ list' = Append(p, m)
      /\ rest' = SubSeq(list, k + 1, L)
  BY <1>1 DEF Book!Link, Book!SelectInSeq
<1>6. m.letter \in Nat /\ \A i \in 1 .. L : list[i].letter \in Nat
  <2>1. \A c \in Contact : c.letter \in Nat  BY DEF Contact
  <2>2. \A i \in 1 .. L : list[i] \in Contact  BY <1>1
  <2> QED  BY <1>1, <2>1, <2>2
<1>3. /\ k \in 0 .. L /\ \A i \in 1 .. k : list[i].letter <= m.letter
      /\ k < L => list[k + 1].letter > m.letter
  <2>1. CASE I # {}
    <3>1. Book!Min(I) \in I /\ \A i \in I : Book!Min(I) <= i
      <4>1. I \in SUBSET (1 .. L)  OBVIOUS
      <4> HIDE DEF I, L
      <4> QED  BY <1>1, <2>1, <4>1, FirstPlace
    <3>2. k = Book!Min(I) - 1  BY <1>1, <2>1
    <3> DEFINE j == Book!Min(I)
    <3>3. j \in 1 .. L /\ list[j].letter > m.letter  BY <3>1 DEF Book!Above
    <3>4. \A i \in 1 .. L : i < j => ~(list[i].letter > m.letter)
      BY <1>1, <3>1, <3>3 DEF Book!Above
    <3> HIDE DEF j
    <3>5. k = j - 1  BY <3>2 DEF j
    <3> HIDE DEF k, I
    <3> QED  BY <1>1, <1>6, <3>3, <3>4, <3>5
  <2>2. CASE I = {}
    <3>1. k = L  BY <1>1, <2>2
    <3>2. \A i \in 1 .. L : ~(list[i].letter > m.letter)  BY <2>2 DEF Book!Above
    <3> HIDE DEF k, I
    <3> QED  BY <1>1, <1>6, <3>1, <3>2
  <2> QED  BY <2>1, <2>2
<1> HIDE DEF k, I
<1>4. Book!InOrder(list)
  BY <1>1 DEF BookInv, ListInOrder
<1>5. /\ p \in Seq(Contact) /\ Len(p) = k /\ list' \in Seq(Contact) /\ rest' \in Seq(Contact)
      /\ Len(list') = k + 1 /\ Len(rest') = L - k
      /\ \A i \in 1 .. k + 1 : list'[i] = IF i = k + 1 THEN m ELSE list[i]
      /\ \A i \in 1 .. L - k : rest'[i] = list[k + i]
  <2>1. k \in Nat /\ k <= L  BY <1>1, <1>3
  <2> HIDE DEF L
  <2>2. /\ p \in Seq(Contact) /\ Len(p) = k /\ \A i \in 1 .. k : p[i] = list[i]
    BY <1>1, <2>1
  <2>3. /\ SubSeq(list, k + 1, L) \in Seq(Contact) /\ Len(SubSeq(list, k + 1, L)) = L - k
        /\ \A i \in 1 .. L - k : SubSeq(list, k + 1, L)[i] = list[k + i]
    BY <1>1, <2>1, Behind DEF L
  <2> HIDE DEF p
  <2> QED  BY <1>1, <1>2, <2>1, <2>2, <2>3
<1>7. Book!InOrder(list')
  BY <1>1, <1>3, <1>4, <1>5, <1>6 DEF Book!InOrder
<1>8. Book!InOrder(rest')
  <2> SUFFICES ASSUME NEW i \in DOMAIN rest', NEW j \in DOMAIN rest', i < j
               PROVE  rest'[i].letter <= rest'[j].letter
    BY DEF Book!InOrder
  <2>1. i \in 1 .. L - k /\ j \in 1 .. L - k  BY <1>5
  <2>2. k + i \in 1 .. L /\ k + j \in 1 .. L /\ k + i < k + j  BY <1>1, <1>3, <2>1
  <2>3. list[k + i].letter <= list[k + j].letter
    BY <1>1, <1>4, <2>2 DEF Book!InOrder
  <2> QED  BY <1>5, <2>1, <2>3
<1>9. ASSUME NEW i \in DOMAIN list', NEW j \in DOMAIN rest'
      PROVE  list'[i].letter <= rest'[j].letter
  <2>1. i \in 1 .. k + 1 /\ j \in 1 .. L - k  BY <1>1, <1>3, <1>5
  <2>2. k + j \in 1 .. L /\ k < L /\ k + 1 \in 1 .. L  BY <1>1, <1>3, <2>1
  <2>3. rest'[j] = list[k + j] /\ list[k + 1].letter > m.letter  BY <1>3, <1>5, <2>1, <2>2
  <2>4. list[k + 1].letter <= list[k + j].letter
    <3>1. CASE j = 1  BY <1>6, <2>2, <3>1
    <3>2. CASE j # 1
      <4>1. k + 1 < k + j  BY <1>1, <1>3, <2>1, <3>2
      <4> QED  BY <1>1, <1>4, <2>2, <4>1 DEF Book!InOrder
    <3> QED  BY <3>1, <3>2
  <2>5. list'[i].letter <= m.letter  BY <1>1, <1>3, <1>5, <1>6, <2>1
  <2>6. list'[i].letter \in Nat
    <3>1. CASE i = k + 1  BY <1>5, <1>6, <2>1, <3>1
    <3>2. CASE i # k + 1  BY <1>1, <1>3, <1>5, <1>6, <2>1, <3>2
    <3> QED  BY <3>1, <3>2
  <2> QED  BY <1>6, <2>2, <2>3, <2>4, <2>5, <2>6
<1>10. Book!InOrder(list' \o rest')
  BY <1>5, <1>7, <1>8, <1>9, Joined
<1>11. BookTypes' /\ ListInOrder'
  BY <1>1, <1>5, <1>10 DEF BookTypes, ListInOrder, BookInv
<1> QED
  BY <1>1, <1>11 DEF BookInv, NotLinked, FreedLate, OutIsFirst, Book!Saved, Book!Running

\* A contact less.
LEMMA DeleteStep ==
  ASSUME BookInv, NEW m, Book!deleteNode(m)
  PROVE  BookInv'
<1> DEFINE L == Len(list)
<1> DEFINE I == {i \in 1 .. L : list[i] = m}
<1> DEFINE k == Book!Min(I)
<1>1. /\ BookTypes /\ rest = <<>> /\ pc = "menu" /\ list \in Seq(Contact) /\ Book!InOrder(list)
      /\ L \in Nat /\ DOMAIN list = 1 .. L
      /\ UNCHANGED <<pc, exists, file, rest, out, freed, harmed>>
  BY DEF Book!deleteNode, BookInv, NotLinked, BookTypes, ListInOrder
<1>2. list' \in Seq(Contact) /\ Book!InOrder(list')
  <2>1. CASE m \in Book!Range(list)
    <3>1. I # {}  BY <1>1, <2>1 DEF Book!Range
    <3>2. k \in 1 .. L
      <4>1. I \in SUBSET (1 .. L)  OBVIOUS
      <4> HIDE DEF I, L
      <4>2. k \in I  BY <1>1, <3>1, <4>1, FirstPlace
      <4> QED  BY <4>1, <4>2
    <3>3. list' = SubSeq(list, 1, k - 1) \o SubSeq(list, k + 1, L)
      BY <2>1, <3>1 DEF Book!deleteNode, Book!RemoveAt, Book!SelectInSeq
    <3> HIDE DEF k, I
    <3> DEFINE s == SubSeq(list, 1, k - 1)
    <3> DEFINE t == SubSeq(list, k + 1, L)
    <3>4. /\ s \in Seq(Contact) /\ t \in Seq(Contact)
          /\ \A i \in DOMAIN s : s[i] = list[i] /\ i \in 1 .. L /\ i < k
          /\ \A i \in DOMAIN t : t[i] = list[k + i] /\ k + i \in 1 .. L
      <4>1. s \in Seq(Contact) /\ Len(s) = k - 1 /\ \A i \in 1 .. k - 1 : s[i] = list[i]
        BY <1>1, <3>2
      <4>2. t \in Seq(Contact) /\ Len(t) = L - k /\ \A i \in 1 .. L - k : t[i] = list[k + i]
        <5>1. k \in Nat /\ k <= Len(list)  BY <1>1, <3>2
        <5> QED  BY <1>1, <5>1, Behind
      <4> HIDE DEF s, t
      <4>3. DOMAIN s = 1 .. k - 1 /\ DOMAIN t = 1 .. L - k  BY <4>1, <4>2
      <4> QED  BY <1>1, <3>2, <4>1, <4>2, <4>3
    <3> HIDE DEF s, t
    <3>5. Book!InOrder(s)  BY <1>1, <3>4 DEF Book!InOrder
    <3>6. Book!InOrder(t)
      <4> SUFFICES ASSUME NEW i \in DOMAIN t, NEW j \in DOMAIN t, i < j
                   PROVE  t[i].letter <= t[j].letter
        BY DEF Book!InOrder
      <4>1. i \in Int /\ j \in Int /\ k \in Int  BY <3>2, <3>4
      <4>2. k + i < k + j  BY <4>1
      <4> QED  BY <1>1, <3>4, <4>2 DEF Book!InOrder
    <3>7. ASSUME NEW i \in DOMAIN s, NEW j \in DOMAIN t PROVE s[i].letter <= t[j].letter
      <4>1. i \in Int /\ j \in Nat /\ k \in Int /\ i < k  BY <3>2, <3>4
      <4>2. i < k + j  BY <4>1
      <4> QED  BY <1>1, <3>4, <4>2 DEF Book!InOrder
    <3>8. Book!InOrder(s \o t) /\ s \o t \in Seq(Contact)
      BY <3>4, <3>5, <3>6, <3>7, Joined
    <3> QED  BY <3>3, <3>8 DEF s, t
  <2>2. CASE m \notin Book!Range(list)  BY <1>1, <2>2 DEF Book!deleteNode
  <2> QED  BY <2>1, <2>2
<1>3. list' \o rest' = list'  BY <1>1, <1>2
<1> QED
  BY <1>1, <1>2, <1>3
  DEF BookInv, BookTypes, ListInOrder, NotLinked, FreedLate, OutIsFirst, Book!Saved,
      Book!Running
\* The handler takes the list as it is, or with what of the rest it reaches.
LEMMA SignalStep ==
  ASSUME BookInv, Book!Signal
  PROVE  BookInv'
<1>1. /\ pc' = "save" /\ rest' = <<>> /\ UNCHANGED <<exists, file, out>>
      /\ BookTypes /\ Book!InOrder(file) /\ Book!InOrder(list \o rest)
      /\ list \in Seq(Contact) /\ rest \in Seq(Contact)
  BY DEF Book!Signal, BookInv, BookTypes, ListInOrder
<1>2. freed' \in BOOLEAN /\ (freed' => harmed')
  <2>1. freed' \in BOOLEAN  BY Zenon DEF Book!Signal
  <2>2. CASE Book!Intact
    <3>1. freed' = FALSE  BY <2>2, Zenon DEF Book!Signal
    <3> QED  BY <3>1
  <2>3. CASE ~Book!Intact
    <3>1. harmed'  BY <2>3, Zenon DEF Book!Signal
    <3> QED  BY <2>1, <3>1
  <2> QED  BY <2>1, <2>2, <2>3
<1>3. list' \in Seq(Contact) /\ Book!InOrder(list')
  <2>1. CASE list' = list  BY <1>1, <2>1, Joined
  <2>2. ASSUME NEW i \in 1 .. Len(rest) + 1, list' = list \o SubSeq(rest, i, Len(rest))
        PROVE  list' \in Seq(Contact) /\ Book!InOrder(list')
    <3> DEFINE k == i - 1
    <3> DEFINE t == SubSeq(rest, i, Len(rest))
    <3>1. k \in Nat /\ k <= Len(rest) /\ i = k + 1 /\ Len(rest) \in Nat  BY <1>1
    <3>2. t = SubSeq(rest, k + 1, Len(rest))  BY <3>1
    <3> HIDE DEF k, t
    <3>3. t \in Seq(Contact) /\ Len(t) = Len(rest) - k
          /\ \A j \in 1 .. Len(rest) - k : t[j] = rest[k + j]
      BY <1>1, <3>1, <3>2, Behind
    <3>4. \A j \in DOMAIN t : t[j] = rest[k + j] /\ k + j \in DOMAIN rest /\ j \in Nat
      BY <1>1, <3>1, <3>3
    <3>5. Book!InOrder(list) /\ Book!InOrder(rest)
          /\ \A l \in DOMAIN list, j \in DOMAIN rest : list[l].letter <= rest[j].letter
      BY <1>1, Joined
    <3>6. Book!InOrder(t)
      <4> SUFFICES ASSUME NEW j \in DOMAIN t, NEW l \in DOMAIN t, j < l
                   PROVE  t[j].letter <= t[l].letter
        BY DEF Book!InOrder
      <4>1. k + j < k + l  BY <3>1, <3>4
      <4> QED  BY <3>4, <3>5, <4>1 DEF Book!InOrder
    <3>7. \A l \in DOMAIN list, j \in DOMAIN t : list[l].letter <= t[j].letter
      BY <3>4, <3>5
    <3>8. Book!InOrder(list \o t)  BY <1>1, <3>3, <3>5, <3>6, <3>7, Joined
    <3>9. list \o t \in Seq(Contact)  BY <1>1, <3>3
    <3> QED  BY <2>2, <3>8, <3>9, Zenon DEF t
  <2>3. \/ list' = list
        \/ \E i \in 1 .. Len(rest) + 1 : list' = list \o SubSeq(rest, i, Len(rest))
    BY Zenon DEF Book!Signal
  <2> QED  BY <2>1, <2>2, <2>3
<1>4. list' \o rest' = list'  BY <1>1, <1>3
<1> QED
  BY <1>1, <1>2, <1>3, <1>4
  DEF BookInv, BookTypes, ListInOrder, NotLinked, FreedLate, OutIsFirst, Book!Saved,
      Book!Running

\* The first contacts of a list in order are in order.
LEMMA FirstInOrder ==
  ASSUME NEW s \in Seq(Contact), NEW t \in Seq(Contact), Book!InOrder(t),
         Len(s) <= Len(t), \A i \in 1 .. Len(s) : s[i] = t[i]
  PROVE  Book!InOrder(s)
<1>1. /\ Len(s) \in Nat /\ Len(t) \in Nat
      /\ DOMAIN s = 1 .. Len(s) /\ DOMAIN t = 1 .. Len(t)
  OBVIOUS
<1>2. \A i \in DOMAIN s : i \in DOMAIN t /\ s[i] = t[i]  BY <1>1
<1> QED  BY <1>2 DEF Book!InOrder

LEMMA BookStep == BookInv /\ [Book!Next]_Book!vars => BookInv'
<1> SUFFICES ASSUME BookInv, [Book!Next]_Book!vars PROVE BookInv'
  OBVIOUS
<1> USE DEF BookInv, BookTypes, ListInOrder, NotLinked, FreedLate, OutIsFirst, Book!Saved,
            Book!Running
<1>1. CASE Book!Start
  <2>1. Book!InOrder(rest)  BY Joined
  <2>2. <<>> \o rest = rest  OBVIOUS
  <2>3. list' \o rest' = rest  BY <1>1, <2>2, Zenon DEF Book!Start
  <2>4. Book!InOrder(list' \o rest')  BY <2>1, <2>3, Zenon
  <2>5. /\ pc' = "start" /\ list' = <<>> /\ ~freed' /\ freed' \in BOOLEAN
        /\ UNCHANGED <<file, rest, out>>
    BY <1>1 DEF Book!Start
  <2>6. <<>> \in Seq(Contact)  OBVIOUS
  <2>7. BookTypes'  BY <2>5
  <2>8. ListInOrder'  BY <2>4, <2>5
  <2> QED  BY <2>5, <2>7, <2>8
<1>2. CASE Book!Open
  <2>1. <<>> \o file = file  OBVIOUS
  <2>2. list' \o rest' = file  BY <1>2, <2>1, Zenon DEF Book!Open
  <2> QED  BY <1>2, <2>2 DEF Book!Open
<1>3. CASE Book!ReadNode
  <2>1. CASE rest = <<>>  BY <1>3, <2>1 DEF Book!ReadNode
  <2>2. CASE rest # <<>>
    <3>1. list' = Append(list, Head(rest)) /\ rest' = Tail(rest)
      BY <1>3, <2>2 DEF Book!ReadNode
    <3>2. Append(list, Head(rest)) \o Tail(rest) = list \o rest  BY <2>2
    <3>3. list' \o rest' = list \o rest  BY <3>1, <3>2, Zenon
    <3>4. list' \in Seq(Contact) /\ rest' \in Seq(Contact)  BY <2>2, <3>1
    <3> QED  BY <1>3, <2>2, <3>3, <3>4 DEF Book!ReadNode
  <2> QED  BY <2>1, <2>2
<1>4. CASE Book!LinkRest
  <2>1. list \o rest \in Seq(Contact) /\ (list \o rest) \o <<>> = list \o rest  OBVIOUS
  <2>2. list' \o rest' = list \o rest  BY <1>4, <2>1, Zenon DEF Book!LinkRest
  <2> QED  BY <1>4, <2>1, <2>2 DEF Book!LinkRest
<1>5. CASE Book!Exit \/ Book!CreateFails  BY <1>5 DEF Book!Exit, Book!CreateFails
<1>6. CASE Book!CloseFails
  <2>1. /\ pc' = "off" /\ freed' = TRUE /\ harmed' = TRUE
        /\ UNCHANGED <<file, list, rest, out>>
    BY <1>6 DEF Book!CloseFails
  <2> QED  BY <2>1
<1>7. CASE Book!Create  BY <1>7 DEF Book!Create, Book!InOrder
<1>8. CASE Book!Write
  <2>1. /\ out' = Append(out, list[Len(out) + 1]) /\ Len(out) < Len(list) /\ pc = "write"
        /\ UNCHANGED <<pc, list, rest, harmed>> /\ freed' = TRUE
    BY <1>8 DEF Book!Write
  <2>2. file' = file \/ file' = Book!Kept(out')
    BY <1>8, Zenon DEF Book!Write, Book!Kept
  <2>3. /\ out' \in Seq(Contact) /\ Len(out') <= Len(list) /\ DOMAIN out' = 1 .. Len(out')
        /\ \A i \in 1 .. Len(out') : out'[i] = list[i]
    BY <2>1
  <2>4. Book!InOrder(list)  BY Joined
  <2>5. Book!InOrder(out')  BY <2>3, <2>4, FirstInOrder
  <2>6. Book!Kept(out') \in Seq(Contact) /\ Book!InOrder(Book!Kept(out'))
    BY <2>3, <2>5, KeptInOrder
  <2>7. file' \in Seq(Contact) /\ Book!InOrder(file')  BY <2>2, <2>6, Zenon
  <2> QED  BY <2>1, <2>3, <2>7
<1>9. CASE Book!Close
  <2>1. out = list  BY <1>9 DEF Book!Close
  <2>2. Book!InOrder(list)  BY Joined
  <2>3. file' = Book!Kept(list) /\ Book!Kept(list)' = Book!Kept(list)
    BY <1>9, <2>1, Zenon DEF Book!Close, Book!Kept
  <2>4. file' \in Seq(Contact) /\ Book!InOrder(file')  BY <2>2, <2>3, KeptInOrder
  <2> QED  BY <1>9, <2>3, <2>4 DEF Book!Close
<1>10. CASE Book!Signal  BY <1>10, SignalStep
<1>11. CASE Book!Kill
  <2>1. Book!InOrder(list) /\ list \o <<>> = list  BY Joined
  <2> QED  BY <1>11, <2>1 DEF Book!Kill
<1>12. CASE \E m \in Names : Book!Link(m) \/ Book!deleteNode(m)
  BY <1>12, LinkStep, DeleteStep
<1>13. CASE UNCHANGED Book!vars  BY <1>13 DEF Book!vars
<1> QED
  BY <1>1, <1>2, <1>3, <1>4, <1>5, <1>6, <1>7, <1>8, <1>9, <1>10, <1>11, <1>12, <1>13
  DEF Book!Next

-----------------------------------------------------------------------------
(* all of them *)

Inv == /\ program = "shm" => MailInv
       /\ program = "chat" => ChatInv
       /\ program = "udp" => UdpInv /\ Living
       /\ program = "client" => ClientInv
       /\ program = "queue" => QueueInv
       /\ program = "contacts" => BookInv

LEMMA InitInv == Init => Inv
BY MailInit, ChatInit, UdpInit, ClientInit, QueueInit, BookInit DEF Init, Inv

\* A step is one of the program that runs.
LEMMA OneProgram ==
  ASSUME [Next]_vars
  PROVE  /\ program' = program
         /\ program = "shm" => [Mail!Next]_Mail!vars
         /\ program = "chat" => [Chat!Next]_Chat!vars
         /\ program = "udp" => [Udp!Next]_Udp!vars
         /\ program = "client" => [Client!Next]_Client!vars
         /\ program = "queue" => [Queue!Next]_Queue!vars
         /\ program = "fork" => [Fork!Next]_Fork!vars
         /\ program = "contacts" => [Book!Next]_Book!vars
<1>1. CASE UNCHANGED vars
  BY <1>1
  DEF vars, semVars, forkVars, mailVars, queueVars, bothVars, chatVars, clientVars, udpVars,
      bookVars, Mail!vars, Mail!kernel, Mail!writer, Mail!reader, Chat!vars, Chat!server,
      Udp!vars, Fork!vars, Client!vars, Queue!vars, Book!vars
<1>2. CASE Next
  BY <1>2
  DEF Next, Forks, Mails, Queues, Chats, Clienting, Udps, Books, Ipcs, Others, Runs
<1> QED  BY <1>1, <1>2

LEMMA StepInv == Inv /\ [Next]_vars => Inv'
BY OneProgram, MailStep, ChatStep, UdpStep, ClientStep, QueueStep, BookStep DEF Inv

LEMMA InvAlways == Spec => []Inv
BY InitInv, StepInv, PTL DEF Spec

\* A reader that was ready in time and waits for nothing has printed the last line, also
\* after the input has ended, if no set was removed and neither semget nor a V has failed
\* (shm_a/main.c:30, 52-54, shm_b/main.c:50-51).
THEOREM CaughtUpAlways == Spec => []CaughtUp
<1>1. Inv => CaughtUp
  BY DEF Inv, MailInv, LastLine, CaughtUp, Mail!CaughtUp
<1> QED  BY <1>1, InvAlways, PTL

\* In both older chat servers a thread has the connection it was created for: nobody
\* accepts before it has read the number (4.tftp/code/client_handle.c:24-32, 48-53,
\* client_handle(6797).c:20-25, 39-44).
THEOREM ServesItsOwnAlways == Spec => []ServesItsOwn
<1>1. Inv => ServesItsOwn
  BY DEF Inv, ChatInv, OwnSocket, ServesItsOwn
<1> QED  BY <1>1, InvAlways, PTL

\* No thread of the later one sends its own client's blank text to the others, although
\* all use one buffer (4.tftp/code/msg_handle.c:25-29).
THEOREM BlankKeptAlways == Spec => []BlankKept
<1>1. Inv => BlankKept
  BY DEF Inv, ChatInv, NoOwnBlank, OwnBlank, Past, BlankKept, Chat!BlankKept, Chat!Now,
         Chat!Buffer, Chat!Sending
<1> QED  BY <1>1, InvAlways, PTL

\* A process prints with an address what was typed at a process that has it, whatever
\* is lost, delayed or overtaken (3.udp/main.c:95-113, broadcast/main.c:82-100).
THEOREM NameIsTypistAlways == Spec => []NameIsTypist
<1>1. Inv => NameIsTypist
  BY DEF Inv, UdpInv, TypedAt, NameIsTypist, Udp!NameIsTypist
<1> QED  BY <1>1, InvAlways, PTL

\* While only one side reads its input, the other shows what was typed in order and
\* complete but for what is on its way, and the last line again when the input has ended,
\* although the threads of a process use one message (a.c:61-71, b.c:60-69).
THEOREM OneWayAlways == Spec => []OneWay
<1>1. Inv => OneWay
  BY QueueOneWay DEF Inv, OneWay
<1> QED  BY <1>1, InvAlways, PTL

\* What is typed arrives and what the server tells is printed, in order and nothing
\* else, while both go on (1.tcp_client/main.c:16-26, 101-112).
THEOREM FullDuplexAlways == Spec => []FullDuplex
<1>1. Inv => FullDuplex
  BY ClientDuplex DEF Inv, FullDuplex
<1> QED  BY <1>1, InvAlways, PTL

\* The file of contacts is in order at every moment, wherever signals and the end of the
\* program cut a change or a save short (contacts.c:69-76, 90-99, 131-144).
THEOREM SortedAlways == Spec => []Sorted
<1>1. Inv => Sorted
  BY DEF Inv, BookInv, ListInOrder, Sorted, Book!Sorted
<1> QED  BY <1>1, InvAlways, PTL

\* When the program ends by its menu or by a signal that meets a whole list, and the
\* file can be opened and written, which the program does not see to, it has all of the
\* list, but for those named HEAD_NODE (contacts.c:12-22, 81-100, main.c:13-18).
THEOREM SavedAlways == Spec => []Saved
<1>1. Inv => Saved
  BY DEF Inv, BookInv, Saved
<1> QED  BY <1>1, InvAlways, PTL

LEMMA ForkAlways ==
  ASSUME NEW one, Processes = {one}
  PROVE  Spec => [](program = "fork" => ForkInv /\ AddInv)
<1> DEFINE I == program = "fork" => ForkInv /\ AddInv
<1>1. Init => I
  BY ForkInit, AddInit DEF Init
<1>2. I /\ [Next]_vars => I'
  BY OneProgram, ForkStep, AddStep
<1> QED  BY <1>1, <1>2, PTL DEF Spec

\* The two processes of a program that is started once are never both in the critical
\* region, whatever the increments and also when one is killed in it: the kernel takes
\* back what SEM_UNDO has noted (6.sem/fork/main.c:53-61, 79-82).  The premise is that
\* semget, and a semop on a set that is there, have not failed.
THEOREM OneInsideAlways ==
  ASSUME NEW one, Processes = {one}
  PROVE  Spec => []OneInside
<1>1. (program = "fork" => ForkInv /\ AddInv) => OneInside
  BY OneIsInside DEF OneInside
<1> QED  BY <1>1, ForkAlways, PTL

\* With the same premise no increment of theirs is lost, also those of one that was killed
\* between two: the shared memory has what both have done (6.sem/fork/main.c:53-58, 79-82).
THEOREM NothingLostAlways ==
  ASSUME NEW one, Processes = {one}
  PROVE  Spec => []NothingLost
<1>1. (program = "fork" => ForkInv /\ AddInv) => NothingLost
  BY NothingIsLost DEF NothingLost
<1> QED  BY <1>1, ForkAlways, PTL
=============================================================================
