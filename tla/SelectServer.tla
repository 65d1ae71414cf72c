---------------------------- MODULE SelectServer ----------------------------
(***************************************************************************)
(* 10.network/2.tcp_server/select/new/main.c: one thread waits with select *)
(* for the listening socket and the clients, handles one of them a time    *)
(* and relays what begins with '/' to all; for each connection another     *)
(* thread sends what is typed.  The global ret is the highest number in    *)
(* the set as it was when main looked for it last.                         *)
(***************************************************************************)
EXTENDS FiniteSetsExt, Sequences, Integers

CONSTANTS Conns,    \* connections that are made
          Threads,  \* operator threads that can be started
          Texts     \* the most that a peer has sent and main not read

VARIABLES link,     \* of each connection: "away", "queued", "up", "left" (the peer
                    \* has closed it), "reset" (and answered with a reset),
                    \* "aborted" (with a reset at once) or "closed"
          num,      \* its socket, 0 when it has none
          inbox,    \* what it has sent and main not read: TRUE for one with '/'
          fds, ret, \* fds is without the listening socket
          mpc, at,  \* main: "scan", "select", "accept", "handle", "relay" or
                    \* "dead"; the number it looks at
          next,     \* of each operator thread its i, 0 before it is started
          busy,     \* operator threads that are sending a line
          got       \* history: the sockets that have the text being relayed

peers == <<link, num, inbox>>
main == <<fds, ret, mpc, at, got>>
operator == <<next, busy>>
vars == <<peers, main, operator>>

Listen == 3
Nums == Listen + 1 .. Listen + Cardinality(Conns)
Gone == {"left", "reset", "aborted"}
Open == {c \in Conns : num[c] # 0}
Opened == {num[c] : c \in Open}
Who(k) == CHOOSE c \in Open : num[c] = k
Free == Min(Nums \ Opened)

Init ==
  /\ link = [c \in Conns |-> "away"] /\ num = [c \in Conns |-> 0]
  /\ inbox = [c \in Conns |-> <<>>]
  /\ fds = {} /\ ret = 0 /\ mpc = "scan" /\ at = 0
  /\ next = [t \in Threads |-> 0] /\ busy = {} /\ got = {}

-----------------------------------------------------------------------------
(* the peers *)

Connect(c) ==
  /\ link[c] = "away" /\ link' = [link EXCEPT ![c] = "queued"]
  /\ UNCHANGED <<num, inbox, main, operator>>

\* One of S connects; they are alike until they do, so it does not matter which.
Arrive(S) == LET away == {c \in S : link[c] = "away"}
             IN  away # {} /\ Connect(CHOOSE c \in away : TRUE)

Write(c) ==
  /\ link[c] = "up" /\ Len(inbox[c]) < Texts
  /\ \E slash \in BOOLEAN : inbox' = [inbox EXCEPT ![c] = Append(@, slash)]
  /\ UNCHANGED <<link, num, main, operator>>

\* Close, before what the server sends or while some of it is on its way, or abort.
Leave(c) ==
  /\ link[c] = "up" /\ \E l \in Gone : link' = [link EXCEPT ![c] = l]
  /\ UNCHANGED <<num, inbox, main, operator>>

-----------------------------------------------------------------------------
(* main *)

\* getMaxValInFds assigns to ret at each number of the set, from below.
Scan ==
  /\ mpc = "scan"
  /\ LET above == {k \in {Listen} \cup fds : k > at}
     IN  IF above = {} THEN mpc' = "select" /\ UNCHANGED <<ret, at>>
         ELSE ret' = Min(above) /\ at' = Min(above) /\ UNCHANGED mpc
  /\ UNCHANGED <<peers, fds, got, operator>>

Readable == {num[c] : c \in {d \in Open : inbox[d] # <<>> \/ link[d] \in Gone}}
Waiting == {c \in Conns : link[c] = "queued"}

\* The listening socket comes first, then the lowest number.  A closed number in
\* the set makes select fail, and main ends.
Select ==
  /\ mpc = "select"
  /\ \/ ~(fds \subseteq Opened) /\ mpc' = "dead" /\ UNCHANGED at
     \/ fds \subseteq Opened /\ Waiting # {} /\ mpc' = "accept" /\ UNCHANGED at
     \/ /\ fds \subseteq Opened /\ Waiting = {} /\ Readable \cap fds # {}
        /\ mpc' = "handle" /\ at' = Min(Readable \cap fds)
  /\ UNCHANGED <<peers, fds, ret, got, operator>>

Again == mpc' = "scan" /\ at' = 0

\* After two seconds without anything main looks for the highest number again.
SelectTimesOut ==
  /\ mpc = "select" /\ fds \subseteq Opened /\ Waiting = {} /\ Readable \cap fds = {}
  /\ Again
  /\ UNCHANGED <<peers, fds, ret, got, operator>>

Unstarted == {t \in Threads : next[t] = 0}

\* Whether pthread_create succeeds is not looked at.
Accept ==
  /\ mpc = "accept" /\ Again
  /\ LET c == CHOOSE d \in Waiting : TRUE   \* those that wait are alike as well
     IN  Waiting # {} /\ link' = [link EXCEPT ![c] = "up"] /\ num' = [num EXCEPT ![c] = Free]
  /\ fds' = fds \cup {Free}
  /\ next' \in {next} \cup {[next EXCEPT ![t] = Listen + 1] : t \in Unstarted}
  /\ UNCHANGED <<inbox, ret, got, busy>>

AcceptFails ==
  /\ mpc = "accept" /\ mpc' = "dead"
  /\ UNCHANGED <<peers, fds, ret, at, got, operator>>

Recv ==
  /\ mpc = "handle" /\ inbox[Who(at)] # <<>>
  /\ inbox' = [inbox EXCEPT ![Who(at)] = Tail(@)]
  /\ IF Head(inbox[Who(at)]) THEN mpc' = "relay" /\ at' = Listen + 1
                              ELSE Again
  /\ UNCHANGED <<link, num, fds, ret, got, operator>>

\* Defect: the number stays in the set.
CloseOnly ==
  /\ mpc = "handle" /\ inbox[Who(at)] = <<>> /\ Again
  /\ link' = [link EXCEPT ![Who(at)] = "closed"]
  /\ num' = [num EXCEPT ![Who(at)] = 0]
  /\ UNCHANGED <<inbox, fds, ret, got, operator>>

\* Defect: only an error of recv is taken for the end of a connection.
CloseAtError ==
  /\ mpc = "handle" /\ inbox[Who(at)] = <<>> /\ Again
  /\ IF link[Who(at)] = "aborted"
     THEN /\ link' = [link EXCEPT ![Who(at)] = "closed"]
          /\ num' = [num EXCEPT ![Who(at)] = 0]
          /\ fds' = fds \ {at}
     ELSE UNCHANGED <<link, num, fds>>
  /\ UNCHANGED <<inbox, ret, got, operator>>

\* recv returns 0, or -1 when the peer has aborted.
Close ==
  /\ mpc = "handle" /\ inbox[Who(at)] = <<>> /\ Again
  /\ link' = [link EXCEPT ![Who(at)] = "closed"]
  /\ num' = [num EXCEPT ![Who(at)] = 0]
  /\ fds' = fds \ {at}
  /\ UNCHANGED <<inbox, ret, got, operator>>

\* send to number k is -1 when it is closed, and the first time after an abort; then
\* the process gets SIGPIPE, as it does when a peer has answered with a reset.
Fails(k) == k \in Opened => link[Who(k)] = "aborted"
Killed(k) == link[Who(k)] = "reset"

SendFails(k) ==
  /\ Fails(k)
  /\ link' = IF k \in Opened THEN [link EXCEPT ![Who(k)] = "reset"] ELSE link
  /\ UNCHANGED <<num, inbox, fds>>

\* A peer that has left answers with a reset, sooner or later.
Send(k) ==
  /\ ~Fails(k)
  /\ link' \in IF link[Who(k)] = "left" THEN {link, [link EXCEPT ![Who(k)] = "reset"]}
               ELSE {link}
  /\ UNCHANGED <<num, inbox, fds>>

SendTo(k) ==
  /\ Send(k) /\ at' = k + 1 /\ got' = got \cup {k}
  /\ mpc' = IF Killed(k) THEN "dead" ELSE mpc

\* Defect: the loop is left out for the highest number.
RelayEndsBefore ==
  /\ mpc = "relay"
  /\ \/ at >= ret /\ Again /\ got' = {} /\ UNCHANGED <<peers, fds>>
     \/ at < ret /\ SendFails(at) /\ Again /\ got' = {}
     \/ at < ret /\ SendTo(at)
  /\ UNCHANGED <<ret, operator>>

\* The first send that fails ends the loop.
Relay ==
  /\ mpc = "relay"
  /\ \/ at > ret /\ Again /\ got' = {} /\ UNCHANGED <<peers, fds>>
     \/ at <= ret /\ SendFails(at) /\ Again /\ got' = {}
     \/ at <= ret /\ SendTo(at)
  /\ UNCHANGED <<ret, operator>>

-----------------------------------------------------------------------------
(* the operator's threads; their i is never set back *)

\* At the end of the input fgets fails, nobody looks at it, and it goes on as well.
Type(t) ==
  /\ next[t] # 0 /\ t \notin busy
  /\ busy' = busy \cup {t} /\ UNCHANGED <<peers, main, next>>

Tell(t) ==
  /\ t \in busy
  /\ \/ next[t] > ret /\ busy' = busy \ {t} /\ UNCHANGED <<peers, main, next>>
     \/ /\ next[t] <= ret /\ SendFails(next[t]) /\ busy' = busy \ {t}
        /\ UNCHANGED <<ret, mpc, at, got, next>>
     \/ /\ next[t] <= ret /\ Send(next[t]) /\ next' = [next EXCEPT ![t] = @ + 1]
        /\ mpc' = IF Killed(next[t]) THEN "dead" ELSE mpc
        /\ UNCHANGED <<ret, at, got, busy>>

\* What does not wait for a peer, as a send may.
Main == Scan \/ Select \/ SelectTimesOut \/ Accept \/ Recv \/ Close

Next == /\ mpc # "dead"
        /\ \/ Main \/ AcceptFails \/ Relay
           \/ Arrive(Conns) \/ \E c \in Conns : Write(c) \/ Leave(c)
           \/ \E t \in Threads : Type(t) \/ Tell(t)

Safety == Init /\ [][Next]_vars
Spec == Safety /\ WF_vars(mpc # "dead" /\ Main)

-----------------------------------------------------------------------------
\* main never asks select for a number that is closed, which would end the server,
\* and asks for every connection that it has accepted (main.c:87-95, 115, 141-142).
AsksForTheOpen == mpc = "select" => fds = Opened

\* What begins with '/' goes to everybody below the lowest number at which a send
\* fails, be it closed or its peer have aborted, although connections come and go and
\* the operator's threads use ret as well (main.c:89, 147-157).  Above it reaches nobody.
Reachable == {c \in Open : \A k \in Listen + 1 .. num[c] : ~Fails(k)}
RelayReachesStep ==
  mpc = "relay" /\ mpc' = "scan" => \A c \in Reachable : num[c] \in got

\* A connection that its peer has left is closed, unless main has something to do
\* before it again and again, new connections or what lower numbers send; and unless a
\* send never returns, or SIGPIPE or a failing accept ends the server (main.c:104-162).
Before(c) == mpc = "accept" \/ (mpc = "handle" /\ at < num[c])
Left(c) == link[c] \in Gone
Closed(c) == link[c] = "closed" \/ mpc = "dead"
LeaverClosed ==
  \A c \in Conns : []<>Before(c) \/ <>[](mpc = "relay") \/ (Left(c) ~> Closed(c))
=============================================================================
