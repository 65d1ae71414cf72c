----------------------------- MODULE SocketSetUp -----------------------------
(***************************************************************************)
(* How the programs of 10.network take their port: the calls each makes    *)
(* before it serves, some of which may fail, when it is started twice or    *)
(* again while connections of an earlier start are in the kernel still.    *)
(* The first failing call ends the program.                                *)
(***************************************************************************)
EXTENDS Naturals, Sequences

CONSTANTS Starts,   \* processes of one program that may be there at a time
          Times     \* how often a process may be started

VARIABLES file,     \* the program
          pc,       \* of each process "off", "calls", "serve", "talk" or "refused"
          done,     \* its calls that have succeeded
          starts,   \* how often it was started
          linger    \* a connection of a server that has ended keeps the port

vars == <<file, pc, done, starts, linger>>

-----------------------------------------------------------------------------
(* the calls of each program *)

\* Defect: the address is not made reusable.
Once == <<"socket", "bind", "listen">>

serverSocketInit == <<"socket", "reuse", "bind", "listen">>
Server == <<"args">> \o serverSocketInit
Peer == <<"args", "socket", "reuse", "bind", "thread">>

chat_server == serverSocketInit
older_chat == serverSocketInit
server5198 == serverSocketInit
tcp_server_2 == serverSocketInit
tcp_server_3 == serverSocketInit

select_new == Server
select_old == Server
main8035 == Server
main4812 == Server
main4717 == Server
main4012 == Server
main2643 == Server

single == <<"socket", "bind", "listen">>
single_2 == <<"socket", "bind", "listen">>

udp == Peer
udp1501 == Peer
udp7083 == Peer

\* SO_BROADCAST | SO_REUSEADDR is 6 | 2, which is SO_BROADCAST.
broadcast == <<"args", "socket", "broadcast", "bind", "thread">>
broadcast691 == <<"args", "socket", "broadcast", "bind", "thread">>

Calls ==
  [tcp_server |-> serverSocketInit, chat_server |-> chat_server, older_chat |-> older_chat,
   server5198 |-> server5198, tcp_server_2 |-> tcp_server_2, tcp_server_3 |-> tcp_server_3,
   select_new |-> select_new, select_old |-> select_old, main8035 |-> main8035,
   main4812 |-> main4812, main4717 |-> main4717, main4012 |-> main4012,
   main2643 |-> main2643, single |-> single, single_2 |-> single_2,
   udp |-> udp, udp1501 |-> udp1501, udp7083 |-> udp7083,
   broadcast |-> broadcast, broadcast691 |-> broadcast691]

Singles == {"single", "single_2"}
Broadcasts == {"broadcast", "broadcast691"}

-----------------------------------------------------------------------------
(* the kernel *)

Running(p) == pc[p] \in {"calls", "serve", "talk"}
Has(p, call) == Running(p) /\ \E i \in 1 .. done[p] : Calls[file][i] = call
Others(p) == Starts \ {p}

Reusing(p) == Has(p, "reuse")
Listening(p) == Has(p, "listen")

\* Two sockets share a port when both may and the one there does not listen.
MayBind(p) ==
  /\ \A q \in Others(p) : Has(q, "bind") => Reusing(p) /\ Reusing(q) /\ ~Listening(q)
  /\ linger => Reusing(p)

MayListen(p) == \A q \in Others(p) : ~Listening(q)

Refused(p, call) == \/ call = "bind" /\ ~MayBind(p)
                    \/ call = "listen" /\ ~MayListen(p)

Expire == linger /\ linger' = FALSE /\ UNCHANGED <<file, pc, done, starts>>

-----------------------------------------------------------------------------
(* a process *)

Start(p) ==
  /\ ~Running(p) /\ starts[p] < Times
  /\ pc' = [pc EXCEPT ![p] = "calls"] /\ done' = [done EXCEPT ![p] = 0]
  /\ starts' = [starts EXCEPT ![p] = @ + 1]
  /\ UNCHANGED <<file, linger>>

Here(p) == Calls[file][done[p] + 1]

Succeed(p) ==
  /\ done' = [done EXCEPT ![p] = @ + 1]
  /\ pc' = [pc EXCEPT ![p] = IF done[p] + 1 = Len(Calls[file]) THEN "serve" ELSE @]

\* Defect: what listen returns is not looked at.
CallBlindly(p) ==
  /\ pc[p] = "calls"
  /\ IF Here(p) # "listen" /\ Refused(p, Here(p))
     THEN pc' = [pc EXCEPT ![p] = "refused"] /\ UNCHANGED done
     ELSE Succeed(p)
  /\ UNCHANGED <<file, starts, linger>>

Call(p) ==
  /\ pc[p] = "calls"
  /\ IF Refused(p, Here(p)) THEN pc' = [pc EXCEPT ![p] = "refused"] /\ UNCHANGED done
                            ELSE Succeed(p)
  /\ UNCHANGED <<file, starts, linger>>

\* A wrong number of arguments, no descriptor or no thread left.
CallFails(p) ==
  /\ pc[p] = "calls" /\ Here(p) \in {"args", "socket", "thread"}
  /\ pc' = [pc EXCEPT ![p] = "off"]
  /\ UNCHANGED <<file, done, starts, linger>>

\* The first client; the servers that take no other end when it leaves.
Accept(p) ==
  /\ pc[p] = "serve" /\ Listening(p) /\ pc' = [pc EXCEPT ![p] = "talk"]
  /\ UNCHANGED <<file, done, starts, linger>>

ClientLeaves(p) ==
  /\ pc[p] = "talk"
  /\ pc' = [pc EXCEPT ![p] = IF file \in Singles THEN "off" ELSE "serve"]
  /\ UNCHANGED <<file, done, starts, linger>>

\* The kernel closes the connection first, which keeps the port for a while.
Kill(p) ==
  /\ Running(p) /\ pc' = [pc EXCEPT ![p] = "off"]
  /\ linger' = (linger \/ pc[p] = "talk")
  /\ UNCHANGED <<file, done, starts>>

Init ==
  /\ file \in DOMAIN Calls
  /\ pc = [p \in Starts |-> "off"] /\ done = [p \in Starts |-> 0]
  /\ starts = [p \in Starts |-> 0] /\ linger = FALSE

Process(p) == \/ Start(p) \/ Call(p) \/ CallFails(p) \/ Accept(p)
              \/ ClientLeaves(p) \/ Kill(p)

Next == Expire \/ \E p \in Starts : Process(p)

Spec == Init /\ [][Next]_vars

-----------------------------------------------------------------------------
\* No two processes of a server listen on the port, although both may have bound
\* it (server.c:25-39).
Serves(p) == pc[p] \in {"serve", "talk"} /\ Listening(p)
OneServer == \A p, q \in Starts : Serves(p) /\ Serves(q) => p = q

\* A program that makes its address reusable is refused its port only while another
\* process of it listens there, never because of one that has ended (server.c:25-34).
Turned(p) == pc[p] # "refused" /\ pc'[p] = "refused"
RestartWorksStep == \A p \in Starts :
  Turned(p) => \/ file \in Singles \cup Broadcasts
               \/ \E q \in Others(p) : Listening(q)
RestartWorks == [][RestartWorksStep]_vars

\* The comment on the option of the broadcast peer: it enables broadcast and allows
\* the local address and port to be used again (broadcast/main.c:45).
ReuseAllowed == [][\A p \in Starts : file = "broadcast" => ~Turned(p)]_vars
=============================================================================
