------------------------------ MODULE UdpPeers ------------------------------
(***************************************************************************)
(* 3.udp: processes that send each other what is typed, to one address     *)
(* ("udp": main.c, Backup main(1501).c, main(7083).c) or to all of the     *)
(* network ("broadcast": broadcast/main.c, Backup main(691).c).  The       *)
(* network loses, repeats and reorders.  Two processes may have one port   *)
(* (SocketSetUp), and one of them gets what is sent there.                 *)
(***************************************************************************)
EXTENDS Naturals

CONSTANT Sends     \* the most lines that are typed or sent again

VARIABLES mode,    \* the program
          addr,    \* the address of each process
          net,     \* datagrams [from, to, text]
          reads,   \* calls of fgets that have returned
          typed,   \* lines typed at each process
          text,    \* what is in main's buffer: <<process, line>>
          spc,     \* main: "gets", "send"
          rpc,     \* the receiver: "recv" or "show"
          got,     \* the datagram it has
          live     \* processes that have not ended

vars == <<mode, addr, net, reads, typed, text, spc, rpc, got, live>>

Procs == {"a", "b", "c"}
Empty == 0
NoDatagram == [from |-> 0, to |-> 0, text |-> <<"a", Empty>>]

Broadcasts == {"broadcast", "broadcast691"}
Modes == {"udp", "udp1501", "udp7083"} \cup Broadcasts

\* Where there is one address c is a second process with the port of b.
Address(m) == [p \in Procs |-> CASE p = "a" -> 1
                                 [] p = "b" -> 2
                                 [] p = "c" -> IF m \in Broadcasts THEN 3 ELSE 2]
All == 0
Target(p) == IF mode \in Broadcasts THEN All ELSE IF addr[p] = 1 THEN 2 ELSE 1

Init ==
  /\ mode \in Modes /\ addr = Address(mode)
  /\ reads = 0 /\ net = {} /\ live = Procs
  /\ typed = [p \in Procs |-> 0] /\ text = [p \in Procs |-> <<p, Empty>>]
  /\ spc = [p \in Procs |-> "gets"] /\ rpc = [p \in Procs |-> "recv"]
  /\ got = [p \in Procs |-> NoDatagram]

Read(p) == /\ spc[p] = "gets" /\ spc' = [spc EXCEPT ![p] = "send"]
           /\ reads < Sends /\ reads' = reads + 1

Gets(p) ==
  /\ Read(p)
  /\ typed' = [typed EXCEPT ![p] = @ + 1] /\ text' = [text EXCEPT ![p] = <<p, typed'[p]>>]
  /\ UNCHANGED <<mode, addr, net, rpc, got, live>>

\* At the end of the input the last line, or an empty one, is sent again and again.
GetsEnd(p) ==
  /\ Read(p)
  /\ UNCHANGED <<mode, addr, net, typed, text, rpc, got, live>>

Send(p) ==
  /\ spc[p] = "send" /\ spc' = [spc EXCEPT ![p] = "gets"]
  /\ net' = net \cup {[from |-> addr[p], to |-> Target(p), text |-> text[p]]}
  /\ UNCHANGED <<mode, addr, reads, typed, text, rpc, got, live>>

\* sendto or recvfrom fails; either ends the process.
Fail(p) ==
  /\ spc[p] = "send" \/ rpc[p] = "recv"
  /\ live' = live \ {p}
  /\ UNCHANGED <<mode, addr, net, reads, typed, text, spc, rpc, got>>

\* Defect: it is taken for granted that the target has sent it.
RecvFromTarget(p) ==
  /\ rpc[p] = "recv" /\ rpc' = [rpc EXCEPT ![p] = "show"]
  /\ \E d \in net : /\ d.to \in {All, addr[p]}
                    /\ got' = [got EXCEPT ![p] = [d EXCEPT !.from = Target(p)]]
                    /\ net' \in {net, net \ {d}}
  /\ UNCHANGED <<mode, addr, reads, typed, text, spc, live>>

Recv(p) ==
  /\ rpc[p] = "recv" /\ rpc' = [rpc EXCEPT ![p] = "show"]
  /\ \E d \in net : /\ d.to \in {All, addr[p]} /\ got' = [got EXCEPT ![p] = d]
                    /\ net' \in {net, net \ {d}}
  /\ UNCHANGED <<mode, addr, reads, typed, text, spc, live>>

Show(p) ==
  /\ rpc[p] = "show" /\ rpc' = [rpc EXCEPT ![p] = "recv"]
  /\ got' = [got EXCEPT ![p] = NoDatagram]
  /\ UNCHANGED <<mode, addr, net, reads, typed, text, spc, live>>

Lose == \E d \in net : net' = net \ {d}
                       /\ UNCHANGED <<mode, addr, reads, typed, text, spc, rpc, got, live>>

Process(p) == Gets(p) \/ GetsEnd(p) \/ Send(p) \/ Fail(p) \/ Recv(p) \/ Show(p)

udp(p) == mode = "udp" /\ Process(p)
udp1501(p) == mode = "udp1501" /\ Process(p)
udp7083(p) == mode = "udp7083" /\ Process(p)
broadcast(p) == mode = "broadcast" /\ Process(p)
broadcast691(p) == mode = "broadcast691" /\ Process(p)

Next == \/ Lose
        \/ \E p \in live : \/ udp(p) \/ udp1501(p) \/ udp7083(p)
                            \/ broadcast(p) \/ broadcast691(p)

Spec == Init /\ [][Next]_vars

-----------------------------------------------------------------------------
\* What a process prints with an address was typed before at a process that has this
\* address, whatever the network loses, repeats and reorders, and also where two
\* processes have one port (3.udp/main.c:95-113, broadcast/main.c:82-100).
NameIsTypist == \A p \in Procs : rpc[p] = "show" =>
  LET who == got[p].text[1]
  IN  addr[who] = got[p].from /\ got[p].text[2] \in 0 .. typed[who]
=============================================================================
