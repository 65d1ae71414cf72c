----------------------------- MODULE QueuePeers -----------------------------
(***************************************************************************)
(* 9.Thread/2.argument/practice: a.c and b.c talk over one message queue.  *)
(* In each a sender and a receiver thread use the same global msg.         *)
(***************************************************************************)
EXTENDS Naturals, SequencesExt

CONSTANTS Lines,    \* the most reads on each side
          Capacity  \* messages that the queue holds

VARIABLES queue,    \* [type, data], oldest first
          msg,      \* the global of each process
          spc,      \* of its sender: "read", "type", "send" or "ended"
          rpc,      \* of its receiver: "recv", "print" or "ended"
          typed,    \* lines typed
          reads,    \* fgets that have returned, more than typed after its end
          shown     \* texts printed, in their order

Peers == {"a", "b"}
vars == <<queue, msg, spc, rpc, typed, reads, shown>>

\* a.c sends 1234 and receives 1235, b.c the other way round.
To(p) == IF p = "a" THEN 1234 ELSE 1235
From(p) == IF p = "a" THEN 1235 ELSE 1234

Init ==
  /\ queue = <<>> /\ msg = [p \in Peers |-> [type |-> 0, data |-> <<p, 0>>]]
  /\ spc = [p \in Peers |-> "read"] /\ rpc = [p \in Peers |-> "recv"]
  /\ typed = [p \in Peers |-> 0] /\ reads = typed /\ shown = [p \in Peers |-> <<>>]

\* fgets writes into msg.data: line typed[p] of p; line 0 is the empty text.
Read(p) ==
  /\ spc[p] = "read" /\ typed[p] < Lines /\ reads[p] = typed[p]
  /\ spc' = [spc EXCEPT ![p] = "type"]
  /\ typed' = [typed EXCEPT ![p] = @ + 1]
  /\ reads' = [reads EXCEPT ![p] = @ + 1]
  /\ msg' = [msg EXCEPT ![p].data = <<p, typed[p] + 1>>]
  /\ UNCHANGED <<queue, rpc, shown>>

\* The input has ended, which is not looked at: what is in msg goes out again and
\* again.  There are no lines after it.
ReadEnd(p) ==
  /\ spc[p] = "read" /\ reads[p] < Lines
  /\ spc' = [spc EXCEPT ![p] = "type"]
  /\ reads' = [reads EXCEPT ![p] = @ + 1]
  /\ UNCHANGED <<queue, msg, rpc, typed, shown>>

SetType(p) ==
  /\ spc[p] = "type" /\ spc' = [spc EXCEPT ![p] = "send"]
  /\ msg' = [msg EXCEPT ![p].type = To(p)]
  /\ UNCHANGED <<queue, rpc, typed, reads, shown>>

\* Defect: the newest message comes first.
SendInFront(p) ==
  /\ spc[p] = "send" /\ Len(queue) < Capacity
  /\ spc' = [spc EXCEPT ![p] = "read"]
  /\ queue' = <<msg[p]>> \o queue
  /\ UNCHANGED <<msg, rpc, typed, reads, shown>>

\* msgsnd waits for room in the queue.
Send(p) ==
  /\ spc[p] = "send" /\ Len(queue) < Capacity
  /\ spc' = [spc EXCEPT ![p] = "read"]
  /\ queue' = Append(queue, msg[p])
  /\ UNCHANGED <<msg, rpc, typed, reads, shown>>

\* main of a.c returns, and both its threads are over; in b.c only the sender is.
SendFails(p) ==
  /\ spc[p] = "send" /\ spc' = [spc EXCEPT ![p] = "ended"]
  /\ rpc' = IF p = "a" THEN [rpc EXCEPT ![p] = "ended"] ELSE rpc
  /\ UNCHANGED <<queue, msg, typed, reads, shown>>

\* msgrcv takes the oldest message of its type into msg.
Recv(p) ==
  /\ rpc[p] = "recv" /\ rpc' = [rpc EXCEPT ![p] = "print"]
  /\ \E k \in DOMAIN queue :
       /\ queue[k].type = From(p)
       /\ \A j \in 1..k - 1 : queue[j].type # From(p)
       /\ msg' = [msg EXCEPT ![p] = queue[k]]
       /\ queue' = RemoveAt(queue, k)
  /\ UNCHANGED <<spc, typed, reads, shown>>

Show(p) ==
  /\ rpc[p] = "print" /\ rpc' = [rpc EXCEPT ![p] = "recv"]
  /\ shown' = [shown EXCEPT ![p] = Append(@, msg[p].data)]
  /\ UNCHANGED <<queue, msg, spc, typed, reads>>

\* The other way round: the receiver is a thread of a.c and main of b.c.
RecvFails(p) ==
  /\ rpc[p] = "recv" /\ rpc' = [rpc EXCEPT ![p] = "ended"]
  /\ spc' = IF p = "b" THEN [spc EXCEPT ![p] = "ended"] ELSE spc
  /\ UNCHANGED <<queue, msg, typed, reads, shown>>

Next == \E p \in Peers : \/ Read(p) \/ ReadEnd(p) \/ SetType(p) \/ Send(p) \/ SendFails(p)
                        \/ Recv(p) \/ Show(p) \/ RecvFails(p)

Safety == Init /\ [][Next]_vars

-----------------------------------------------------------------------------
Peer(p) == CHOOSE q \in Peers : q # p

\* While one side neither types nor ends its input, it shows what the other has
\* typed, in order and complete but for what is on its way, then, when that input has
\* ended, the last line again (a.c:61-71, b.c:60-69); the other shows nothing.
OneWay ==
  \A p \in Peers : reads[Peer(p)] = 0 =>
    /\ shown[p] = <<>>
    /\ \A k \in DOMAIN shown[Peer(p)] :
         shown[Peer(p)][k] = <<p, IF k <= typed[p] THEN k ELSE typed[p]>>
    /\ Len(shown[Peer(p)]) + Len(queue) <= reads[p]
=============================================================================
