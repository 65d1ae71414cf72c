------------------------------ MODULE TftpNet ------------------------------
(***************************************************************************)
(* What the TFTP downloads talk to: a network and a server that sends a    *)
(* file as 10.network/3.udp/TFTP-流程.txt describes it.  A session of the  *)
(* server is the process, with a port of its own, that one copy of the     *)
(* request starts.                                                         *)
(***************************************************************************)
EXTENDS Datagrams

CONSTANT Sessions

VARIABLE pos            \* block that each session is sending, 0 before it starts

RRQ == [op |-> "RRQ"]
Ack(s, n) == [op |-> "ACK", to |-> s, num |-> n]
Data(s, k) == [op |-> "DATA", from |-> s, block |-> k]
Error(s) == [op |-> "ERROR", from |-> s]

SessionsInit == pos = [s \in Sessions |-> 0]

Serve(s) ==
  /\ pos[s] = 0 /\ RRQ \in up
  /\ up' \in Delivered(up, RRQ)
  /\ \/ pos' = [pos EXCEPT ![s] = 1] /\ down' = down \cup {Data(s, 1)}
     \/ pos' = [pos EXCEPT ![s] = size + 1] /\ down' = down \cup {Error(s)}
  /\ UNCHANGED <<size, faults>>

\* The acknowledgement of the current block brings the next one; another is
\* thrown away, as a second one of an earlier block must be.
GetAck(s) ==
  \E m \in up :
    /\ m.op = "ACK" /\ m.to = s
    /\ up' \in Delivered(up, m)
    /\ IF pos[s] \in 1..size /\ m.num = Wire(pos[s])
       THEN /\ pos' = [pos EXCEPT ![s] = pos[s] + 1]
            /\ down' = IF pos[s] = size THEN down ELSE down \cup {Data(s, pos[s] + 1)}
       ELSE UNCHANGED <<pos, down>>
    /\ UNCHANGED <<size, faults>>

SendAgain(s) ==
  /\ "repeat" \in faults /\ pos[s] \in 1..size
  /\ down' = down \cup {Data(s, pos[s])}
  /\ UNCHANGED <<size, faults, up, pos>>

Server(s) == Serve(s) \/ GetAck(s) \/ SendAgain(s)
=============================================================================
