------------------------------ MODULE TftpGet ------------------------------
(***************************************************************************)
(* start_download of 10.network/old_tftp/tftp/tftp.c, which accepts a      *)
(* block only when its number is the last one plus one.                    *)
(***************************************************************************)
EXTENDS TftpNet

VARIABLES client,   \* "start", "recv", "done", "error" or "exit"
          num, copy

file == <<size, faults>>
net == <<up, down, pos>>
state == <<client, num, copy>>
vars == <<file, net, state>>

Init == NetInit /\ SessionsInit /\ client = "start" /\ num = 0 /\ copy = <<>>

Request ==
  /\ client = "start" /\ client' = "recv"
  /\ up' = up \cup {RRQ}
  /\ UNCHANGED <<file, down, pos, num, copy>>

\* Defect: any block is written, and its number kept unwrapped.
RecvAnyData ==
  \E m \in down :
    /\ client = "recv" /\ m.op = "DATA"
    /\ down' \in Delivered(down, m)
    /\ num' = m.block
    /\ copy' = Append(copy, m.block)
    /\ up' = up \cup {Ack(m.from, Wire(m.block))}
    /\ client' = IF m.block = size THEN "done" ELSE "recv"
    /\ UNCHANGED <<file, pos>>

\* Defect: a full block is not acknowledged.
RecvDataSilently ==
  \E m \in down :
    /\ client = "recv" /\ m.op = "DATA" /\ Wire(m.block) = num + 1
    /\ down' \in Delivered(down, m)
    /\ num' = Wire(m.block) /\ copy' = Append(copy, m.block)
    /\ client' = IF m.block = size THEN "done" ELSE "recv"
    /\ UNCHANGED <<file, up, pos>>

\* The block that is expected: write, acknowledge to whoever sent it, and end
\* when it is short.  num is an int, num + 1 is never wrapped.
RecvData ==
  \E m \in down :
    /\ client = "recv" /\ m.op = "DATA" /\ Wire(m.block) = num + 1
    /\ down' \in Delivered(down, m)
    /\ num' = IF m.block = size THEN num ELSE Wire(m.block)
    /\ copy' = Append(copy, m.block)
    /\ up' = up \cup {Ack(m.from, Wire(m.block))}
    /\ client' = IF m.block = size THEN "done" ELSE "recv"
    /\ UNCHANGED <<file, pos>>

\* Any other block: neither branch is taken, nothing is acknowledged.
RecvOther ==
  \E m \in down :
    /\ client = "recv" /\ m.op = "DATA" /\ Wire(m.block) # num + 1
    /\ down' \in Delivered(down, m)
    /\ UNCHANGED <<file, up, pos, state>>

RecvError ==
  \E m \in down :
    /\ client = "recv" /\ m.op = "ERROR" /\ client' = "error"
    /\ down' \in Delivered(down, m)
    /\ UNCHANGED <<file, up, pos, num, copy>>

\* recvfrom, open, write or sendto fails: exit(1).
IoFails ==
  /\ client \in {"start", "recv"} /\ client' = "exit"
  /\ UNCHANGED <<file, net, num, copy>>

Serving(s) == Server(s) /\ UNCHANGED state
Losing == Lose /\ UNCHANGED <<pos, state>>

Next == \/ Request \/ RecvData \/ RecvOther \/ RecvError \/ IoFails
        \/ (\E s \in Sessions : Serving(s)) \/ Losing

Safety == Init /\ [][Next]_vars

\* The server runs and sends again, and a datagram that is sent again and again
\* arrives in the end.
Fairness == /\ WF_vars(Request)
            /\ SF_vars(RecvData) /\ SF_vars(RecvOther) /\ SF_vars(RecvError)
            /\ \A s \in Sessions : /\ SF_vars(Serve(s) /\ UNCHANGED state)
                                   /\ SF_vars(GetAck(s) /\ UNCHANGED state)
                                   /\ WF_vars(SendAgain(s) /\ UNCHANGED state)

Spec == Safety /\ Fairness

-----------------------------------------------------------------------------
Ended == client \in {"done", "error", "exit"}

TypeOK ==
  /\ size \in Sizes /\ faults \in Networks
  /\ client \in {"start", "recv", "done", "error", "exit"}
  /\ num \in 0..Wrap - 1 /\ copy \in Seq(1..size)
  /\ pos \in [Sessions -> 0..size + 1]

\* Whatever the network loses or repeats and however many sessions answer, the
\* file that is written is the beginning of the file, and "下载完成" is printed
\* for the whole of it only (tftp.c:68-101).
C == INSTANCE FileCopy WITH success <- (client = "done")
CopiesFile == C!CSpec

\* Once a block has arrived the download ends although datagrams are lost: a
\* block that comes again is acknowledged again, as every packet but a second
\* acknowledgement is (10.network/3.udp/TFTP-流程.txt:443).
EndsOverLossyNet == copy # <<>> ~> Ended
=============================================================================
