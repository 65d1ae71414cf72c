---------------------------- MODULE TftpDownload ----------------------------
(***************************************************************************)
(* download of 10.network/old_tftp/newtftp/tftp.c, which writes and        *)
(* acknowledges every block that arrives, to whoever sent it.  main passes *)
(* a variable it never set as the socket: where it is not the one that was *)
(* opened, sendto fails, which is one of the failures of IoFails.          *)
(***************************************************************************)
EXTENDS TftpNet

VARIABLES client,   \* "start", "recv", "done", "error" or "exit"
          copy

file == <<size, faults>>
state == <<client, copy>>
vars == <<file, up, down, pos, state>>

Init == NetInit /\ SessionsInit /\ client = "start" /\ copy = <<>>

Request ==
  /\ client = "start" /\ client' = "recv"
  /\ up' = up \cup {RRQ}
  /\ UNCHANGED <<file, down, pos, copy>>

Write(m) ==
  /\ client = "recv" /\ m.op = "DATA"
  /\ down' \in Delivered(down, m)
  /\ copy' = Append(copy, m.block)
  /\ UNCHANGED <<file, pos>>

RecvData ==
  \E m \in down :
    /\ Write(m)
    /\ up' = up \cup {Ack(m.from, Wire(m.block))}
    /\ client' = IF m.block = size THEN "done" ELSE "recv"

RecvError ==
  \E m \in down :
    /\ client = "recv" /\ m.op = "ERROR" /\ client' = "error"
    /\ down' \in Delivered(down, m)
    /\ UNCHANGED <<file, up, pos, copy>>

\* open, recvfrom, write or sendto fails.
IoFails ==
  /\ client \in {"start", "recv"} /\ client' = "exit"
  /\ UNCHANGED <<file, up, down, pos, copy>>

Serving(s) == Server(s) /\ UNCHANGED state
Losing == Lose /\ UNCHANGED <<pos, state>>

Next == \/ Request \/ RecvData \/ RecvError \/ IoFails
        \/ (\E s \in Sessions : Serving(s)) \/ Losing

Safety == Init /\ [][Next]_vars

Fairness == /\ WF_vars(Request) /\ WF_vars(RecvData) /\ WF_vars(RecvError)
            /\ \A s \in Sessions : WF_vars(Serving(s))

Spec == Safety /\ Fairness

=============================================================================
