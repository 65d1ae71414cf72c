----------------------------- MODULE TftpUpload -----------------------------
(***************************************************************************)
(* upload of 10.network/old_tftp/newtftp/tftp.c, against a server that     *)
(* stores a file as 10.network/3.udp/TFTP-流程.txt describes it: it stores *)
(* the block it expects, acknowledges that one and the one before, and     *)
(* knows the end of the file by a block of less than 512 bytes.            *)
(***************************************************************************)
EXTENDS Datagrams

VARIABLES short,    \* the last block of the file has less than 512 bytes
          client,   \* "start", "first", "send", "ack", "done", "quit" or "exit"
          block,    \* the block that was read last, block_num modulo Wrap
          server,   \* "idle", "open" or "closed"
          copy      \* the blocks the server stored

file == <<size, faults, short>>
net == <<up, down>>
cli == <<client, block>>
srv == <<server, copy>>
vars == <<file, net, cli, srv>>

Short(k) == short /\ k = size
WRQ == [op |-> "WRQ"]
Data(k) == [op |-> "DATA", block |-> k]
Ack(n) == [op |-> "ACK", num |-> n]
Error == [op |-> "ERROR"]

Init == /\ NetInit /\ short \in BOOLEAN
        /\ client = "start" /\ block = 0
        /\ server = "idle" /\ copy = <<>>

-----------------------------------------------------------------------------
(* The server and the network. *)

Open ==
  /\ server = "idle" /\ WRQ \in up
  /\ up' \in Delivered(up, WRQ)
  /\ \/ server' = "open" /\ down' = down \cup {Ack(0)}
     \/ server' = "closed" /\ down' = down \cup {Error}
  /\ UNCHANGED <<file, cli, copy>>

Store ==
  \E m \in up :
    /\ m.op = "DATA" /\ server = "open" /\ Wire(m.block) = Wire(Len(copy) + 1)
    /\ up' \in Delivered(up, m) /\ down' = down \cup {Ack(Wire(m.block))}
    /\ copy' = Append(copy, m.block)
    /\ server' = IF Short(m.block) THEN "closed" ELSE "open"
    /\ UNCHANGED <<file, cli>>

\* A block that comes again is acknowledged again; any other is thrown away.
Discard ==
  \E m \in up :
    /\ m.op = "DATA" /\ ~(server = "open" /\ Wire(m.block) = Wire(Len(copy) + 1))
    /\ up' \in Delivered(up, m)
    /\ down' = IF Wire(m.block) = Wire(Len(copy)) THEN down \cup {Ack(Wire(m.block))}
               ELSE down
    /\ UNCHANGED <<file, cli, srv>>

AckAgain ==
  /\ "repeat" \in faults /\ server = "open"
  /\ down' = down \cup {Ack(Wire(Len(copy)))}
  /\ UNCHANGED <<file, up, cli, srv>>

Losing == Lose /\ UNCHANGED <<short, cli, srv>>

-----------------------------------------------------------------------------
(* upload *)

Request ==
  /\ client = "start" /\ client' = "first"
  /\ up' = up \cup {WRQ}
  /\ UNCHANGED <<file, down, block, srv>>

\* The answer to the request is ACK 0, or the upload is over.
FirstAck ==
  \E m \in down :
    /\ client = "first"
    /\ client' = IF m.op = "ACK" /\ m.num = 0 THEN "send" ELSE "exit"
    /\ down' \in Delivered(down, m)
    /\ UNCHANGED <<file, up, block, srv>>

SendBlock ==
  /\ client = "send" /\ block < size
  /\ block' = block + 1 /\ client' = "ack"
  /\ up' = up \cup {Data(block + 1)}
  /\ UNCHANGED <<file, down, srv>>

\* Defect: the last block is left out.
EndOfFileEarly ==
  /\ client = "send" /\ block + 1 >= size /\ client' = "done"
  /\ UNCHANGED <<file, net, block, srv>>

\* read returns 0: "上传成功", and nothing more is sent.
EndOfFile ==
  /\ client = "send" /\ block = size /\ client' = "done"
  /\ UNCHANGED <<file, net, block, srv>>

\* Defect: the number of the acknowledgement is not looked at.
GetAnyAck ==
  \E m \in down :
    /\ client = "ack" /\ client' = IF m.op = "ACK" THEN "send" ELSE "quit"
    /\ down' \in Delivered(down, m)
    /\ UNCHANGED <<file, up, block, srv>>

\* The acknowledgement of the block that was sent; another one, or an error,
\* ends the upload with status 0 and without a word of success.
GetAck ==
  \E m \in down :
    /\ client = "ack"
    /\ client' = IF m.op = "ACK" /\ m.num = Wire(block) THEN "send" ELSE "quit"
    /\ down' \in Delivered(down, m)
    /\ UNCHANGED <<file, up, block, srv>>

IoFails ==
  /\ client \in {"start", "first", "send", "ack"} /\ client' = "exit"
  /\ UNCHANGED <<file, net, block, srv>>

Client == Request \/ FirstAck \/ SendBlock \/ EndOfFile \/ GetAck

Next == Client \/ IoFails \/ Open \/ Store \/ Discard \/ AckAgain \/ Losing

Safety == Init /\ [][Next]_vars
\* Nothing of the network is fair but what the server does at once.
Spec == Safety /\ WF_vars(Client) /\ WF_vars(Open \/ Store)

=============================================================================
