------------------------------ MODULE TftpMenu ------------------------------
(***************************************************************************)
(* 2.tcp_server.si4project/Backup/tftp(6757).c: a menu of TFTP transfers,  *)
(* one after another on one socket, so that what is left of one arrives in *)
(* the next.  main does not compile as it is (local_addr is not declared); *)
(* its loop is modelled as it reads, and the two transfers in full.  The   *)
(* network reorders.  Each request is served by a session of its own,      *)
(* which repeats its last datagram when it waits and nothing is under way. *)
(***************************************************************************)
EXTENDS Datagrams

CONSTANT Transfers  \* the most that are chosen

VARIABLES short,    \* the last block of a file that is uploaded has less than 512 bytes
          client,   \* "menu", "over", "recv", "first", "open", "send" or "ack"
          turn,     \* transfers chosen so far
          block,    \* block_num
          to,       \* tem_sin: the session that was heard last
          reported, \* success was printed for the last transfer
          broken,   \* history: a transfer ended without success and without
                    \* the server's error, or the server still waits for its end
          server,   \* of each session: "idle", "get", "put" or "over"
          pos,      \* the block it is sending, or has stored last
          copy      \* of each transfer what is written, [from the transfer, block]

file == <<size, faults, short>>
here == <<client, turn, block, to, reported, broken>>
there == <<server, pos>>
vars == <<file, up, down, here, there, copy>>

Turns == 1 .. Transfers

Request(op, s) == [op |-> op, to |-> s]
SendData(s, t, k) == [op |-> "DATA", to |-> s, of |-> t, block |-> k]
SendAck(s, k) == [op |-> "ACK", to |-> s, num |-> Wire(k)]
Data(s, k) == [op |-> "DATA", from |-> s, block |-> k]
Ack(s, k) == [op |-> "ACK", from |-> s, num |-> Wire(k)]
Error(s) == [op |-> "ERROR", from |-> s]

-----------------------------------------------------------------------------
(* the server *)

Answer(s) ==
  /\ server[s] = "idle" /\ UNCHANGED <<file, here, copy>>
  /\ \E m \in up :
       /\ m.to = s /\ m.op \in {"RRQ", "WRQ"} /\ up' = up \ {m}
       /\ \/ /\ m.op = "RRQ" /\ server' = [server EXCEPT ![s] = "get"]
             /\ pos' = [pos EXCEPT ![s] = 1] /\ down' = down \cup {Data(s, 1)}
          \/ /\ m.op = "WRQ" /\ server' = [server EXCEPT ![s] = "put"]
             /\ down' = down \cup {Ack(s, 0)} /\ UNCHANGED pos
          \/ /\ server' = [server EXCEPT ![s] = "over"]
             /\ down' = down \cup {Error(s)} /\ UNCHANGED pos

\* What is not expected is thrown away.
Hear(s) ==
  \E m \in up :
    /\ m.to = s /\ m.op \in {"ACK", "DATA"} /\ up' = up \ {m}
    /\ CASE server[s] = "get" /\ m.op = "ACK" /\ m.num = Wire(pos[s]) ->
              /\ pos' = [pos EXCEPT ![s] = @ + 1] /\ UNCHANGED copy
              /\ IF pos[s] = size
                 THEN server' = [server EXCEPT ![s] = "over"] /\ UNCHANGED down
                 ELSE down' = down \cup {Data(s, pos[s] + 1)} /\ UNCHANGED server
         [] server[s] = "put" /\ m.op = "DATA" /\ m.block = pos[s] + 1 ->
              /\ pos' = [pos EXCEPT ![s] = @ + 1] /\ down' = down \cup {Ack(s, m.block)}
              /\ copy' = [copy EXCEPT ![s] = Append(@, <<m.of, m.block>>)]
              /\ server' = IF short /\ m.block = size
                           THEN [server EXCEPT ![s] = "over"] ELSE server
         [] OTHER -> UNCHANGED <<down, there, copy>>
    /\ UNCHANGED <<file, here>>

\* Long after: the client is not about to answer.
Quiet(s) == /\ \A m \in up : m.to # s
            /\ \A m \in down : m.from # s
            /\ s = turn => client \notin {"open", "send"}

Repeat(s) ==
  /\ server[s] \in {"get", "put"} /\ Quiet(s)
  /\ down' = down \cup {IF server[s] = "get" THEN Data(s, pos[s]) ELSE Ack(s, pos[s])}
  /\ UNCHANGED <<file, up, here, there, copy>>

-----------------------------------------------------------------------------
(* the menu *)

Choose ==
  /\ client = "menu" /\ turn < Transfers
  /\ turn' = turn + 1 /\ block' = 0 /\ reported' = FALSE
  /\ \/ client' = "recv" /\ up' = up \cup {Request("RRQ", turn')}
     \/ client' = "first" /\ up' = up \cup {Request("WRQ", turn')}
     \/ UNCHANGED <<client, up>>            \* sendto fails
  /\ UNCHANGED <<file, down, to, broken, there, copy>>

Quit == client = "menu" /\ client' = "over"
        /\ UNCHANGED <<file, up, down, turn, block, to, reported, broken, there, copy>>

Back(ok, whole) == /\ client' = "menu" /\ reported' = ok /\ broken' = (broken \/ ~whole)
                   /\ UNCHANGED <<turn, block>>

\* A call fails.  The file of a download is opened when it is asked for already.
GiveUp ==
  /\ client \in {"recv", "first", "open", "send", "ack"} /\ Back(FALSE, FALSE)
  /\ UNCHANGED <<file, up, down, to, there, copy>>

Take(m) == m \in down /\ down' = down \ {m} /\ to' = m.from

-----------------------------------------------------------------------------
(* Download_TFTP *)

Keep(m) == /\ client = "recv" /\ m.op = "DATA" /\ Take(m)
           /\ copy' = [copy EXCEPT ![turn] = Append(@, <<m.from, m.block>>)]
           /\ IF m.block = size THEN Back(TRUE, TRUE)
                                ELSE UNCHANGED <<client, turn, block, reported, broken>>
           /\ UNCHANGED <<file, there>>

\* Defect: the last block is not acknowledged.
RecvLastSilently ==
  \E m \in down :
    Keep(m) /\ up' = IF m.block = size THEN up ELSE up \cup {SendAck(m.from, m.block)}

RecvData == \E m \in down : Keep(m) /\ up' = up \cup {SendAck(m.from, m.block)}

RecvError ==
  \E m \in down :
    /\ client = "recv" /\ m.op = "ERROR" /\ Take(m) /\ Back(FALSE, m.from = turn)
    /\ UNCHANGED <<file, up, there, copy>>

RecvAck ==
  \E m \in down :
    /\ client = "recv" /\ m.op = "ACK" /\ Take(m)
    /\ UNCHANGED <<file, up, client, turn, block, reported, broken, there, copy>>

-----------------------------------------------------------------------------
(* Upload_TFTP *)

Goes(state) == client' = state /\ UNCHANGED <<turn, block, reported, broken>>

FirstAck ==
  \E m \in down :
    /\ client = "first" /\ Take(m)
    /\ IF m.op = "ACK" /\ m.num = 0 THEN Goes("open")
       ELSE Back(FALSE, m = Error(turn))
    /\ UNCHANGED <<file, up, there, copy>>

Open == client = "open" /\ Goes("send") /\ UNCHANGED <<file, up, down, to, there, copy>>

SendBlock ==
  /\ client = "send" /\ block < size
  /\ block' = block + 1 /\ client' = "ack"
  /\ up' = up \cup {SendData(to, turn, block')}
  /\ UNCHANGED <<file, down, turn, to, reported, broken, there, copy>>

EndOfFile ==
  /\ client = "send" /\ block = size /\ Back(TRUE, short)
  /\ UNCHANGED <<file, up, down, to, there, copy>>

\* Defect: only another number than the expected one is waited over.
GetAckInVain ==
  \E m \in down :
    /\ client = "ack" /\ Take(m)
    /\ IF m.op = "ACK" /\ m.num # Wire(block) THEN Goes("ack")
       ELSE IF m.op = "ERROR" THEN Back(FALSE, FALSE) ELSE Goes("send")
    /\ UNCHANGED <<file, up, there, copy>>

\* Another acknowledgement, or an error, ends the upload; a block, left of a download,
\* counts as the acknowledgement.
GetAck ==
  \E m \in down :
    /\ client = "ack" /\ Take(m)
    /\ IF m.op = "ERROR" \/ (m.op = "ACK" /\ m.num # Wire(block))
       THEN Back(FALSE, FALSE) ELSE Goes("send")
    /\ UNCHANGED <<file, up, there, copy>>

-----------------------------------------------------------------------------
Init ==
  /\ NetInit /\ faults = {} /\ size \in 1 .. Wrap - 1 /\ short \in BOOLEAN
  /\ client = "menu" /\ turn = 0 /\ block = 0 /\ to = 0
  /\ reported = FALSE /\ broken = FALSE
  /\ server = [s \in Turns |-> "idle"] /\ pos = [s \in Turns |-> 0]
  /\ copy = [s \in Turns |-> <<>>]

Download == RecvData \/ RecvError
Upload == FirstAck \/ Open \/ SendBlock \/ EndOfFile \/ GetAck
Session(s) == Answer(s) \/ Hear(s) \/ Repeat(s)

Next == \/ Choose \/ Quit \/ GiveUp \/ Download \/ RecvAck \/ Upload
        \/ \E s \in Turns : Session(s)

Spec == /\ Init /\ [][Next]_vars
        /\ WF_vars(Download) /\ WF_vars(Upload)
        /\ \A s \in Turns : WF_vars(Session(s))

-----------------------------------------------------------------------------
\* A transfer that is reported as successful is the whole file and nothing else,
\* although the socket is that of the transfers before it, if each of these was refused
\* by the server, or reported, an upload with a last block that is short
\* (tftp(6757).c:66-78, 159-176, 248-282).
ReportedWhole ==
  reported /\ ~broken => copy[turn] = [k \in 1 .. size |-> <<turn, k>>]

\* Whatever is left of earlier transfers, each transfer comes back to the menu on a
\* network that loses nothing (tftp(6757).c:135-184, 213-226, 236-290).
BackToMenu == client \notin {"menu", "over"} ~> client = "menu"
=============================================================================
