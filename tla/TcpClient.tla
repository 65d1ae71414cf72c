------------------------------ MODULE TcpClient ------------------------------
(***************************************************************************)
(* The client of 10.network in two versions.  In 1.tcp_client ("local")    *)
(* main connects, starts the thread that sends what is typed, and receives *)
(* into a buffer of its own.  In old_source/1.tcp_client ("global") the    *)
(* thread is started first, and both use one buffer and one descriptor,    *)
(* which is 0 until there is a socket.  A message arrives as a whole.      *)
(***************************************************************************)
EXTENDS Naturals, Sequences

CONSTANT Lines    \* the most that is typed, that the server tells, and that is
                  \* sent again at the end of the input

VARIABLES version,
          mpc, done,     \* main: "calls", of which done are over, "recv", "print",
                         \* "wipe" or "ended"
          spc,           \* the sender: "off", "gets", "send", "wipe" or "over"
          conn,          \* the descriptor: "zero", "socket", "up", "fin" or "rst" by
                         \* the server, "shut" by the sender
          buffer,        \* of main and of the sender; the global one is main's
          typed, eof,    \* lines typed; the end of the input was reached
          told,          \* messages of the server
          down, up,      \* to be received by main, received by the server
          shown          \* printed

vars == <<version, mpc, done, spc, conn, buffer, typed, eof, told, down, up, shown>>

\* Defect: the newer version with the buffer of the older one.
OneBuffer(side) == "main"
Buffer(side) == IF version = "local" THEN side ELSE "main"
Now(side) == buffer[Buffer(side)]
Puts(side, text) == buffer' = [buffer EXCEPT ![Buffer(side)] = text]

-----------------------------------------------------------------------------
(* main *)

CallsLocal == <<"socket", "connect", "thread">>
CallsGlobal == <<"thread", "socket", "connect">>
Calls == IF version = "local" THEN CallsLocal ELSE CallsGlobal

Call ==
  /\ mpc = "calls"
  /\ LET call == Calls[done + 1]
     IN  /\ conn' = CASE call = "socket" -> "socket"
                      [] call = "connect" -> IF conn = "shut" THEN conn ELSE "up"
                      [] OTHER -> conn
         /\ spc' = IF call = "thread" THEN "gets" ELSE spc
         /\ mpc' = CASE call = "connect" /\ conn = "shut" -> "ended"
                     [] done + 1 = Len(Calls) -> "recv"
                     [] OTHER -> mpc
  /\ done' = done + 1
  /\ UNCHANGED <<version, buffer, typed, eof, told, down, up, shown>>

CallFails ==
  /\ mpc = "calls" /\ mpc' = "ended"
  /\ UNCHANGED <<version, done, spc, conn, buffer, typed, eof, told, down, up, shown>>

Recv ==
  /\ mpc = "recv" /\ down # <<>> /\ conn # "shut"
  /\ down' = Tail(down) /\ Puts("main", Head(down)) /\ mpc' = "print"
  /\ UNCHANGED <<version, done, spc, conn, typed, eof, told, up, shown>>

\* Defect: the end of the connection is not looked for.
RecvGoesOn ==
  /\ mpc = "recv" /\ conn \in {"rst", "shut"} /\ mpc' = "ended"
  /\ UNCHANGED <<version, done, spc, conn, buffer, typed, eof, told, down, up, shown>>

\* recv returns 0 or -1; after a reset what has arrived is lost.
RecvEnd ==
  /\ mpc = "recv" /\ mpc' = "ended"
  /\ conn \in {"rst", "shut"} \/ (conn = "fin" /\ down = <<>>)
  /\ UNCHANGED <<version, done, spc, conn, buffer, typed, eof, told, down, up, shown>>

Show ==
  /\ mpc = "print" /\ mpc' = "wipe" /\ shown' = Append(shown, Now("main"))
  /\ UNCHANGED <<version, done, spc, conn, buffer, typed, eof, told, down, up>>

Wipe ==
  /\ mpc = "wipe" /\ mpc' = "recv" /\ Puts("main", <<>>)
  /\ UNCHANGED <<version, done, spc, conn, typed, eof, told, down, up, shown>>

-----------------------------------------------------------------------------
(* the sender *)

Gets ==
  /\ spc = "gets" /\ ~eof /\ typed < Lines
  /\ typed' = typed + 1 /\ Puts("sender", <<"typed", typed + 1>>) /\ spc' = "send"
  /\ UNCHANGED <<version, mpc, done, conn, eof, told, down, up, shown>>

\* What fgets returns is not looked at: the buffer is sent as it is.
GetsEnd ==
  /\ spc = "gets" /\ Len(up) < 2 * Lines
  /\ eof' = TRUE /\ spc' = "send"
  /\ UNCHANGED <<version, mpc, done, conn, buffer, typed, told, down, up, shown>>

Onward == spc' = IF version = "local" THEN "gets" ELSE "wipe"

\* Descriptor 0 may be a terminal, which takes the line.  A socket that is not
\* connected, or whose peer has reset it, ends the process with SIGPIPE.
Send ==
  /\ spc = "send"
  /\ \/ conn = "zero" /\ (Onward \/ spc' = "over") /\ UNCHANGED <<mpc, conn, up>>
     \/ conn \in {"socket", "rst"} /\ mpc' = "ended" /\ UNCHANGED <<spc, conn, up>>
     \/ conn = "up" /\ up' = Append(up, Now("sender")) /\ Onward /\ UNCHANGED <<mpc, conn>>
     \/ conn = "fin" /\ conn' \in {"fin", "rst"} /\ Onward /\ UNCHANGED <<mpc, up>>
  /\ UNCHANGED <<version, done, buffer, typed, eof, told, down, shown>>

SenderWipes ==
  /\ spc = "wipe" /\ spc' = "gets" /\ Puts("sender", <<>>)
  /\ UNCHANGED <<version, mpc, done, conn, typed, eof, told, down, up, shown>>

\* The descriptor is closed that client_socket has by now.
SenderEnds ==
  /\ spc = "over" /\ spc' = "off"
  /\ conn' = IF conn = "zero" THEN conn ELSE "shut"
  /\ UNCHANGED <<version, mpc, done, buffer, typed, eof, told, down, up, shown>>

-----------------------------------------------------------------------------
(* the server *)

Tell ==
  /\ conn = "up" /\ told < Lines
  /\ told' = told + 1 /\ down' = Append(down, <<"told", told + 1>>)
  /\ UNCHANGED <<version, mpc, done, spc, conn, buffer, typed, eof, up, shown>>

ServerCloses ==
  /\ conn = "up" /\ conn' \in {"fin", "rst"}
  /\ UNCHANGED <<version, mpc, done, spc, buffer, typed, eof, told, down, up, shown>>

-----------------------------------------------------------------------------
Init ==
  /\ version \in {"local", "global"}
  /\ mpc = "calls" /\ done = 0 /\ spc = "off" /\ conn = "zero"
  /\ buffer = [side \in {"main", "sender"} |-> <<>>]
  /\ typed = 0 /\ eof = FALSE /\ told = 0 /\ down = <<>> /\ up = <<>> /\ shown = <<>>

Main == Call \/ Recv \/ RecvEnd \/ Show \/ Wipe
Sender == Gets \/ GetsEnd \/ Send \/ SenderWipes \/ SenderEnds

LocalMain == version = "local" /\ Main
LocalSender == version = "local" /\ Sender
GlobalMain == version = "global" /\ Main
GlobalSender == version = "global" /\ Sender

Next == /\ mpc # "ended"
        /\ \/ LocalMain \/ LocalSender \/ GlobalMain \/ GlobalSender
           \/ CallFails \/ Tell \/ ServerCloses

Spec == Init /\ [][Next]_vars /\ WF_vars(mpc # "ended" /\ Main)

-----------------------------------------------------------------------------
\* What is typed reaches the server and what the server tells is printed, in order
\* and nothing else, while the two threads are at it at the same time; with the
\* global buffer while one side only talks, and but for what is typed before the
\* socket is there (1.tcp_client/main.c:12, 16-26, 101-112).  It ends with the input.
FullDuplex ==
  ~eof /\ (version = "local" \/ typed = 0 \/ told = 0) =>
    /\ \A k \in DOMAIN shown : shown[k] = <<"told", k>>
    /\ \E early \in 0 .. typed : /\ version = "local" => early = 0
                                 /\ \A k \in DOMAIN up : up[k] = <<"typed", early + k>>

\* When the server closes the connection the client ends, whatever its sender does
\* meanwhile (main.c:101-114).
ClientEnds == conn \in {"fin", "rst"} ~> mpc = "ended"
=============================================================================
