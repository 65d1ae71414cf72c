---------------------------- MODULE TftpClients ----------------------------
(***************************************************************************)
(* The three TFTP transfers and the menu of transfers for TLC: a behaviour *)
(* is one of a single program, chosen at the start together with its file  *)
(* and its network.                                                        *)
(***************************************************************************)
EXTENDS Datagrams

CONSTANTS Sessions, Transfers

ASSUME TransfersAssumption == Transfers \in Nat

VARIABLES program, client, copy,
          pos, num, short, block, server,
          turn, to, reported, broken

Get == INSTANCE TftpGet
Download == INSTANCE TftpDownload
Upload == INSTANCE TftpUpload
Menu == INSTANCE TftpMenu

putVars == <<short, block, server>>
menuVars == <<turn, to, reported, broken>>
vars == <<program, size, faults, up, down, client, copy, pos, num, putVars, menuVars>>

\* Where the copy is one: download on a network that does not repeat, upload on
\* such a one or if the block numbers are unambiguous.  Elsewhere a block may be
\* stored again and again.
Promised == \/ program = "get" \/ "repeat" \notin faults
            \/ program = "upload" /\ size < Wrap

InitTransfer ==
  /\ program \in {"get", "download", "upload"}
  /\ Get!Init /\ block = 0 /\ server = "idle"
  /\ short \in IF program = "upload" THEN BOOLEAN ELSE {FALSE}
  /\ program # "upload" => size > 0
  /\ Promised
  /\ turn = 0 /\ to = 0 /\ reported = FALSE /\ broken = FALSE

Init == InitTransfer \/ (program = "menu" /\ Menu!Init /\ num = 0)

Gets(A) == program = "get" /\ A /\ UNCHANGED <<program, putVars, menuVars>>
Downloads(A) == program = "download" /\ A /\ UNCHANGED <<program, num, putVars, menuVars>>
Uploads(A) == program = "upload" /\ A /\ UNCHANGED <<program, pos, num, menuVars>>
Menus(A) == program = "menu" /\ A /\ UNCHANGED <<program, num>>

Next == \/ Gets(Get!Next) \/ Downloads(Download!Next) \/ Uploads(Upload!Next)
        \/ Menus(Menu!Next)

\* The server serves both downloads.
Serves(A) == /\ program \in {"get", "download"} /\ A
             /\ UNCHANGED <<program, client, copy, num, putVars, menuVars>>

Spec ==
  /\ Init /\ [][Next]_vars
  /\ WF_vars(Gets(Get!Request)) /\ SF_vars(Gets(Get!RecvData))
  /\ SF_vars(Gets(Get!RecvOther)) /\ SF_vars(Gets(Get!RecvError))
  /\ WF_vars(Downloads(Download!Request)) /\ WF_vars(Downloads(Download!RecvData))
  /\ WF_vars(Downloads(Download!RecvError))
  /\ WF_vars(Uploads(Upload!Client)) /\ WF_vars(Uploads(Upload!Open \/ Upload!Store))
  /\ \A s \in Sessions :
       /\ SF_vars(Serves(Get!Serve(s))) /\ SF_vars(Serves(Get!GetAck(s)))
       /\ WF_vars(Serves(Get!SendAgain(s)))
  /\ WF_vars(Menus(Menu!Download)) /\ WF_vars(Menus(Menu!Upload))
  /\ \A s \in Menu!Turns : WF_vars(Menus(Menu!Session(s)))

-----------------------------------------------------------------------------
\* The types of start_download: its block number stays below Wrap (tftp.c:70).
TypeOK == program = "get" => Get!TypeOK

\* What is written is at every moment the beginning of the file and success is
\* reported for the whole of it only (tftp.c:68-101, newtftp/tftp.c:132-156 and
\* 211-256).
Copy == INSTANCE FileCopy WITH success <- (client = "done"),
                               copy <- (IF program = "menu" THEN <<>> ELSE copy)
Copies == Copy!CInit /\ [][Copy!CNext]_<<size, IF program = "menu" THEN <<>> ELSE copy, client = "done">>

\* On a network that neither loses nor repeats each transfer ends, and for tftp.c
\* if the file has fewer blocks than there are block numbers (tftp.c:43-104,
\* newtftp/tftp.c:120-162 and 211-256).
Ends == program # "menu" /\ faults = {} /\ (program = "get" => size < Wrap)
           ~> client \in {"done", "error", "exit", "quit"}

\* When the upload of a file with a short last block is reported as successful,
\* the server has closed its copy (newtftp/tftp.c:222-225).
ServerClosed == program = "upload" /\ client = "done" /\ short /\ size > 0
                   => server = "closed"

\* A transfer of the menu that is reported as successful is the whole file and nothing else,
\* although the socket is that of the transfers before it, if each of these was refused
\* by the server, or reported, an upload with a last block that is short
\* (tftp(6757).c:66-78, 159-176, 248-282).
ReportedWhole == program = "menu" => Menu!ReportedWhole

\* Whatever is left of earlier transfers, each comes back to the menu on a network
\* that loses nothing (tftp(6757).c:135-184, 213-226, 236-290).
BackToMenu == program = "menu" /\ client \notin {"menu", "over"}
                ~> (program = "menu" => client = "menu")
=============================================================================
