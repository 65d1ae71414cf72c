-------------------------- MODULE TftpMenu_proofs ---------------------------
(***************************************************************************)
(* What the menu of transfers keeps, for every number of transfers and     *)
(* every length of a file: as long as each transfer was reported as whole  *)
(* or refused by the server, its session has settled before the next       *)
(* request is sent, and of the transfer that is on there is one datagram   *)
(* under way.  Nothing of an earlier transfer reaches the client, and no   *)
(* session repeats anything.  A transfer that is given up, or an upload    *)
(* without a short last block, breaks this order: broken says so, and      *)
(* nothing is claimed after it.                                            *)
(***************************************************************************)
EXTENDS TftpClients, SequenceTheorems, TLAPS

-----------------------------------------------------------------------------
(* The invariant. *)

Up(s) == {m \in up : m.to = s}
Down(s) == {m \in down : m.from = s}

MenuTypes ==
  /\ size \in 1 .. Wrap - 1
  /\ client \in {"menu", "over", "recv", "first", "open", "send", "ack"}
  /\ turn \in 0 .. Transfers
  /\ DOMAIN server = Menu!Turns /\ DOMAIN pos = Menu!Turns /\ DOMAIN copy = Menu!Turns

\* The copy of transfer s is its blocks 1 to k.
Blocks(s, k) == copy[s] = [j \in 1 .. k |-> <<s, j>>]

\* Session s has not been asked for anything.
Unused(s) == /\ server[s] = "idle" /\ pos[s] = 0 /\ copy[s] = <<>>
             /\ Up(s) = {} /\ Down(s) = {}

\* Session s has nothing more to do but to hear that its last block arrived.
Settled(s) ==
  /\ Down(s) = {}
  /\ \/ Up(s) = {} /\ server[s] \in {"idle", "over"}
     \/ Up(s) = {Menu!SendAck(s, size)} /\ server[s] = "get" /\ pos[s] = size

Asked(s, op) ==
  /\ Up(s) = {Menu!Request(op, s)} /\ Down(s) = {}
  /\ server[s] = "idle" /\ pos[s] = 0 /\ Blocks(s, 0)
Refused(s) == Up(s) = {} /\ Down(s) = {Menu!Error(s)} /\ server[s] = "over"

\* Of the download that is on there is one datagram.
Downloading(s) ==
  \/ Asked(s, "RRQ") \/ Refused(s)
  \/ /\ server[s] = "get" /\ pos[s] \in 1 .. size /\ Blocks(s, pos[s] - 1)
     /\ Up(s) = {} /\ Down(s) = {Menu!Data(s, pos[s])}
  \/ /\ server[s] = "get" /\ pos[s] \in 1 .. size - 1 /\ Blocks(s, pos[s])
     /\ Up(s) = {Menu!SendAck(s, pos[s])} /\ Down(s) = {}

\* The session of an upload has stored the blocks that were read.
Stored(s) == /\ block \in 0 .. size /\ pos[s] = block /\ Blocks(s, block)
             /\ server[s] = IF short /\ block = size THEN "over" ELSE "put"

Uploading(s) ==
  \/ /\ client = "first" /\ block = 0
     /\ \/ Asked(s, "WRQ") \/ Refused(s)
        \/ Stored(s) /\ Up(s) = {} /\ Down(s) = {Menu!Ack(s, 0)}
  \/ /\ client \in {"open", "send"} /\ to = s
     /\ Stored(s) /\ Up(s) = {} /\ Down(s) = {}
  \/ /\ client = "ack" /\ to = s
     /\ \/ Stored(s) /\ Up(s) = {} /\ Down(s) = {Menu!Ack(s, block)}
        \/ /\ block \in 1 .. size /\ pos[s] = block - 1 /\ Blocks(s, block - 1)
           /\ server[s] = "put"
           /\ Up(s) = {Menu!SendData(s, s, block)} /\ Down(s) = {}

InMenu == client \in {"menu", "over"}

\* A session by the place of its transfer among the others.
Placed(s) ==
  /\ s > turn => Unused(s)
  /\ s < turn \/ (s = turn /\ InMenu) => Settled(s)
  /\ s = turn /\ client = "recv" => Downloading(s)
  /\ s = turn /\ client \in {"first", "open", "send", "ack"} => Uploading(s)

Orderly ==
  /\ \A m \in up : m.to \in Menu!Turns
  /\ \A m \in down : m.from \in Menu!Turns
  /\ \A s \in Menu!Turns : Placed(s)
  /\ reported => Blocks(turn, size)

MenuInv ==
  /\ MenuTypes
  /\ reported => InMenu
  /\ reported \/ ~InMenu => turn # 0
  /\ ~broken => Orderly

-----------------------------------------------------------------------------
(* The blocks and the datagrams. *)

-----------------------------------------------------------------------------
\* One block more.
LEMMA NextBlock ==
  ASSUME NEW s, NEW k \in Nat, Blocks(s, k)
  PROVE  Append(copy[s], <<s, k + 1>>) = [j \in 1 .. k + 1 |-> <<s, j>>]
<1> DEFINE old == [j \in 1 .. k |-> <<s, j>>]
           new == [j \in 1 .. k + 1 |-> <<s, j>>]
           Block == {<<s, j>> : j \in Nat}
<1>1. old \in Seq(Block) /\ Len(old) = k
  OBVIOUS
<1>2. new \in Seq(Block) /\ Len(new) = k + 1
  OBVIOUS
<1>3. <<s, k + 1>> \in Block
  OBVIOUS
<1>4. /\ Append(old, <<s, k + 1>>) \in Seq(Block)
      /\ Len(Append(old, <<s, k + 1>>)) = k + 1
      /\ \A j \in 1 .. k : Append(old, <<s, k + 1>>)[j] = old[j]
      /\ Append(old, <<s, k + 1>>)[k + 1] = <<s, k + 1>>
  BY <1>1, <1>3, AppendProperties
<1>5. \A j \in 1 .. k + 1 : Append(old, <<s, k + 1>>)[j] = new[j]
  BY <1>4
<1>6. Append(old, <<s, k + 1>>) = new
  BY <1>2, <1>4, <1>5, SeqEqual
<1> QED  BY <1>6 DEF Blocks

\* The datagrams of a session, when one more is sent or one has arrived.
LEMMA UpSent ==
  ASSUME NEW m, up' = up \cup {m}
  PROVE  \A s : Up(s)' = IF s = m.to THEN Up(s) \cup {m} ELSE Up(s)
BY DEF Up

LEMMA UpTaken ==
  ASSUME NEW m, up' = up \ {m}
  PROVE  \A s : Up(s)' = Up(s) \ {m} /\ (s # m.to => Up(s)' = Up(s))
BY DEF Up

LEMMA DownSent ==
  ASSUME NEW m, down' = down \cup {m}
  PROVE  \A s : Down(s)' = IF s = m.from THEN Down(s) \cup {m} ELSE Down(s)
BY DEF Down

LEMMA DownTaken ==
  ASSUME NEW m, down' = down \ {m}
  PROVE  \A s : Down(s)' = Down(s) \ {m} /\ (s # m.from => Down(s)' = Down(s))
BY DEF Down

LEMMA UpSame == UNCHANGED up => \A s : Up(s)' = Up(s)
BY DEF Up

LEMMA DownSame == UNCHANGED down => \A s : Down(s)' = Down(s)
BY DEF Down

LEMMA Fields ==
  \A s, j, k :
    /\ \A op : Menu!Request(op, s).op = op /\ Menu!Request(op, s).to = s
    /\ Menu!SendAck(s, k).op = "ACK" /\ Menu!SendAck(s, k).to = s
    /\ Menu!SendAck(s, k).num = Menu!Wire(k)
    /\ Menu!SendData(s, j, k).op = "DATA" /\ Menu!SendData(s, j, k).to = s
    /\ Menu!SendData(s, j, k).of = j /\ Menu!SendData(s, j, k).block = k
    /\ Menu!Data(s, k).op = "DATA" /\ Menu!Data(s, k).from = s /\ Menu!Data(s, k).block = k
    /\ Menu!Ack(s, k).op = "ACK" /\ Menu!Ack(s, k).from = s
    /\ Menu!Ack(s, k).num = Menu!Wire(k)
    /\ Menu!Error(s).op = "ERROR" /\ Menu!Error(s).from = s
BY DEF Menu!Request, Menu!SendAck, Menu!SendData, Menu!Data, Menu!Ack, Menu!Error

\* A session that a step leaves alone keeps its place.
LEMMA OthersStay ==
  ASSUME NEW s \in Menu!Turns, Placed(s), UNCHANGED <<size, turn>>,
         s # turn \/ UNCHANGED <<client, block, to, short>>,
         server'[s] = server[s], pos'[s] = pos[s], copy'[s] = copy[s],
         Up(s)' = Up(s), Down(s)' = Down(s)
  PROVE  Placed(s)'
<1> USE DEF Menu!SendAck, Menu!SendData, Menu!Request, Menu!Data, Menu!Ack, Menu!Error, Menu!Wire
<1>1. Unused(s) => Unused(s)'  BY DEF Unused
<1>2. Settled(s) => Settled(s)'  BY DEF Settled
<1>3. CASE s # turn
  BY <1>1, <1>2, <1>3 DEF Placed
<1>4. CASE UNCHANGED <<client, block, to, short>>
  <2>1. Downloading(s) => Downloading(s)'
    BY DEF Downloading, Asked, Refused, Blocks
  <2>2. Uploading(s) => Uploading(s)'
    BY <1>4 DEF Uploading, Asked, Refused, Stored, Blocks
  <2> QED  BY <1>1, <1>2, <1>4, <2>1, <2>2 DEF Placed, InMenu
<1> QED  BY <1>3, <1>4

\* The steps of a session, or of the client with the session it hears.
LEMMA OneMoves ==
  ASSUME MenuTypes, Orderly, UNCHANGED <<size, turn>>, NEW t \in Menu!Turns,
         t = turn \/ UNCHANGED <<client, block, to, short>>,
         \A s \in Menu!Turns \ {t} :
           /\ server'[s] = server[s] /\ pos'[s] = pos[s] /\ copy'[s] = copy[s]
           /\ Up(s)' = Up(s) /\ Down(s)' = Down(s),
         Placed(t)'
  PROVE  \A s \in Menu!Turns : Placed(s)'
BY OthersStay DEF Orderly

-----------------------------------------------------------------------------
(* Init and the types. *)

LEMMA MenuInit == Menu!Init => MenuInv
<1> SUFFICES ASSUME Menu!Init PROVE MenuInv
  OBVIOUS
<1> USE TransfersAssumption, DatagramsAssumption
        DEF Menu!Init, Menu!NetInit
<1>1. MenuTypes  BY DEF MenuTypes
<1>2. \A s \in Menu!Turns : Unused(s)  BY DEF Unused, Up, Down
<1>3. Orderly  BY <1>2 DEF Orderly, Placed, Menu!Turns
<1> QED  BY <1>1, <1>3 DEF MenuInv, InMenu

LEMMA MenuTypesStep == MenuTypes /\ [Menu!Next]_Menu!vars => MenuTypes'
<1> SUFFICES ASSUME MenuTypes, [Menu!Next]_Menu!vars PROVE MenuTypes'
  OBVIOUS
<1> USE TransfersAssumption
    DEF MenuTypes, Menu!file, Menu!here, Menu!there, Menu!Back, Menu!Goes, Menu!Take
<1>1. ASSUME NEW s \in Menu!Turns, Menu!Answer(s) PROVE MenuTypes'
  BY <1>1 DEF Menu!Answer
<1>2. ASSUME NEW s \in Menu!Turns, Menu!Hear(s) PROVE MenuTypes'
  BY <1>2 DEF Menu!Hear
<1>3. ASSUME NEW s \in Menu!Turns, Menu!Repeat(s) PROVE MenuTypes'
  BY <1>3 DEF Menu!Repeat
<1>4. CASE Menu!Choose \/ Menu!Quit \/ Menu!GiveUp
  BY <1>4 DEF Menu!Choose, Menu!Quit, Menu!GiveUp
<1>5. CASE Menu!Download \/ Menu!RecvAck
  BY <1>5 DEF Menu!Download, Menu!RecvData, Menu!Keep, Menu!RecvError, Menu!RecvAck
<1>6. CASE Menu!Upload
  BY <1>6 DEF Menu!Upload, Menu!FirstAck, Menu!Open, Menu!SendBlock, Menu!EndOfFile, Menu!GetAck
<1>7. CASE UNCHANGED Menu!vars
  BY <1>7 DEF Menu!vars
<1> QED  BY <1>1, <1>2, <1>3, <1>4, <1>5, <1>6, <1>7 DEF Menu!Next, Menu!Session

-----------------------------------------------------------------------------
(* The session. *)

LEMMA AnswerOrderly ==
  ASSUME MenuTypes, Orderly, NEW s \in Menu!Turns, Menu!Answer(s)
  PROVE  Orderly'
<1> USE Fields DEF Menu!file, Menu!here
<1>1. PICK m \in up :
        /\ m.to = s /\ m.op \in {"RRQ", "WRQ"} /\ up' = up \ {m} /\ server[s] = "idle"
        /\ UNCHANGED <<size, short, client, turn, block, to, reported, broken, copy>>
        /\ \/ /\ m.op = "RRQ" /\ server' = [server EXCEPT ![s] = "get"]
              /\ pos' = [pos EXCEPT ![s] = 1] /\ down' = down \cup {Menu!Data(s, 1)}
           \/ /\ m.op = "WRQ" /\ server' = [server EXCEPT ![s] = "put"]
              /\ down' = down \cup {Menu!Ack(s, 0)} /\ UNCHANGED pos
           \/ /\ server' = [server EXCEPT ![s] = "over"]
              /\ down' = down \cup {Menu!Error(s)} /\ UNCHANGED pos
  BY DEF Menu!Answer
<1>2. m \in Up(s)  BY <1>1 DEF Up
<1>3. s = turn /\ client \in {"recv", "first"}
      /\ IF client = "recv" THEN Asked(s, "RRQ") ELSE Asked(s, "WRQ") /\ block = 0
  <2>1. Placed(s)  BY DEF Orderly
  <2>2. ~Unused(s) /\ ~Settled(s)
    BY <1>1, <1>2 DEF Unused, Settled
  <2>3. s = turn /\ client \in {"recv", "first", "open", "send", "ack"}
    BY <2>1, <2>2, DatagramsAssumption DEF Placed, MenuTypes, InMenu, Menu!Turns
  <2>4. client = "recv" => Asked(s, "RRQ")
    BY <1>1, <1>2, <2>1, <2>3 DEF Placed, Downloading, Refused
  <2>5. client # "recv" => client = "first" /\ Asked(s, "WRQ") /\ block = 0
    BY <1>1, <1>2, <2>1, <2>3 DEF Placed, Uploading, Refused, Stored
  <2> QED  BY <2>3, <2>4, <2>5
<1>4. /\ Up(s) = {m} /\ Down(s) = {} /\ pos[s] = 0 /\ Blocks(s, 0)
      /\ m.op = IF client = "recv" THEN "RRQ" ELSE "WRQ"
  BY <1>2, <1>3 DEF Asked
<1>5. Up(s)' = {} /\ \A u \in Menu!Turns \ {s} : Up(u)' = Up(u)
  BY <1>1, <1>4, UpTaken
<1>6. ASSUME NEW r, r.from = s, down' = down \cup {r}
      PROVE  Down(s)' = {r} /\ \A u \in Menu!Turns \ {s} : Down(u)' = Down(u)
  BY <1>4, <1>6, DownSent
<1>7. Blocks(s, 0)' /\ size \in Nat \ {0}
  BY <1>1, <1>4, DatagramsAssumption DEF Blocks, MenuTypes
<1>8. ASSUME \/ client = "recv" /\ Downloading(s)'
             \/ client = "first" /\ Uploading(s)'
      PROVE  Placed(s)'
  BY <1>1, <1>3, <1>8, DatagramsAssumption DEF Placed, InMenu, MenuTypes, Menu!Turns
<1>9. Placed(s)' /\ \A u \in Menu!Turns \ {s} : Down(u)' = Down(u)
  <2>1. CASE m.op = "RRQ" /\ server' = [server EXCEPT ![s] = "get"]
             /\ pos' = [pos EXCEPT ![s] = 1] /\ down' = down \cup {Menu!Data(s, 1)}
    <3>1. server'[s] = "get" /\ pos'[s] = 1  BY <2>1 DEF MenuTypes
    <3>2. Down(s)' = {Menu!Data(s, 1)}  BY <2>1, <1>6
    <3>3. Downloading(s)'
      BY <1>1, <1>5, <1>7, <3>1, <3>2 DEF Downloading, Menu!Data
    <3> QED  BY <1>3, <1>4, <1>6, <1>8, <2>1, <3>3
  <2>2. CASE m.op = "WRQ" /\ server' = [server EXCEPT ![s] = "put"]
             /\ down' = down \cup {Menu!Ack(s, 0)} /\ UNCHANGED pos
    <3>1. server'[s] = "put" /\ pos'[s] = 0  BY <1>4, <2>2 DEF MenuTypes
    <3>2. Down(s)' = {Menu!Ack(s, 0)}  BY <2>2, <1>6
    <3>3. Stored(s)'
      BY <1>1, <1>3, <1>4, <1>7, <2>2, <3>1 DEF Stored, Blocks
    <3>4. Uploading(s)'
      BY <1>1, <1>3, <1>4, <1>5, <2>2, <3>2, <3>3 DEF Uploading, Menu!Ack, Menu!Wire
    <3> QED  BY <1>3, <1>4, <1>6, <1>8, <2>2, <3>4
  <2>3. CASE server' = [server EXCEPT ![s] = "over"]
             /\ down' = down \cup {Menu!Error(s)} /\ UNCHANGED pos
    <3>1. server'[s] = "over"  BY <2>3 DEF MenuTypes
    <3>2. Down(s)' = {Menu!Error(s)}  BY <2>3, <1>6
    <3>3. Refused(s)'  BY <1>5, <3>1, <3>2 DEF Refused, Menu!Error
    <3> QED  BY <1>1, <1>3, <1>6, <1>8, <2>3, <3>3 DEF Downloading, Uploading
  <2> QED  BY <1>1, <2>1, <2>2, <2>3
<1>10. \A u \in Menu!Turns : Placed(u)'
  BY <1>1, <1>5, <1>9, OneMoves DEF MenuTypes
<1>11. /\ \A m1 \in up' : m1.to \in Menu!Turns
       /\ \A m1 \in down' : m1.from \in Menu!Turns
  BY <1>1 DEF Orderly
<1> QED  BY <1>1, <1>10, <1>11 DEF Orderly, Blocks

LEMMA HearOrderly ==
  ASSUME MenuTypes, Orderly, reported => InMenu, NEW s \in Menu!Turns, Menu!Hear(s)
  PROVE  Orderly'
<1> USE Fields, DatagramsAssumption DEF Menu!file, Menu!here, Menu!there
<1>1. PICK m \in up :
        /\ m.to = s /\ m.op \in {"ACK", "DATA"} /\ up' = up \ {m}
        /\ CASE server[s] = "get" /\ m.op = "ACK" /\ m.num = Menu!Wire(pos[s]) ->
                  /\ pos' = [pos EXCEPT ![s] = @ + 1] /\ UNCHANGED copy
                  /\ IF pos[s] = size
                     THEN server' = [server EXCEPT ![s] = "over"] /\ UNCHANGED down
                     ELSE down' = down \cup {Menu!Data(s, pos[s] + 1)} /\ UNCHANGED server
             [] server[s] = "put" /\ m.op = "DATA" /\ m.block = pos[s] + 1 ->
                  /\ pos' = [pos EXCEPT ![s] = @ + 1]
                  /\ down' = down \cup {Menu!Ack(s, m.block)}
                  /\ copy' = [copy EXCEPT ![s] = Append(@, <<m.of, m.block>>)]
                  /\ server' = IF short /\ m.block = size
                               THEN [server EXCEPT ![s] = "over"] ELSE server
             [] OTHER -> UNCHANGED <<down, server, pos, copy>>
        /\ UNCHANGED <<size, short, client, turn, block, to, reported, broken>>
  BY DEF Menu!Hear
<1>2. m \in Up(s) /\ Placed(s)  BY <1>1 DEF Orderly, Up
<1>3. \/ s # turn \/ InMenu
      \/ s = turn /\ client = "recv"
      \/ s = turn /\ client \in {"first", "open", "send", "ack"}
  BY DEF MenuTypes, InMenu
<1>4. Up(s)' = Up(s) \ {m} /\ \A u \in Menu!Turns \ {s} : Up(u)' = Up(u)
  BY <1>1, UpTaken
<1>0. ASSUME NEW r, r.from = s, down' = down \cup {r}, Down(s) = {}
      PROVE  Down(s)' = {r} /\ \A u \in Menu!Turns \ {s} : Down(u)' = Down(u)
  BY <1>0, DownSent
<1>5. /\ Placed(s)'
      /\ \A u \in Menu!Turns \ {s} :
           /\ server'[u] = server[u] /\ pos'[u] = pos[u] /\ copy'[u] = copy[u]
           /\ Down(u)' = Down(u)
      /\ \A r \in down' : r.from \in Menu!Turns
      /\ reported => copy' = copy
  <2>1. CASE s # turn \/ InMenu
    <3>1. Settled(s) /\ (s < turn \/ s = turn)
      BY <1>2, <2>1 DEF Placed, Unused, MenuTypes, Menu!Turns
    <3>2. m = Menu!SendAck(s, size) /\ Up(s) = {m} /\ server[s] = "get" /\ pos[s] = size
          /\ Down(s) = {}
      BY <1>2, <3>1 DEF Settled
    <3>3. server' = [server EXCEPT ![s] = "over"] /\ UNCHANGED <<down, copy>>
          /\ pos' = [pos EXCEPT ![s] = @ + 1]
      BY <1>1, <3>2
    <3>4. Settled(s)'
      BY <1>4, <3>2, <3>3 DEF Settled, MenuTypes, Down
    <3>5. Placed(s)'  BY <1>1, <2>1, <3>1, <3>4 DEF Placed, InMenu, MenuTypes, Menu!Turns
    <3> QED  BY <3>3, <3>5 DEF MenuTypes, Down, Orderly
  <2>2. CASE s = turn /\ client = "recv"
    <3>1. /\ server[s] = "get" /\ pos[s] \in 1 .. size - 1 /\ Blocks(s, pos[s])
          /\ Up(s) = {Menu!SendAck(s, pos[s])} /\ Down(s) = {}
      BY <1>1, <1>2, <2>2 DEF Placed, Downloading, Asked, Refused
    <3>2. m.op = "ACK" /\ m.num = Menu!Wire(pos[s]) /\ Up(s) = {m}
      BY <1>2, <3>1
    <3>3. /\ pos' = [pos EXCEPT ![s] = @ + 1] /\ UNCHANGED <<copy, server>>
          /\ down' = down \cup {Menu!Data(s, pos[s] + 1)}
      BY <1>1, <3>1, <3>2 DEF MenuTypes
    <3>4. Down(s)' = {Menu!Data(s, pos[s] + 1)} /\ \A u \in Menu!Turns \ {s} : Down(u)' = Down(u)
      BY <3>1, <3>3, <1>0
    <3>5. Downloading(s)'
      <4>1. pos'[s] = pos[s] + 1 /\ pos'[s] \in 1 .. size' /\ Up(s)' = {}
        BY <1>1, <1>4, <3>1, <3>2, <3>3 DEF MenuTypes
      <4>2. copy'[s] = [j \in 1 .. pos'[s] - 1 |-> <<s, j>>]
        <5>1. pos'[s] - 1 = pos[s]  BY <3>1, <4>1 DEF MenuTypes
        <5> QED  BY <3>1, <3>3, <5>1 DEF Blocks
      <4> QED  BY <3>1, <3>3, <3>4, <4>1, <4>2 DEF Downloading, Blocks, Menu!Data
    <3>6. Placed(s)'  BY <1>1, <2>2, <3>5 DEF Placed, InMenu, MenuTypes
    <3> QED  BY <3>3, <3>4, <3>6 DEF MenuTypes, Orderly
  <2>3. CASE s = turn /\ client \in {"first", "open", "send", "ack"}
    <3>1. /\ client = "ack" /\ to = s /\ block \in 1 .. size /\ pos[s] = block - 1
          /\ Blocks(s, block - 1) /\ server[s] = "put"
          /\ Up(s) = {Menu!SendData(s, s, block)} /\ Down(s) = {}
      BY <1>1, <1>2, <2>3 DEF Placed, Uploading, Asked, Refused
    <3>2. m.op = "DATA" /\ m.block = block /\ m.of = s /\ Up(s) = {m}
      BY <1>2, <3>1
    <3>3. /\ pos' = [pos EXCEPT ![s] = @ + 1] /\ down' = down \cup {Menu!Ack(s, block)}
          /\ copy' = [copy EXCEPT ![s] = Append(@, <<s, block>>)]
          /\ server' = IF short /\ block = size THEN [server EXCEPT ![s] = "over"] ELSE server
      BY <1>1, <3>1, <3>2 DEF MenuTypes
    <3>4. Down(s)' = {Menu!Ack(s, block)} /\ \A u \in Menu!Turns \ {s} : Down(u)' = Down(u)
      BY <3>1, <3>3, <1>0
    <3>5. Blocks(s, block)'
      <4>0. block - 1 \in Nat  BY <3>1 DEF MenuTypes
      <4>5. PICK k \in Nat : k = block - 1  BY <4>0
      <4>1. Append(copy[s], <<s, k + 1>>) = [j \in 1 .. k + 1 |-> <<s, j>>]
        <5>1. Blocks(s, k)  BY <3>1, <4>5
        <5> HIDE Fields
        <5> QED  BY <5>1, NextBlock
      <4>2. k + 1 = block  BY <3>1, <4>5 DEF MenuTypes
      <4>3. copy'[s] = Append(copy[s], <<s, block>>)  BY <3>3 DEF MenuTypes
      <4> QED  BY <1>1, <4>1, <4>2, <4>3 DEF Blocks
    <3>6. pos'[s] = block /\ server'[s] = IF short /\ block = size THEN "over" ELSE "put"
      BY <3>1, <3>3 DEF MenuTypes
    <3>7. Stored(s)'  BY <1>1, <3>1, <3>5, <3>6 DEF Stored, MenuTypes
    <3>8. Up(s)' = {}  BY <1>4, <3>2
    <3>9. Uploading(s)'  BY <1>1, <3>1, <3>4, <3>7, <3>8 DEF Uploading, Menu!Ack, Menu!Wire
    <3>10. Placed(s)'  BY <1>1, <2>3, <3>1, <3>9 DEF Placed, InMenu, MenuTypes
    <3>11. \A u \in Menu!Turns \ {s} :
             server'[u] = server[u] /\ pos'[u] = pos[u] /\ copy'[u] = copy[u]
      BY <3>3 DEF MenuTypes
    <3>12. \A r \in down' : r.from \in Menu!Turns
      BY <3>3 DEF Orderly, Menu!Ack
    <3>13. ~reported  BY <3>1 DEF InMenu
    <3> QED  BY <3>4, <3>10, <3>11, <3>12, <3>13
  <2> QED  BY <1>3, <2>1, <2>2, <2>3
<1>6. \A u \in Menu!Turns : Placed(u)'
  BY <1>1, <1>4, <1>5, OneMoves
<1> QED  BY <1>1, <1>5, <1>6 DEF Orderly, Blocks

\* Nothing is repeated while every transfer before was reported or refused.
LEMMA NothingRepeated ==
  ASSUME MenuTypes, Orderly, NEW s \in Menu!Turns
  PROVE  ~Menu!Repeat(s)
<1> SUFFICES ASSUME Menu!Repeat(s) PROVE FALSE
  OBVIOUS
<1>1. /\ server[s] \in {"get", "put"} /\ Up(s) = {} /\ Down(s) = {}
      /\ s = turn => client \notin {"open", "send"}
  BY DEF Menu!Repeat, Menu!Quiet, Up, Down
<1>2. ~Unused(s) /\ ~Settled(s)  BY <1>1 DEF Unused, Settled
<1>3. ~Downloading(s) /\ (s = turn => ~Uploading(s))
  BY <1>1 DEF Downloading, Uploading, Asked, Refused
<1>4. Placed(s)  BY DEF Orderly
<1> QED  BY <1>2, <1>3, <1>4 DEF Placed, MenuTypes, InMenu, Menu!Turns

-----------------------------------------------------------------------------
(* The client. *)

\* Nothing is under way to the client but of the transfer that is on.
LEMMA HeardIsOn ==
  ASSUME MenuTypes, Orderly, NEW m \in down
  PROVE  turn \in Menu!Turns /\ m.from = turn /\ m \in Down(turn) /\ ~InMenu
<1>1. m.from \in Menu!Turns /\ m \in Down(m.from) /\ Placed(m.from)
  BY DEF Orderly, Down
<1>2. ~Unused(m.from) /\ ~Settled(m.from)
  BY <1>1 DEF Unused, Settled
<1> QED  BY <1>1, <1>2 DEF Placed, MenuTypes, Menu!Turns

\* A step of the client and of the session of its transfer.
LEMMA TurnMoves ==
  ASSUME MenuTypes, Orderly, UNCHANGED <<size, turn>>, turn \in Menu!Turns,
         \A s \in Menu!Turns \ {turn} :
           /\ server'[s] = server[s] /\ pos'[s] = pos[s] /\ copy'[s] = copy[s]
           /\ Up(s)' = Up(s) /\ Down(s)' = Down(s),
         \A m \in up' : m.to \in Menu!Turns,
         \A m \in down' : m.from \in Menu!Turns,
         Placed(turn)', reported' => Blocks(turn, size)'
  PROVE  Orderly'
BY OneMoves DEF Orderly, Blocks

LEMMA PlacedInMenu ==
  ASSUME turn \in Menu!Turns, UNCHANGED turn, client' = "menu", Settled(turn)'
  PROVE  Placed(turn)'
BY TransfersAssumption DEF Placed, Menu!Turns, InMenu

LEMMA PlacedInTransfer ==
  ASSUME turn \in Menu!Turns, UNCHANGED turn,
         \/ client' = "recv" /\ Downloading(turn)'
         \/ client' \in {"first", "open", "send", "ack"} /\ Uploading(turn)'
  PROVE  Placed(turn)'
BY TransfersAssumption DEF Placed, Menu!Turns, InMenu

LEMMA KeepOrderly ==
  ASSUME MenuTypes, Orderly, reported => InMenu, Menu!RecvData
  PROVE  Orderly'
<1> USE DatagramsAssumption DEF Menu!file, Menu!here, Menu!there
<1>1. PICK m \in down :
        /\ client = "recv" /\ m.op = "DATA" /\ down' = down \ {m} /\ to' = m.from
        /\ copy' = [copy EXCEPT ![turn] = Append(@, <<m.from, m.block>>)]
        /\ IF m.block = size
           THEN client' = "menu" /\ reported' = TRUE /\ UNCHANGED turn
           ELSE UNCHANGED <<client, turn, block, reported, broken>>
        /\ UNCHANGED <<size, short, server, pos>>
        /\ up' = up \cup {Menu!SendAck(m.from, m.block)}
  BY DEF Menu!RecvData, Menu!Keep, Menu!Take, Menu!Back
<1>2. turn \in Menu!Turns /\ m.from = turn /\ m \in Down(turn) /\ ~InMenu
  BY HeardIsOn
<1>3. Downloading(turn)  BY <1>1, <1>2 DEF Orderly, Placed
<1>4. /\ server[turn] = "get" /\ pos[turn] \in 1 .. size /\ Blocks(turn, pos[turn] - 1)
      /\ Up(turn) = {} /\ Down(turn) = {m} /\ m.block = pos[turn]
  BY <1>1, <1>2, <1>3, Fields DEF Downloading, Asked, Refused
<1>5. Down(turn)' = {} /\ \A s \in Menu!Turns \ {turn} : Down(s)' = Down(s)
  BY <1>1, <1>2, <1>4, DownTaken
<1>6. /\ Up(turn)' = {Menu!SendAck(turn, pos[turn])}
      /\ \A s \in Menu!Turns \ {turn} : Up(s)' = Up(s)
  <2>1. ASSUME NEW r, r.to = turn, up' = up \cup {r}, Up(turn) = {}
        PROVE  Up(turn)' = {r} /\ \A s \in Menu!Turns \ {turn} : Up(s)' = Up(s)
    BY <1>1, <2>1, UpSent
  <2>2. Menu!SendAck(turn, pos[turn]).to = turn  BY Fields
  <2>3. up' = up \cup {Menu!SendAck(turn, pos[turn])}  BY <1>1, <1>2, <1>4
  <2> QED  BY <1>4, <2>1, <2>2, <2>3
<1>7. Blocks(turn, pos[turn])'
  <2>1. PICK k \in Nat : k = pos[turn] - 1  BY <1>4 DEF MenuTypes
  <2>2. Blocks(turn, k)  BY <1>4, <2>1
  <2>3. Append(copy[turn], <<turn, k + 1>>) = [j \in 1 .. k + 1 |-> <<turn, j>>]
    BY <2>2, NextBlock
  <2>4. k + 1 = pos[turn]  BY <1>4, <2>1 DEF MenuTypes
  <2>5. copy'[turn] = Append(copy[turn], <<turn, pos[turn]>>)
    BY <1>1, <1>2, <1>4 DEF MenuTypes
  <2> QED  BY <1>1, <2>3, <2>4, <2>5 DEF Blocks
<1>8. Placed(turn)' /\ (reported' => Blocks(turn, size)')
  <2>1. CASE pos[turn] = size
    <3>1. client' = "menu" /\ UNCHANGED <<size, turn, server, pos>>  BY <1>1, <1>4, <2>1
    <3>2. Settled(turn)'
      BY <1>4, <1>5, <1>6, <2>1, <3>1 DEF Settled, Menu!SendAck, Menu!Wire
    <3>3. Blocks(turn, size)'  BY <1>7, <2>1, <3>1 DEF Blocks
    <3> QED  BY <1>2, <3>1, <3>2, <3>3, PlacedInMenu
  <2>2. CASE pos[turn] # size
    <3>1. UNCHANGED <<client, turn, reported, size, server, pos>>  BY <1>1, <1>4, <2>2
    <3>2. pos'[turn] \in 1 .. size' - 1  BY <1>4, <2>2, <3>1 DEF MenuTypes
    <3>3. Downloading(turn)'
      BY <1>4, <1>5, <1>6, <1>7, <3>1, <3>2 DEF Downloading, Menu!SendAck, Menu!Wire, Blocks
    <3>4. ~reported  BY <1>2
    <3> QED  BY <1>1, <1>2, <3>1, <3>3, <3>4, PlacedInTransfer
  <2> QED  BY <2>1, <2>2
<1>9. /\ \A m1 \in up' : m1.to \in Menu!Turns
      /\ \A m1 \in down' : m1.from \in Menu!Turns
  BY <1>1, <1>2, Fields DEF Orderly
<1>10. \A s \in Menu!Turns \ {turn} :
         server'[s] = server[s] /\ pos'[s] = pos[s] /\ copy'[s] = copy[s]
  BY <1>1 DEF MenuTypes
<1>11. UNCHANGED <<size, turn>>  BY <1>1
<1> QED  BY <1>2, <1>5, <1>6, <1>8, <1>9, <1>10, <1>11, TurnMoves

LEMMA RecvErrorOrderly ==
  ASSUME MenuTypes, Orderly, Menu!RecvError
  PROVE  Orderly'
<1>1. PICK m \in down :
        /\ client = "recv" /\ m.op = "ERROR" /\ down' = down \ {m}
        /\ client' = "menu" /\ reported' = FALSE
        /\ UNCHANGED <<size, turn, up, server, pos, copy>>
  BY DEF Menu!RecvError, Menu!Take, Menu!Back, Menu!file, Menu!there
<1>2. turn \in Menu!Turns /\ m.from = turn /\ m \in Down(turn) /\ ~InMenu
  BY HeardIsOn
<1>3. Downloading(turn)  BY <1>1, <1>2 DEF Orderly, Placed
<1>4. server[turn] = "over" /\ Up(turn) = {} /\ Down(turn) = {m}
  BY <1>1, <1>2, <1>3, Fields DEF Downloading, Asked, Refused
<1>5. Down(turn)' = {} /\ \A s \in Menu!Turns \ {turn} : Down(s)' = Down(s)
  BY <1>1, <1>2, <1>4, DownTaken
<1>6. \A s : Up(s)' = Up(s)  BY <1>1, UpSame
<1>7. Settled(turn)'  BY <1>1, <1>4, <1>5, <1>6 DEF Settled
<1>8. Placed(turn)'  BY <1>1, <1>2, <1>7, PlacedInMenu
<1>9. /\ \A m1 \in up' : m1.to \in Menu!Turns
      /\ \A m1 \in down' : m1.from \in Menu!Turns
  BY <1>1 DEF Orderly
<1> QED  BY <1>1, <1>2, <1>5, <1>6, <1>8, <1>9, TurnMoves

\* A download does not hear an acknowledgement.
LEMMA NoAckInDownload ==
  ASSUME MenuTypes, Orderly
  PROVE  ~Menu!RecvAck
<1> SUFFICES ASSUME Menu!RecvAck PROVE FALSE
  OBVIOUS
<1>1. PICK m \in down : client = "recv" /\ m.op = "ACK"
  BY DEF Menu!RecvAck
<1>2. turn \in Menu!Turns /\ m \in Down(turn) /\ ~InMenu
  BY HeardIsOn
<1>3. Downloading(turn)  BY <1>1, <1>2 DEF Orderly, Placed
<1> QED  BY <1>1, <1>2, <1>3, Fields DEF Downloading, Asked, Refused

LEMMA FirstAckOrderly ==
  ASSUME MenuTypes, Orderly, reported => InMenu, Menu!FirstAck
  PROVE  Orderly'
<1> USE DatagramsAssumption
<1>1. PICK m \in down :
        /\ client = "first" /\ down' = down \ {m} /\ to' = m.from
        /\ IF m.op = "ACK" /\ m.num = 0
           THEN client' = "open" /\ UNCHANGED reported
           ELSE client' = "menu" /\ reported' = FALSE
        /\ UNCHANGED <<size, short, turn, block, up, server, pos, copy>>
  BY DEF Menu!FirstAck, Menu!Take, Menu!Back, Menu!Goes, Menu!file, Menu!there
<1>2. turn \in Menu!Turns /\ m.from = turn /\ m \in Down(turn) /\ ~InMenu
  BY HeardIsOn
<1>3. Uploading(turn)  BY <1>1, <1>2 DEF Orderly, Placed
<1>4. /\ block = 0 /\ Up(turn) = {} /\ Down(turn) = {m}
      /\ \/ m.op = "ERROR" /\ server[turn] = "over"
         \/ m.op = "ACK" /\ m.num = 0 /\ Stored(turn)
  <2>1. Menu!Wire(0) = 0  BY DEF Menu!Wire
  <2> QED  BY <1>1, <1>2, <1>3, <2>1, Fields DEF Uploading, Asked, Refused
<1>5. Down(turn)' = {} /\ \A s \in Menu!Turns \ {turn} : Down(s)' = Down(s)
  BY <1>1, <1>2, <1>4, DownTaken
<1>6. \A s : Up(s)' = Up(s)  BY <1>1, UpSame
<1>7. Placed(turn)' /\ ~reported'
  <2>1. CASE m.op = "ERROR" /\ server[turn] = "over"
    <3>1. Settled(turn)'  BY <1>1, <1>4, <1>5, <1>6, <2>1 DEF Settled
    <3> QED  BY <1>1, <1>2, <2>1, <3>1, PlacedInMenu
  <2>2. CASE m.op = "ACK" /\ m.num = 0 /\ Stored(turn)
    <3>1. Stored(turn)'  BY <1>1, <2>2 DEF Stored, Blocks
    <3>2. client' = "open" /\ to' = turn /\ ~reported'  BY <1>1, <1>2, <2>2
    <3>3. Uploading(turn)'  BY <1>1, <1>4, <1>5, <1>6, <3>1, <3>2 DEF Uploading
    <3> QED  BY <1>1, <1>2, <3>2, <3>3, PlacedInTransfer
  <2> QED  BY <1>4, <2>1, <2>2
<1>8. /\ \A m1 \in up' : m1.to \in Menu!Turns
      /\ \A m1 \in down' : m1.from \in Menu!Turns
  BY <1>1 DEF Orderly
<1> QED  BY <1>1, <1>2, <1>5, <1>6, <1>7, <1>8, TurnMoves

\* In an upload nothing is on the socket but what the client waits for.
LEMMA OpenOrderly ==
  ASSUME MenuTypes, Orderly, reported => InMenu, turn \in Menu!Turns, Menu!Open
  PROVE  Orderly'
<1>1. /\ client = "open" /\ client' = "send"
      /\ UNCHANGED <<size, short, turn, block, to, reported, up, down, server, pos, copy>>
  BY DEF Menu!Open, Menu!Goes, Menu!file, Menu!there
<1>2. Uploading(turn) /\ ~reported  BY <1>1 DEF Orderly, Placed, InMenu
<1>3. to = turn /\ Stored(turn) /\ Up(turn) = {} /\ Down(turn) = {}
  BY <1>1, <1>2 DEF Uploading
<1>4. \A s : Up(s)' = Up(s) /\ Down(s)' = Down(s)  BY <1>1, UpSame, DownSame
<1>5. Stored(turn)'  BY <1>1, <1>3 DEF Stored, Blocks
<1>6. Uploading(turn)'  BY <1>1, <1>3, <1>4, <1>5 DEF Uploading
<1>7. Placed(turn)'  BY <1>1, <1>6, PlacedInTransfer
<1>8. /\ \A m1 \in up' : m1.to \in Menu!Turns
      /\ \A m1 \in down' : m1.from \in Menu!Turns
  BY <1>1 DEF Orderly
<1> QED  BY <1>1, <1>2, <1>4, <1>7, <1>8, TurnMoves

LEMMA SendBlockOrderly ==
  ASSUME MenuTypes, Orderly, reported => InMenu, turn \in Menu!Turns, Menu!SendBlock
  PROVE  Orderly'
<1>1. /\ client = "send" /\ block < size /\ block' = block + 1 /\ client' = "ack"
      /\ up' = up \cup {Menu!SendData(to, turn, block + 1)}
      /\ UNCHANGED <<size, short, turn, to, reported, down, server, pos, copy>>
  BY DEF Menu!SendBlock, Menu!file, Menu!there
<1>2. Uploading(turn) /\ ~reported  BY <1>1 DEF Orderly, Placed, InMenu
<1>3. to = turn /\ Stored(turn) /\ Up(turn) = {} /\ Down(turn) = {}
  BY <1>1, <1>2 DEF Uploading
<1>4. /\ block \in Nat /\ pos[turn] = block /\ Blocks(turn, block)
      /\ server[turn] = "put"
  BY <1>1, <1>3, DatagramsAssumption DEF Stored, MenuTypes
<1>5. /\ Up(turn)' = {Menu!SendData(turn, turn, block + 1)}
      /\ \A s \in Menu!Turns \ {turn} : Up(s)' = Up(s)
  <2>1. ASSUME NEW r, r.to = turn, up' = up \cup {r}, Up(turn) = {}
        PROVE  Up(turn)' = {r} /\ \A s \in Menu!Turns \ {turn} : Up(s)' = Up(s)
    BY <1>1, <2>1, UpSent
  <2>2. Menu!SendData(turn, turn, block + 1).to = turn  BY Fields
  <2>3. up' = up \cup {Menu!SendData(turn, turn, block + 1)}  BY <1>1, <1>3
  <2> QED  BY <1>3, <2>1, <2>2, <2>3
<1>6. \A s : Down(s)' = Down(s)  BY <1>1, DownSame
<1>7. Uploading(turn)'
  <2>1. block' \in 1 .. size' /\ pos'[turn] = block' - 1
    BY <1>1, <1>4, DatagramsAssumption DEF MenuTypes
  <2>2. block' - 1 = block  BY <1>1, <1>4
  <2>3. copy'[turn] = [j \in 1 .. block' - 1 |-> <<turn', j>>]
    BY <1>1, <1>4, <2>2 DEF Blocks
  <2> QED  BY <1>1, <1>3, <1>4, <1>5, <1>6, <2>1, <2>3 DEF Uploading, Blocks, Menu!SendData
<1>8. Placed(turn)'  BY <1>1, <1>7, PlacedInTransfer
<1>9. /\ \A m1 \in up' : m1.to \in Menu!Turns
      /\ \A m1 \in down' : m1.from \in Menu!Turns
  BY <1>1, <1>3, Fields DEF Orderly
<1> QED  BY <1>1, <1>2, <1>5, <1>6, <1>8, <1>9, TurnMoves

LEMMA EndOfFileOrderly ==
  ASSUME MenuTypes, Orderly, turn \in Menu!Turns, Menu!EndOfFile
  PROVE  ~broken' => Orderly'
<1> SUFFICES ASSUME ~broken' PROVE Orderly'
  OBVIOUS
<1>1. /\ client = "send" /\ block = size /\ client' = "menu" /\ short
      /\ UNCHANGED <<size, turn, block, up, down, server, pos, copy>>
  BY DEF Menu!EndOfFile, Menu!Back, Menu!file, Menu!there
<1>2. Uploading(turn)  BY <1>1 DEF Orderly, Placed
<1>3. /\ server[turn] = "over" /\ Blocks(turn, size)
      /\ Up(turn) = {} /\ Down(turn) = {}
  BY <1>1, <1>2 DEF Uploading, Stored
<1>4. \A s : Up(s)' = Up(s) /\ Down(s)' = Down(s)  BY <1>1, UpSame, DownSame
<1>5. Settled(turn)'  BY <1>1, <1>3, <1>4 DEF Settled
<1>6. Placed(turn)'  BY <1>1, <1>5, PlacedInMenu
<1>7. Blocks(turn, size)'  BY <1>1, <1>3 DEF Blocks
<1>8. /\ \A m1 \in up' : m1.to \in Menu!Turns
      /\ \A m1 \in down' : m1.from \in Menu!Turns
  BY <1>1 DEF Orderly
<1> QED  BY <1>1, <1>4, <1>6, <1>7, <1>8, TurnMoves

LEMMA GetAckOrderly ==
  ASSUME MenuTypes, Orderly, reported => InMenu, Menu!GetAck
  PROVE  Orderly'
<1>1. PICK m \in down :
        /\ client = "ack" /\ down' = down \ {m} /\ to' = m.from
        /\ IF m.op = "ERROR" \/ (m.op = "ACK" /\ m.num # Menu!Wire(block))
           THEN client' = "menu" ELSE client' = "send" /\ UNCHANGED reported
        /\ UNCHANGED <<size, short, turn, block, up, server, pos, copy>>
  BY DEF Menu!GetAck, Menu!Take, Menu!Back, Menu!Goes, Menu!file, Menu!there
<1>2. turn \in Menu!Turns /\ m.from = turn /\ m \in Down(turn) /\ ~InMenu
  BY HeardIsOn
<1>3. Uploading(turn)  BY <1>1, <1>2 DEF Orderly, Placed
<1>4. /\ Stored(turn) /\ Up(turn) = {} /\ Down(turn) = {m}
      /\ m.op = "ACK" /\ m.num = Menu!Wire(block)
  BY <1>1, <1>2, <1>3, Fields DEF Uploading
<1>5. Down(turn)' = {} /\ \A s \in Menu!Turns \ {turn} : Down(s)' = Down(s)
  BY <1>1, <1>2, <1>4, DownTaken
<1>6. \A s : Up(s)' = Up(s)  BY <1>1, UpSame
<1>7. client' = "send" /\ to' = turn /\ ~reported'  BY <1>1, <1>2, <1>4
<1>8. Stored(turn)'  BY <1>1, <1>4 DEF Stored, Blocks
<1>9. Uploading(turn)'  BY <1>1, <1>4, <1>5, <1>6, <1>7, <1>8 DEF Uploading
<1>10. Placed(turn)'  BY <1>1, <1>2, <1>7, <1>9, PlacedInTransfer
<1>11. /\ \A m1 \in up' : m1.to \in Menu!Turns
       /\ \A m1 \in down' : m1.from \in Menu!Turns
  BY <1>1 DEF Orderly
<1> QED  BY <1>1, <1>2, <1>5, <1>6, <1>7, <1>10, <1>11, TurnMoves

LEMMA ChooseOrderly ==
  ASSUME MenuTypes, Orderly, Menu!Choose
  PROVE  Orderly'
<1> USE TransfersAssumption DEF Menu!Turns
<1>1. /\ client = "menu" /\ turn < Transfers /\ turn' = turn + 1 /\ block' = 0
      /\ reported' = FALSE
      /\ UNCHANGED <<size, down, server, pos, copy>>
  BY DEF Menu!Choose, Menu!file, Menu!there
<1>2. PICK t \in Menu!Turns : t = turn + 1 /\ turn' = t /\ turn \in Nat
  BY <1>1 DEF MenuTypes
<1>3. \A s \in Menu!Turns : Placed(s) /\ Down(s)' = Down(s)
  BY <1>1, DownSame DEF Orderly
<1>4. Unused(t)  BY <1>1, <1>2, <1>3 DEF Placed
<1>5. /\ \A s \in Menu!Turns \ {t} : Up(s)' = Up(s)
      /\ \/ client' = "recv" /\ Up(t)' = {Menu!Request("RRQ", t)}
         \/ client' = "first" /\ Up(t)' = {Menu!Request("WRQ", t)}
         \/ client' = "menu" /\ Up(t)' = {}
      /\ \A m \in up' : m.to \in Menu!Turns
  <2>1. ASSUME NEW op, up' = up \cup {Menu!Request(op, t)}
        PROVE  /\ \A s \in Menu!Turns \ {t} : Up(s)' = Up(s)
               /\ Up(t)' = {Menu!Request(op, t)}
               /\ \A m \in up' : m.to \in Menu!Turns
    <3>1. Menu!Request(op, t).to = t  BY Fields
    <3>2. Up(t) = {}  BY <1>4 DEF Unused
    <3> QED  BY <1>2, <2>1, <3>1, <3>2, UpSent DEF Orderly
  <2>2. CASE client' = "recv" /\ up' = up \cup {Menu!Request("RRQ", t)}
    BY <2>1, <2>2
  <2>3. CASE client' = "first" /\ up' = up \cup {Menu!Request("WRQ", t)}
    BY <2>1, <2>3
  <2>4. CASE UNCHANGED <<client, up>>
    BY <1>1, <1>4, <2>4, UpSame DEF Unused, Orderly
  <2> QED  BY <1>2, <2>2, <2>3, <2>4 DEF Menu!Choose
<1>6. \A s \in Menu!Turns : s < t => Settled(s)'
  <2> SUFFICES ASSUME NEW s \in Menu!Turns, s < t PROVE Settled(s)'
    OBVIOUS
  <2>1. Settled(s)  BY <1>1, <1>2, <1>3 DEF Placed, InMenu
  <2>2. Up(s)' = Up(s) /\ Down(s)' = Down(s)  BY <1>2, <1>3, <1>5
  <2> QED  BY <1>1, <2>1, <2>2 DEF Settled, Menu!SendAck, Menu!Wire
<1>7. \A s \in Menu!Turns : s > t => Unused(s)'
  <2> SUFFICES ASSUME NEW s \in Menu!Turns, s > t PROVE Unused(s)'
    OBVIOUS
  <2>1. Unused(s)  BY <1>1, <1>2, <1>3 DEF Placed
  <2>2. Up(s)' = Up(s) /\ Down(s)' = Down(s)  BY <1>2, <1>3, <1>5
  <2> QED  BY <1>1, <2>1, <2>2 DEF Unused
<1>8. /\ Blocks(t, 0)' /\ Down(t)' = {} /\ server'[t] = "idle" /\ pos'[t] = 0
  BY <1>1, <1>2, <1>3, <1>4 DEF Unused, Blocks
<1>9. Placed(t)'
  <2>1. CASE client' = "recv" /\ Up(t)' = {Menu!Request("RRQ", t)}
    BY <1>2, <1>8, <2>1 DEF Placed, InMenu, Downloading, Asked, Menu!Request
  <2>2. CASE client' = "first" /\ Up(t)' = {Menu!Request("WRQ", t)}
    BY <1>1, <1>2, <1>8, <2>2 DEF Placed, InMenu, Uploading, Asked, Menu!Request
  <2>3. CASE client' = "menu" /\ Up(t)' = {}
    BY <1>2, <1>8, <2>3 DEF Placed, InMenu, Settled
  <2> QED  BY <1>5, <2>1, <2>2, <2>3
<1>10. \A s \in Menu!Turns : Placed(s)'
  <2> SUFFICES ASSUME NEW s \in Menu!Turns, s # t PROVE Placed(s)'
    BY <1>9
  <2>1. s < t \/ s > t  BY <1>2
  <2> QED  BY <1>2, <1>6, <1>7, <2>1 DEF Placed
<1> QED  BY <1>1, <1>5, <1>10 DEF Orderly

LEMMA QuitOrderly ==
  ASSUME MenuTypes, Orderly, Menu!Quit
  PROVE  Orderly'
<1>1. /\ client = "menu" /\ client' = "over"
      /\ UNCHANGED <<size, turn, up, down, reported, server, pos, copy>>
  BY DEF Menu!Quit, Menu!file, Menu!there
<1>2. \A s : Up(s)' = Up(s) /\ Down(s)' = Down(s)  BY <1>1, UpSame, DownSame
<1>3. ASSUME NEW s \in Menu!Turns PROVE Placed(s)'
  <2>1. Placed(s)  BY DEF Orderly
  <2>2. Unused(s) => Unused(s)'  BY <1>1, <1>2 DEF Unused
  <2>3. Settled(s) => Settled(s)'
    BY <1>1, <1>2 DEF Settled, Menu!SendAck, Menu!Wire
  <2> QED  BY <1>1, <2>1, <2>2, <2>3 DEF Placed, InMenu
<1> QED  BY <1>1, <1>3 DEF Orderly, Blocks

\* No step of the menu disturbs the order, unless it breaks a transfer off.
LEMMA OrderlyStep ==
  ASSUME MenuInv, Menu!Next, ~broken'
  PROVE  Orderly'
<1>1. MenuTypes /\ Orderly /\ (reported => InMenu) /\ (~InMenu => turn # 0)
  <2>1. ~broken
    BY DEF Menu!Next, Menu!Choose, Menu!Quit, Menu!GiveUp, Menu!Download, Menu!RecvData,
       Menu!Keep, Menu!RecvError, Menu!RecvAck, Menu!Upload, Menu!FirstAck, Menu!Open,
       Menu!SendBlock, Menu!EndOfFile, Menu!GetAck, Menu!Session, Menu!Answer, Menu!Hear,
       Menu!Repeat, Menu!Back, Menu!Goes, Menu!here
  <2> QED  BY <2>1 DEF MenuInv
<1>2. CASE Menu!Choose \/ Menu!Quit
  BY <1>1, <1>2, ChooseOrderly, QuitOrderly
<1>3. CASE Menu!GiveUp
  BY <1>3 DEF Menu!GiveUp, Menu!Back
<1>4. CASE Menu!Download \/ Menu!RecvAck
  BY <1>1, <1>4, KeepOrderly, RecvErrorOrderly, NoAckInDownload DEF Menu!Download
<1>5. CASE Menu!Upload
  <2>1. Menu!Open \/ Menu!SendBlock \/ Menu!EndOfFile => turn \in Menu!Turns
    <3>1. Menu!Open \/ Menu!SendBlock \/ Menu!EndOfFile => client \in {"open", "send"}
      BY DEF Menu!Open, Menu!SendBlock, Menu!EndOfFile
    <3> QED  BY <1>1, <3>1, TransfersAssumption DEF InMenu, MenuTypes, Menu!Turns
  <2> QED  BY <1>1, <1>5, <2>1, FirstAckOrderly, OpenOrderly, SendBlockOrderly,
              EndOfFileOrderly, GetAckOrderly DEF Menu!Upload
<1>6. ASSUME NEW s \in Menu!Turns, Menu!Session(s) PROVE Orderly'
  BY <1>1, <1>6, AnswerOrderly, HearOrderly, NothingRepeated DEF Menu!Session
<1> QED  BY <1>2, <1>3, <1>4, <1>5, <1>6 DEF Menu!Next

LEMMA MenuStep == MenuInv /\ [Menu!Next]_Menu!vars => MenuInv'
<1> SUFFICES ASSUME MenuInv, [Menu!Next]_Menu!vars PROVE MenuInv'
  OBVIOUS
<1>1. MenuTypes'  BY MenuTypesStep DEF MenuInv
<1>2. CASE Menu!Next
  <2>1. (reported => InMenu)' /\ (reported \/ ~InMenu => turn # 0)'
    <3> USE <1>1, TransfersAssumption DEF MenuInv, MenuTypes, InMenu
    <3>1. CASE Menu!Choose \/ Menu!Quit \/ Menu!GiveUp
      BY <3>1 DEF Menu!Choose, Menu!Quit, Menu!GiveUp, Menu!Back
    <3>2. CASE Menu!Download \/ Menu!RecvAck
      BY <3>2 DEF Menu!Download, Menu!RecvData, Menu!Keep, Menu!RecvError, Menu!RecvAck,
         Menu!Back
    <3>3. CASE Menu!Upload
      BY <3>3 DEF Menu!Upload, Menu!FirstAck, Menu!Open, Menu!SendBlock, Menu!EndOfFile,
         Menu!GetAck, Menu!Back, Menu!Goes
    <3>4. CASE \E s \in Menu!Turns : Menu!Session(s)
      BY <3>4 DEF Menu!Session, Menu!Answer, Menu!Hear, Menu!Repeat, Menu!here
    <3> QED  BY <1>2, <3>1, <3>2, <3>3, <3>4 DEF Menu!Next
  <2> QED  BY <1>1, <1>2, <2>1, OrderlyStep DEF MenuInv
<1>3. CASE UNCHANGED Menu!vars
  <2>1. UNCHANGED <<size, turn, client, block, to, short, up, down, reported, broken,
                    server, pos, copy>>
    BY <1>3 DEF Menu!vars, Menu!file, Menu!here, Menu!there
  <2>2. Orderly => Orderly'
    <3>1. \A s : Up(s)' = Up(s) /\ Down(s)' = Down(s)  BY <2>1, UpSame, DownSame
    <3>2. Orderly => \A s \in Menu!Turns : Placed(s)'
      BY <2>1, <3>1, OthersStay DEF Orderly
    <3> QED  BY <2>1, <3>2 DEF Orderly, Blocks
  <2> QED  BY <1>1, <2>1, <2>2 DEF MenuInv, InMenu
<1> QED  BY <1>2, <1>3
=============================================================================
