------------------------- MODULE TftpClients_proofs -------------------------
(***************************************************************************)
(* Theorems about TftpClients, for every file, every number of block       *)
(* numbers, sessions and transfers, and every network that its programs    *)
(* are promised on: each copy is the beginning of its file, and success is *)
(* reported for the whole of it only.                                      *)
(***************************************************************************)
EXTENDS TftpMenu_proofs

\* What is written is the beginning of the file.
Beginning ==
  /\ copy \in Seq(Nat) /\ Len(copy) <= size
  /\ \A k \in 1 .. Len(copy) : copy[k] = k

-----------------------------------------------------------------------------
(* tftp.c: no datagram is ahead of the copy by more than one block. *)

GetTypes ==
  /\ size \in Sizes \ {0} /\ faults \in Networks
  /\ client \in {"start", "recv", "done", "error", "exit"}
  /\ num \in 0 .. Wrap - 1 /\ pos \in [Sessions -> 0 .. size + 1]

\* An acknowledgement is of a block that is written, by its number, which has not
\* wrapped; a block and a session are at the next block at most.
GetSent ==
  /\ \A m \in up : \/ m = Get!RRQ
                   \/ \E s \in Sessions, k \in 1 .. Len(copy) : m = Get!Ack(s, k)
  /\ \A m \in down : \/ \E s \in Sessions : m = Get!Error(s)
                     \/ \E s \in Sessions, k \in 1 .. size :
                          k <= Len(copy) + 1 /\ m = Get!Data(s, k)
  /\ \A s \in Sessions : pos[s] <= size => pos[s] <= Len(copy) + 1

GetCopy ==
  /\ Beginning /\ Len(copy) < Wrap
  /\ client \in {"start", "recv"} => num = Len(copy)
  /\ client = "done" => Len(copy) = size

GetInv == GetTypes /\ GetSent /\ GetCopy

-----------------------------------------------------------------------------
(* newtftp/tftp.c, download: on a network that does not repeat there is one      *)
(* datagram at a time, although every block is taken as it comes.                *)

DownloadTypes ==
  /\ size \in Sizes \ {0} /\ "repeat" \notin faults
  /\ client \in {"start", "recv", "done", "error", "exit"}
  /\ pos \in [Sessions -> Nat]

Untouched == copy = <<>> /\ \A s \in Sessions : pos[s] = 0

OneDatagram ==
  \/ up = {Download!RRQ} /\ down = {} /\ Untouched
  \/ /\ down = {}
     /\ \E s \in Sessions : /\ up = {Download!Ack(s, Download!Wire(Len(copy)))}
                            /\ pos[s] = Len(copy) /\ copy # <<>>
  \/ /\ up = {}
     /\ \E s \in Sessions : /\ down = {Download!Data(s, Len(copy) + 1)}
                            /\ pos[s] = Len(copy) + 1 /\ Len(copy) < size
  \/ up = {} /\ \E s \in Sessions : down = {Download!Error(s)}
  \/ up = {} /\ down = {}

DownloadInv ==
  /\ DownloadTypes /\ OneDatagram /\ Beginning
  /\ client = "start" => up = {} /\ down = {} /\ Untouched
  /\ client = "done" => Len(copy) = size

-----------------------------------------------------------------------------
(* newtftp/tftp.c, upload. *)

UploadTypes ==
  /\ size \in Sizes /\ short \in BOOLEAN /\ block \in 0 .. size
  /\ "repeat" \in faults => size < Wrap
  /\ client \in {"start", "first", "send", "ack", "done", "quit", "exit"}
  /\ server \in {"idle", "open", "closed"}

\* What is under way is a block that was read and an acknowledgement of one that
\* is stored.
UploadSent ==
  /\ \A m \in up : m = Upload!WRQ \/ \E k \in 1 .. block : m = Upload!Data(k)
  /\ \A m \in down : \/ m = Upload!Error
                     \/ \E k \in 0 .. Len(copy) : m = Upload!Ack(Upload!Wire(k))

\* The server waits for the blocks that are not read yet.
OpenFor == block < size => server = "open"

\* On a network that does not repeat there is one datagram at a time.
UploadOne ==
  "repeat" \notin faults =>
    /\ client = "start" => up = {} /\ down = {} /\ server = "idle"
    /\ client = "send" => up = {} /\ down = {} /\ OpenFor
    /\ Upload!WRQ \in up => up = {Upload!WRQ} /\ down = {} /\ server = "idle" /\ block = 0
    /\ \A k \in 1 .. block : Upload!Data(k) \in up =>
         /\ up = {Upload!Data(k)} /\ down = {}
         /\ k = block /\ Len(copy) = block - 1 /\ server = "open"
    /\ \A m \in down : /\ up = {} /\ down = {m}
                       /\ m # Upload!Error => Len(copy) = block /\ OpenFor

\* The copy is as long as what was read, or one block shorter.
UploadCopy ==
  /\ Beginning /\ Len(copy) <= block /\ block <= Len(copy) + 1
  /\ client \in {"start", "first"} => block = 0
  /\ client \in {"send", "done"} => Len(copy) = block
  /\ client = "done" => block = size
  /\ short /\ size > 0 /\ Len(copy) = size => server = "closed"

UploadInv == UploadTypes /\ UploadSent /\ UploadOne /\ UploadCopy

-----------------------------------------------------------------------------
Inv == /\ program \in {"get", "download", "upload", "menu"}
       /\ program = "get" => GetInv
       /\ program = "download" => DownloadInv
       /\ program = "upload" => UploadInv
       /\ program = "menu" => MenuInv

-----------------------------------------------------------------------------
(* Numbers and copies. *)

\* Numbers below Wrap are the same on the wire, and Wrap is not.
LEMMA WireSmall ==
  ASSUME NEW k \in 0 .. Wrap - 1
  PROVE  Get!Wire(k) = k /\ Upload!Wire(k) = k /\ Menu!Wire(k) = k
BY DatagramsAssumption DEF Get!Wire, Upload!Wire, Menu!Wire

LEMMA WireWrap == Get!Wire(Wrap) = 0 /\ Upload!Wire(Wrap) = 0
BY DatagramsAssumption DEF Get!Wire, Upload!Wire

LEMMA Grow ==
  ASSUME Beginning, size \in Nat, Len(copy) < size, UNCHANGED size,
         copy' = Append(copy, Len(copy) + 1)
  PROVE  Beginning' /\ Len(copy') = Len(copy) + 1
<1>1. Len(copy) \in Nat  BY DEF Beginning
<1>2. /\ copy' \in Seq(Nat) /\ Len(copy') = Len(copy) + 1
      /\ \A k \in 1 .. Len(copy) : copy'[k] = copy[k]
      /\ copy'[Len(copy) + 1] = Len(copy) + 1
  BY <1>1, AppendProperties DEF Beginning
<1>3. \A k \in 1 .. Len(copy') : copy'[k] = k
  BY <1>1, <1>2 DEF Beginning
<1> QED  BY <1>1, <1>2, <1>3 DEF Beginning

-----------------------------------------------------------------------------
(* tftp.c. *)

LEMMA GetInit == InitTransfer /\ program = "get" => GetInv
<1> SUFFICES ASSUME InitTransfer, program = "get" PROVE GetInv
  OBVIOUS
<1>1. size \in Sizes \ {0} /\ faults \in Networks /\ up = {} /\ down = {}
  BY DatagramsAssumption DEF InitTransfer, Get!Init, Get!NetInit
<1>2. /\ pos = [s \in Sessions |-> 0] /\ client = "start" /\ num = 0 /\ copy = <<>>
  BY DEF InitTransfer, Get!Init, Get!SessionsInit
<1>3. size \in Nat \ {0}
  BY <1>1, DatagramsAssumption
<1>4. GetTypes
  BY <1>1, <1>2, <1>3, DatagramsAssumption DEF GetTypes
<1>5. GetSent
  BY <1>1, <1>2, <1>3 DEF GetSent
<1>6. GetCopy
  BY <1>2, <1>3, DatagramsAssumption DEF GetCopy, Beginning
<1> QED  BY <1>4, <1>5, <1>6 DEF GetInv

\* A datagram less, and nothing else.
LEMMA GetLess ==
  ASSUME GetInv, up' \subseteq up, down' \subseteq down,
         UNCHANGED <<size, faults, pos, num, copy>>,
         client' = client \/ client' \in {"error", "exit"}
  PROVE  GetInv'
BY DEF GetInv, GetTypes, GetSent, GetCopy, Beginning

LEMMA GetDelivered ==
  ASSUME NEW D, NEW m, NEW E \in Get!Delivered(D, m)
  PROVE  E \subseteq D
BY DEF Get!Delivered

LEMMA GetStep == GetInv /\ [Get!Next]_Get!vars => GetInv'
<1> SUFFICES ASSUME GetInv, [Get!Next]_Get!vars PROVE GetInv'
  OBVIOUS
<1> USE DatagramsAssumption DEF GetInv
<1>0. /\ size \in Nat \ {0} /\ Len(copy) \in Nat /\ Len(copy) <= size /\ Len(copy) < Wrap
      /\ pos \in [Sessions -> 0 .. size + 1]
  BY DEF GetTypes, GetCopy, Beginning
<1>1. CASE Get!Request
  <2>1. /\ client = "start" /\ client' = "recv" /\ up' = up \cup {Get!RRQ}
        /\ UNCHANGED <<size, faults, down, pos, num, copy>>
    BY <1>1 DEF Get!Request, Get!file
  <2>2. GetTypes' /\ GetSent'  BY <2>1 DEF GetTypes, GetSent
  <2>3. GetCopy'  BY <2>1 DEF GetCopy, Beginning
  <2> QED  BY <2>2, <2>3
<1>2. CASE Get!RecvData
  <2>1. PICK m \in down :
          /\ client = "recv" /\ m.op = "DATA" /\ Get!Wire(m.block) = num + 1
          /\ down' \in Get!Delivered(down, m)
          /\ num' = IF m.block = size THEN num ELSE Get!Wire(m.block)
          /\ copy' = Append(copy, m.block)
          /\ up' = up \cup {Get!Ack(m.from, Get!Wire(m.block))}
          /\ client' = IF m.block = size THEN "done" ELSE "recv"
          /\ UNCHANGED <<size, faults, pos>>
    BY <1>2 DEF Get!RecvData, Get!file
  <2>2. PICK s \in Sessions, k \in 1 .. size : k <= Len(copy) + 1 /\ m = Get!Data(s, k)
    BY <2>1 DEF GetSent, Get!Error
  <2>3. m.block = k /\ m.from = s  BY <2>2 DEF Get!Data
  <2>4. num = Len(copy)  BY <2>1 DEF GetCopy
  <2>5. k < Wrap /\ Get!Wire(k) = k /\ k = Len(copy) + 1
    <3>1. CASE k < Wrap
      BY <1>0, <2>1, <2>3, <2>4, <3>1, WireSmall
    <3>2. CASE k = Wrap
      BY <1>0, <2>1, <2>3, <2>4, <3>2, WireWrap
    <3> QED  BY <1>0, <2>2, <3>1, <3>2
  <2>6. Beginning' /\ Len(copy') = Len(copy) + 1
    BY <1>0, <2>1, <2>3, <2>5, Grow DEF GetCopy
  <2>7. GetCopy'
    BY <1>0, <2>1, <2>3, <2>4, <2>5, <2>6 DEF GetCopy
  <2>8. GetTypes'
    BY <1>0, <2>1, <2>3, <2>5 DEF GetTypes
  <2>9. down' \subseteq down  BY <2>1, GetDelivered
  <2>10. \A m1 \in up' : \/ m1 = Get!RRQ
                         \/ \E s1 \in Sessions, k1 \in 1 .. Len(copy') : m1 = Get!Ack(s1, k1)
    <3>1. Get!Ack(m.from, Get!Wire(m.block)) = Get!Ack(s, k) /\ k \in 1 .. Len(copy')
      BY <1>0, <2>3, <2>5, <2>6
    <3> QED  BY <1>0, <2>1, <2>6, <3>1 DEF GetSent
  <2>11. /\ \A m1 \in down' : \/ \E s1 \in Sessions : m1 = Get!Error(s1)
                              \/ \E s1 \in Sessions, k1 \in 1 .. size :
                                   k1 <= Len(copy') + 1 /\ m1 = Get!Data(s1, k1)
         /\ \A s1 \in Sessions : pos[s1] <= size => pos[s1] <= Len(copy') + 1
    BY <1>0, <2>6, <2>9 DEF GetSent
  <2>12. GetSent'  BY <2>1, <2>10, <2>11 DEF GetSent
  <2> QED  BY <2>7, <2>8, <2>12
<1>3. CASE Get!RecvOther \/ Get!RecvError \/ Get!IoFails \/ Get!Losing
  BY <1>3, GetLess, GetDelivered
  DEF Get!RecvOther, Get!RecvError, Get!IoFails, Get!Losing, Get!Lose, Get!state, Get!net, Get!file
<1>4. ASSUME NEW s \in Sessions, Get!Serving(s) PROVE GetInv'
  <2>0. UNCHANGED <<size, faults, client, num, copy>>
    BY <1>4 DEF Get!Serving, Get!Server, Get!Serve, Get!GetAck, Get!SendAgain, Get!state
  <2>1. GetCopy'  BY <2>0 DEF GetCopy, Beginning
  <2>2. CASE Get!Serve(s)
    <3>1. /\ up' \subseteq up
          /\ \/ pos' = [pos EXCEPT ![s] = 1] /\ down' = down \cup {Get!Data(s, 1)}
             \/ pos' = [pos EXCEPT ![s] = size + 1] /\ down' = down \cup {Get!Error(s)}
      BY <2>2, GetDelivered DEF Get!Serve
    <3>2. GetTypes'  BY <1>0, <2>0, <3>1 DEF GetTypes
    <3>3. GetSent'  BY <1>0, <2>0, <3>1 DEF GetSent
    <3> QED  BY <2>1, <3>2, <3>3
  <2>3. CASE Get!GetAck(s)
    <3>1. PICK m \in up :
            /\ m.op = "ACK" /\ m.to = s /\ up' \in Get!Delivered(up, m)
            /\ IF pos[s] \in 1 .. size /\ m.num = Get!Wire(pos[s])
               THEN /\ pos' = [pos EXCEPT ![s] = pos[s] + 1]
                    /\ down' = IF pos[s] = size THEN down
                               ELSE down \cup {Get!Data(s, pos[s] + 1)}
               ELSE UNCHANGED <<pos, down>>
      BY <2>3 DEF Get!GetAck
    <3>2. up' \subseteq up  BY <3>1, GetDelivered
    <3>3. CASE pos[s] \in 1 .. size /\ m.num = Get!Wire(pos[s])
      <4>1. PICK s1 \in Sessions, k \in 1 .. Len(copy) : m = Get!Ack(s1, k)
        BY <3>1 DEF GetSent, Get!RRQ
      <4>2. Get!Wire(pos[s]) \in 1 .. Len(copy)
        BY <3>3, <4>1 DEF Get!Ack
      <4>3. pos[s] <= Len(copy) + 1
        BY <1>0, <3>3 DEF GetSent
      <4>4. pos[s] <= Len(copy)
        <5>1. CASE pos[s] < Wrap
          BY <1>0, <3>3, <4>2, <5>1, WireSmall
        <5>2. CASE pos[s] = Wrap
          BY <1>0, <4>2, <5>2, WireWrap
        <5> QED  BY <1>0, <3>3, <4>3, <5>1, <5>2
      <4>5. pos' = [pos EXCEPT ![s] = pos[s] + 1]  BY <3>1, <3>3
      <4>6. down' = down \/ (pos[s] + 1 <= size /\ down' = down \cup {Get!Data(s, pos[s] + 1)})
        BY <1>0, <3>1, <3>3
      <4>7. GetTypes'  BY <1>0, <2>0, <3>3, <4>5 DEF GetTypes
      <4>8. \A s2 \in Sessions : pos'[s2] <= size => pos'[s2] <= Len(copy) + 1
        BY <1>0, <4>4, <4>5 DEF GetSent
      <4>9. \A m1 \in down' : \/ \E s2 \in Sessions : m1 = Get!Error(s2)
                              \/ \E s2 \in Sessions, k1 \in 1 .. size :
                                   k1 <= Len(copy) + 1 /\ m1 = Get!Data(s2, k1)
        <5>1. pos[s] + 1 <= size => pos[s] + 1 \in 1 .. size
          BY <1>0, <3>3
        <5> QED  BY <1>0, <4>4, <4>6, <5>1 DEF GetSent
      <4>10. GetSent'  BY <2>0, <3>2, <4>8, <4>9 DEF GetSent
      <4> QED  BY <2>1, <4>7, <4>10
    <3>4. CASE ~(pos[s] \in 1 .. size /\ m.num = Get!Wire(pos[s]))
      BY <2>0, <3>1, <3>2, <3>4, GetLess
    <3> QED  BY <3>3, <3>4
  <2>4. CASE Get!SendAgain(s)
    <3>1. pos[s] \in 1 .. size /\ down' = down \cup {Get!Data(s, pos[s])} /\ UNCHANGED <<up, pos>>
      BY <2>4 DEF Get!SendAgain
    <3>2. GetTypes'  BY <2>0, <3>1 DEF GetTypes
    <3>3. GetSent'  BY <1>0, <2>0, <3>1 DEF GetSent
    <3> QED  BY <2>1, <3>2, <3>3
  <2> QED  BY <1>4, <2>2, <2>3, <2>4 DEF Get!Serving, Get!Server
<1>5. CASE UNCHANGED Get!vars
  BY <1>5, GetLess DEF Get!vars, Get!file, Get!net, Get!state
<1> QED  BY <1>1, <1>2, <1>3, <1>4, <1>5 DEF Get!Next

-----------------------------------------------------------------------------
(* download. *)

LEMMA DownloadInit == InitTransfer /\ program = "download" => DownloadInv
<1> SUFFICES ASSUME InitTransfer, program = "download" PROVE DownloadInv
  OBVIOUS
<1>1. /\ size \in Sizes \ {0} /\ "repeat" \notin faults /\ up = {} /\ down = {}
      /\ pos = [s \in Sessions |-> 0] /\ client = "start" /\ copy = <<>>
  BY DatagramsAssumption DEF InitTransfer, Promised, Get!Init, Get!NetInit, Get!SessionsInit
<1>2. size \in Nat \ {0}  BY <1>1, DatagramsAssumption
<1>3. DownloadTypes /\ OneDatagram
  BY <1>1 DEF DownloadTypes, OneDatagram
<1>4. Beginning /\ Untouched  BY <1>1, <1>2 DEF Beginning, Untouched
<1> QED  BY <1>1, <1>3, <1>4 DEF DownloadInv

\* Nothing is delivered twice.
LEMMA DeliveredOnce ==
  ASSUME "repeat" \notin faults, NEW m, NEW E \in Download!Delivered({m}, m)
  PROVE  E = {}
BY DEF Download!Delivered

LEMMA DownloadStep == DownloadInv /\ [Download!Next]_Download!vars => DownloadInv'
<1> SUFFICES ASSUME DownloadInv, [Download!Next]_Download!vars PROVE DownloadInv'
  OBVIOUS
<1> USE DatagramsAssumption DEF DownloadInv
<1>0. /\ size \in Nat \ {0} /\ Len(copy) \in Nat /\ Len(copy) <= size
      /\ pos \in [Sessions -> Nat] /\ "repeat" \notin faults
      /\ (copy = <<>> <=> Len(copy) = 0)
  BY EmptySeq DEF DownloadTypes, Beginning
<1>1. CASE Download!Request
  <2>1. /\ client = "start" /\ client' = "recv" /\ up' = up \cup {Download!RRQ}
        /\ UNCHANGED <<size, faults, down, pos, copy>>
    BY <1>1 DEF Download!Request, Download!file
  <2> QED  BY <1>0, <2>1 DEF DownloadTypes, OneDatagram, Untouched, Beginning
<1>2. CASE Download!RecvData
  <2>1. PICK m \in down :
          /\ client = "recv" /\ m.op = "DATA" /\ down' \in Download!Delivered(down, m)
          /\ copy' = Append(copy, m.block)
          /\ up' = up \cup {Download!Ack(m.from, Download!Wire(m.block))}
          /\ client' = IF m.block = size THEN "done" ELSE "recv"
          /\ UNCHANGED <<size, faults, pos>>
    BY <1>2 DEF Download!RecvData, Download!Write, Download!file
  <2>2. PICK s \in Sessions :
          /\ up = {} /\ down = {Download!Data(s, Len(copy) + 1)}
          /\ pos[s] = Len(copy) + 1 /\ Len(copy) < size
    BY <2>1 DEF OneDatagram, Download!Error
  <2>3. m = Download!Data(s, Len(copy) + 1) /\ m.block = Len(copy) + 1 /\ m.from = s
    BY <2>2 DEF Download!Data
  <2>4. Beginning' /\ Len(copy') = Len(copy) + 1
    BY <1>0, <2>1, <2>2, <2>3, Grow
  <2>5. down' = {}  BY <1>0, <2>1, <2>2, <2>3, DeliveredOnce
  <2>6. up' = {Download!Ack(s, Download!Wire(Len(copy')))} /\ pos'[s] = Len(copy')
    BY <2>1, <2>2, <2>3, <2>4
  <2>7. copy' # <<>>  BY <1>0, <2>4
  <2>8. OneDatagram'  BY <2>5, <2>6, <2>7 DEF OneDatagram
  <2> QED  BY <1>0, <2>1, <2>3, <2>4, <2>8 DEF DownloadTypes
<1>3. CASE Download!RecvError
  <2>1. PICK m \in down : /\ m.op = "ERROR" /\ client' = "error" /\ client = "recv"
                          /\ down' \in Download!Delivered(down, m)
                          /\ UNCHANGED <<size, faults, up, pos, copy>>
    BY <1>3 DEF Download!RecvError, Download!file
  <2>2. up = {} /\ down = {m}
    BY <2>1 DEF OneDatagram, Download!Data
  <2>3. down' = {}  BY <1>0, <2>1, <2>2, DeliveredOnce
  <2> QED  BY <2>1, <2>2, <2>3 DEF DownloadTypes, OneDatagram, Untouched, Beginning
<1>4. CASE Download!IoFails
  BY <1>4 DEF Download!IoFails, Download!file, DownloadTypes, OneDatagram, Untouched, Beginning
<1>5. ASSUME NEW s \in Sessions, Download!Serving(s) PROVE DownloadInv'
  <2>0. UNCHANGED <<size, faults, client, copy>>
    BY <1>5 DEF Download!Serving, Download!Server, Download!Serve, Download!GetAck,
                Download!SendAgain, Download!state
  <2>1. Beginning'  BY <2>0 DEF Beginning
  <2>2. CASE Download!Serve(s)
    <3>1. /\ Download!RRQ \in up /\ up' \in Download!Delivered(up, Download!RRQ)
          /\ \/ pos' = [pos EXCEPT ![s] = 1] /\ down' = down \cup {Download!Data(s, 1)}
             \/ pos' = [pos EXCEPT ![s] = size + 1] /\ down' = down \cup {Download!Error(s)}
      BY <2>2 DEF Download!Serve
    <3>2. up = {Download!RRQ} /\ down = {} /\ copy = <<>>
      BY <3>1 DEF OneDatagram, Untouched, Download!RRQ, Download!Ack
    <3>3. up' = {}  BY <1>0, <3>1, <3>2, DeliveredOnce
    <3>4. pos' \in [Sessions -> Nat]  BY <1>0, <3>1
    <3>5. OneDatagram'  BY <1>0, <2>0, <3>1, <3>2, <3>3 DEF OneDatagram
    <3> QED  BY <2>0, <2>1, <3>2, <3>4, <3>5 DEF DownloadTypes
  <2>3. CASE Download!GetAck(s)
    <3>1. PICK m \in up :
            /\ m.op = "ACK" /\ m.to = s /\ up' \in Download!Delivered(up, m)
            /\ IF pos[s] \in 1 .. size /\ m.num = Download!Wire(pos[s])
               THEN /\ pos' = [pos EXCEPT ![s] = pos[s] + 1]
                    /\ down' = IF pos[s] = size THEN down
                               ELSE down \cup {Download!Data(s, pos[s] + 1)}
               ELSE UNCHANGED <<pos, down>>
      BY <2>3 DEF Download!GetAck
    <3>2. PICK s1 \in Sessions : /\ up = {Download!Ack(s1, Download!Wire(Len(copy)))}
                                 /\ pos[s1] = Len(copy) /\ copy # <<>> /\ down = {}
      BY <3>1 DEF OneDatagram, Download!RRQ
    <3>3. s1 = s /\ m.num = Download!Wire(pos[s]) /\ up = {m}
      BY <3>1, <3>2 DEF Download!Ack
    <3>4. up' = {}  BY <1>0, <3>1, <3>3, DeliveredOnce
    <3>5. /\ pos' = [pos EXCEPT ![s] = Len(copy) + 1]
          /\ \/ down' = {}
             \/ down' = {Download!Data(s, Len(copy) + 1)} /\ Len(copy) < size
      BY <1>0, <3>1, <3>2, <3>3
    <3> QED  BY <1>0, <2>0, <2>1, <3>2, <3>4, <3>5 DEF DownloadTypes, OneDatagram
  <2>4. ~Download!SendAgain(s)  BY <1>0 DEF Download!SendAgain
  <2> QED  BY <1>5, <2>2, <2>3, <2>4 DEF Download!Serving, Download!Server
<1>6. CASE Download!Losing
  <2>1. /\ UNCHANGED <<size, faults, client, copy, pos>>
        /\ \/ \E m \in up : up' = up \ {m} /\ UNCHANGED down
           \/ \E m \in down : down' = down \ {m} /\ UNCHANGED up
    BY <1>6 DEF Download!Losing, Download!Lose, Download!state
  <2>2. up' = {} /\ down' = {}
    BY <2>1 DEF OneDatagram
  <2> QED  BY <2>1, <2>2 DEF DownloadTypes, OneDatagram, Untouched, Beginning
<1>7. CASE UNCHANGED Download!vars
  BY <1>7 DEF Download!vars, Download!file, Download!state, DownloadTypes, OneDatagram, Untouched, Beginning
<1> QED  BY <1>1, <1>2, <1>3, <1>4, <1>5, <1>6, <1>7 DEF Download!Next

-----------------------------------------------------------------------------
(* upload. *)

LEMMA UploadInit == InitTransfer /\ program = "upload" => UploadInv
<1> SUFFICES ASSUME InitTransfer, program = "upload" PROVE UploadInv
  OBVIOUS
<1>1. /\ size \in Sizes /\ short \in BOOLEAN /\ up = {} /\ down = {} /\ block = 0
      /\ client = "start" /\ copy = <<>> /\ server = "idle"
      /\ "repeat" \in faults => size < Wrap
  BY DEF InitTransfer, Promised, Get!Init, Get!NetInit
<1>2. size \in Nat  BY <1>1, DatagramsAssumption
<1>3. UploadTypes /\ UploadSent /\ UploadOne
  BY <1>1, <1>2 DEF UploadTypes, UploadSent, UploadOne
<1>4. UploadCopy  BY <1>1, <1>2 DEF UploadCopy, Beginning
<1> QED  BY <1>3, <1>4 DEF UploadInv

LEMMA UploadDelivered ==
  ASSUME NEW D, NEW m, NEW E \in Upload!Delivered(D, m)
  PROVE  E \subseteq D /\ ("repeat" \notin faults => E = D \ {m})
BY DEF Upload!Delivered

\* The messages are told apart by their kind and number.
LEMMA UploadMessages ==
  /\ \A j, k : /\ Upload!Data(k) # Upload!WRQ
               /\ Upload!Data(j) = Upload!Data(k) => j = k
               /\ Upload!Ack(j) # Upload!Error
               /\ Upload!Ack(j) = Upload!Ack(k) => j = k
  /\ \A k : Upload!Data(k).op = "DATA" /\ Upload!Data(k).block = k
  /\ \A k : Upload!Ack(k).op = "ACK" /\ Upload!Ack(k).num = k
  /\ Upload!WRQ.op = "WRQ" /\ Upload!Error.op = "ERROR"
<1>1. \A k : /\ Upload!Data(k).op = "DATA" /\ Upload!Data(k).block = k
             /\ Upload!Ack(k).op = "ACK" /\ Upload!Ack(k).num = k
  BY DEF Upload!Data, Upload!Ack
<1>2. Upload!WRQ.op = "WRQ" /\ Upload!Error.op = "ERROR"
  BY DEF Upload!WRQ, Upload!Error
<1> QED  BY <1>1, <1>2

\* Datagrams less, and a client that has gone at most.
LEMMA UploadLess ==
  ASSUME UploadInv, up' \subseteq up, down' \subseteq down,
         UNCHANGED <<size, faults, short, block, server, copy>>,
         client' = client \/ client' \in {"quit", "exit"}
  PROVE  UploadInv'
<1> USE DEF UploadInv
<1>1. UploadTypes' /\ UploadSent' /\ UploadCopy'
  BY DEF UploadTypes, UploadSent, UploadCopy, Beginning
<1>2. UploadOne'
  BY DEF UploadOne, OpenFor
<1> QED  BY <1>1, <1>2

\* What the server stores is the next block of the file.
LEMMA StoresNext ==
  ASSUME UploadInv, NEW m \in up, m.op = "DATA",
         Upload!Wire(m.block) = Upload!Wire(Len(copy) + 1)
  PROVE  m = Upload!Data(Len(copy) + 1) /\ m.block = Len(copy) + 1 /\ Len(copy) < block
<1> USE DatagramsAssumption, UploadMessages DEF UploadInv
<1>0. /\ size \in Nat /\ Len(copy) \in Nat /\ block \in 0 .. size
      /\ Len(copy) <= block /\ block <= Len(copy) + 1
  BY DEF UploadTypes, UploadCopy, Beginning
<1>1. PICK k \in 1 .. block : m = Upload!Data(k)
  BY DEF UploadSent
<1>2. CASE "repeat" \notin faults
  <2>1. k = block /\ Len(copy) = block - 1  BY <1>1, <1>2 DEF UploadOne
  <2> QED  BY <1>0, <1>1, <2>1
<1>3. CASE "repeat" \in faults
  <2>1. k \in 1 .. Wrap - 1 /\ Len(copy) + 1 \in 1 .. Wrap
    BY <1>0, <1>1, <1>3 DEF UploadTypes
  <2>2. Upload!Wire(k) = k  BY <2>1, WireSmall
  <2>3. Len(copy) + 1 # Wrap
    BY <1>1, <2>1, <2>2, WireWrap
  <2>4. Upload!Wire(Len(copy) + 1) = Len(copy) + 1  BY <2>1, <2>3, WireSmall
  <2> QED  BY <1>0, <1>1, <2>2, <2>4
<1> QED  BY <1>2, <1>3

LEMMA UploadStep == UploadInv /\ [Upload!Next]_Upload!vars => UploadInv'
<1> SUFFICES ASSUME UploadInv, [Upload!Next]_Upload!vars PROVE UploadInv'
  OBVIOUS
<1> USE DatagramsAssumption, UploadMessages DEF UploadInv, Upload!file, Upload!srv, Upload!cli, Upload!net
<1>0. /\ size \in Nat /\ Len(copy) \in Nat /\ block \in 0 .. size
      /\ Len(copy) <= block /\ block <= Len(copy) + 1 /\ copy \in Seq(Nat)
      /\ (copy = <<>> <=> Len(copy) = 0)
  BY EmptySeq DEF UploadTypes, UploadCopy, Beginning
<1>1. CASE Upload!Request
  <2>1. /\ client = "start" /\ client' = "first" /\ up' = up \cup {Upload!WRQ}
        /\ UNCHANGED <<size, faults, short, down, block, server, copy>>
    BY <1>1 DEF Upload!Request
  <2>2. block = 0  BY <2>1 DEF UploadCopy
  <2>3. UploadTypes' /\ UploadSent' /\ UploadCopy'
    BY <2>1, <2>2 DEF UploadTypes, UploadSent, UploadCopy, Beginning
  <2>4. UploadOne'  BY <2>1, <2>2 DEF UploadOne, OpenFor
  <2> QED  BY <2>3, <2>4
<1>2. CASE Upload!FirstAck
  <2>1. PICK m \in down :
          /\ client = "first"
          /\ client' = IF m.op = "ACK" /\ m.num = 0 THEN "send" ELSE "exit"
          /\ down' \in Upload!Delivered(down, m)
          /\ UNCHANGED <<size, faults, short, up, block, server, copy>>
    BY <1>2 DEF Upload!FirstAck
  <2>2. down' \subseteq down /\ ("repeat" \notin faults => down' = down \ {m})
    BY <2>1, UploadDelivered
  <2>3. CASE client' = "exit"
    BY <2>1, <2>2, <2>3, UploadLess
  <2>4. CASE client' = "send"
    <3>1. block = 0 /\ Len(copy) = 0  BY <1>0, <2>1 DEF UploadCopy
    <3>2. UploadTypes' /\ UploadSent' /\ UploadCopy'
      BY <1>0, <2>1, <2>2, <2>4, <3>1 DEF UploadTypes, UploadSent, UploadCopy, Beginning
    <3>3. "repeat" \notin faults => up = {} /\ down' = {}
      BY <2>1, <2>2 DEF UploadOne
    <3>4. UploadOne'  BY <2>1, <2>4, <3>3 DEF UploadOne, OpenFor
    <3> QED  BY <3>2, <3>4
  <2> QED  BY <2>1, <2>3, <2>4
<1>3. CASE Upload!SendBlock
  <2>1. /\ client = "send" /\ block < size /\ block' = block + 1 /\ client' = "ack"
        /\ up' = up \cup {Upload!Data(block + 1)}
        /\ UNCHANGED <<size, faults, short, down, server, copy>>
    BY <1>3 DEF Upload!SendBlock
  <2>2. Len(copy) = block  BY <2>1 DEF UploadCopy
  <2>3. UploadTypes'  BY <1>0, <2>1 DEF UploadTypes
  <2>4. UploadSent'  BY <1>0, <2>1 DEF UploadSent
  <2>5. UploadCopy'  BY <1>0, <2>1, <2>2 DEF UploadCopy, Beginning
  <2>6. "repeat" \notin faults => up = {} /\ down = {} /\ server = "open"
    BY <2>1 DEF UploadOne, OpenFor
  <2>7. UploadOne'  BY <1>0, <2>1, <2>2, <2>6 DEF UploadOne, OpenFor
  <2> QED  BY <2>3, <2>4, <2>5, <2>7
<1>4. CASE Upload!EndOfFile
  <2>1. /\ client = "send" /\ block = size /\ client' = "done"
        /\ UNCHANGED <<size, faults, short, up, down, block, server, copy>>
    BY <1>4 DEF Upload!EndOfFile
  <2>2. UploadTypes' /\ UploadSent' /\ UploadCopy'
    BY <2>1 DEF UploadTypes, UploadSent, UploadCopy, Beginning
  <2>3. UploadOne'  BY <2>1 DEF UploadOne, OpenFor
  <2> QED  BY <2>2, <2>3
<1>5. CASE Upload!GetAck
  <2>1. PICK m \in down :
          /\ client = "ack"
          /\ client' = IF m.op = "ACK" /\ m.num = Upload!Wire(block) THEN "send" ELSE "quit"
          /\ down' \in Upload!Delivered(down, m)
          /\ UNCHANGED <<size, faults, short, up, block, server, copy>>
    BY <1>5 DEF Upload!GetAck
  <2>2. down' \subseteq down /\ ("repeat" \notin faults => down' = down \ {m})
    BY <2>1, UploadDelivered
  <2>3. CASE client' = "quit"
    BY <2>1, <2>2, <2>3, UploadLess
  <2>4. CASE m.op = "ACK" /\ m.num = Upload!Wire(block) /\ client' = "send"
    <3>1. Len(copy) = block
      <4>1. CASE "repeat" \notin faults
        BY <2>1, <2>4, <4>1 DEF UploadOne
      <4>2. CASE "repeat" \in faults
        <5>1. PICK k \in 0 .. Len(copy) : m = Upload!Ack(Upload!Wire(k))
          BY <2>1, <2>4 DEF UploadSent
        <5>2. k \in 0 .. Wrap - 1 /\ block \in 0 .. Wrap - 1
          BY <1>0, <4>2 DEF UploadTypes
        <5>3. k = block  BY <2>4, <5>1, <5>2, WireSmall
        <5> QED  BY <1>0, <5>3
      <4> QED  BY <4>1, <4>2
    <3>2. UploadTypes' /\ UploadSent' /\ UploadCopy'
      BY <1>0, <2>1, <2>2, <2>4, <3>1 DEF UploadTypes, UploadSent, UploadCopy, Beginning
    <3>3. "repeat" \notin faults => up = {} /\ down' = {}
      BY <2>1, <2>2 DEF UploadOne
    <3>4. UploadOne'  BY <2>1, <2>4, <3>3 DEF UploadOne, OpenFor
    <3> QED  BY <3>2, <3>4
  <2> QED  BY <2>1, <2>3, <2>4
<1>6. CASE Upload!IoFails \/ Upload!Losing \/ UNCHANGED Upload!vars
  BY <1>6, UploadLess DEF Upload!IoFails, Upload!Losing, Upload!Lose, Upload!vars
<1>7. CASE Upload!Open
  <2>1. /\ server = "idle" /\ Upload!WRQ \in up /\ up' \in Upload!Delivered(up, Upload!WRQ)
        /\ \/ server' = "open" /\ down' = down \cup {Upload!Ack(0)}
           \/ server' = "closed" /\ down' = down \cup {Upload!Error}
        /\ UNCHANGED <<size, faults, short, client, block, copy>>
    BY <1>7 DEF Upload!Open
  <2>2. up' \subseteq up /\ ("repeat" \notin faults => up' = up \ {Upload!WRQ})
    BY <2>1, UploadDelivered
  <2>3. Upload!Wire(0) = 0  BY WireSmall
  <2>4. UploadTypes'  BY <2>1 DEF UploadTypes
  <2>5. UploadSent'  BY <1>0, <2>1, <2>2, <2>3 DEF UploadSent
  <2>6. UploadCopy'
    <3>1. Beginning'  BY <2>1 DEF UploadCopy, Beginning
    <3>2. ~(short /\ size > 0 /\ Len(copy) = size)
      BY <2>1 DEF UploadCopy
    <3> QED  BY <2>1, <3>1, <3>2 DEF UploadCopy
  <2>7. UploadOne'
    <3> SUFFICES ASSUME "repeat" \notin faults PROVE UploadOne'
      BY <2>1 DEF UploadOne
    <3>1. up = {Upload!WRQ} /\ down = {} /\ block = 0 /\ client \notin {"start", "send"}
      BY <2>1 DEF UploadOne, OpenFor
    <3>2. up' = {} /\ Len(copy) = 0  BY <1>0, <2>2, <3>1
    <3> QED  BY <2>1, <3>1, <3>2 DEF UploadOne, OpenFor
  <2> QED  BY <2>4, <2>5, <2>6, <2>7
<1>8. CASE Upload!Store
  <2>1. PICK m \in up :
          /\ m.op = "DATA" /\ server = "open"
          /\ Upload!Wire(m.block) = Upload!Wire(Len(copy) + 1)
          /\ up' \in Upload!Delivered(up, m)
          /\ down' = down \cup {Upload!Ack(Upload!Wire(m.block))}
          /\ copy' = Append(copy, m.block)
          /\ server' = IF Upload!Short(m.block) THEN "closed" ELSE "open"
          /\ UNCHANGED <<size, faults, short, client, block>>
    BY <1>8 DEF Upload!Store
  <2>2. m = Upload!Data(Len(copy) + 1) /\ m.block = Len(copy) + 1 /\ Len(copy) < block
    BY <2>1, StoresNext
  <2>3. Beginning' /\ Len(copy') = Len(copy) + 1
    BY <1>0, <2>1, <2>2, Grow DEF UploadCopy
  <2>4. up' \subseteq up /\ ("repeat" \notin faults => up' = up \ {m})
    BY <2>1, UploadDelivered
  <2>5. UploadTypes'  BY <2>1 DEF UploadTypes
  <2>6. UploadSent'
    <3>1. \A m1 \in up' : m1 = Upload!WRQ \/ \E k \in 1 .. block' : m1 = Upload!Data(k)
      BY <2>1, <2>4 DEF UploadSent
    <3>2. \A m1 \in down' : \/ m1 = Upload!Error
                            \/ \E k \in 0 .. Len(copy') : m1 = Upload!Ack(Upload!Wire(k))
      <4>1. Len(copy) + 1 \in 0 .. Len(copy')  BY <1>0, <2>3
      <4>2. 0 .. Len(copy) \subseteq 0 .. Len(copy')  BY <1>0, <2>3
      <4> QED  BY <2>1, <2>2, <4>1, <4>2 DEF UploadSent
    <3> QED  BY <3>1, <3>2 DEF UploadSent
  <2>7. UploadCopy'
    <3>1. client \notin {"start", "first", "send", "done"}
      BY <1>0, <2>2 DEF UploadCopy
    <3>2. short /\ Len(copy') = size => server' = "closed"
      BY <2>1, <2>2, <2>3 DEF Upload!Short
    <3> QED  BY <1>0, <2>1, <2>2, <2>3, <3>1, <3>2 DEF UploadCopy
  <2>8. UploadOne'
    <3> SUFFICES ASSUME "repeat" \notin faults PROVE UploadOne'
      BY <2>1 DEF UploadOne
    <3>1. up = {m} /\ down = {} /\ Len(copy) = block - 1 /\ client \notin {"start", "send"}
      BY <1>0, <2>1, <2>2 DEF UploadOne, OpenFor, UploadCopy
    <3>2. up' = {} /\ down' = {Upload!Ack(Upload!Wire(m.block))} /\ Len(copy') = block'
      BY <1>0, <2>1, <2>3, <2>4, <3>1
    <3>3. OpenFor'
      BY <1>0, <2>1, <2>2, <3>1 DEF OpenFor, Upload!Short
    <3> QED  BY <2>1, <3>1, <3>2, <3>3 DEF UploadOne
  <2> QED  BY <2>5, <2>6, <2>7, <2>8
<1>9. CASE Upload!Discard
  <2>1. PICK m \in up :
          /\ m.op = "DATA"
          /\ ~(server = "open" /\ Upload!Wire(m.block) = Upload!Wire(Len(copy) + 1))
          /\ up' \in Upload!Delivered(up, m)
          /\ down' = IF Upload!Wire(m.block) = Upload!Wire(Len(copy))
                     THEN down \cup {Upload!Ack(Upload!Wire(m.block))} ELSE down
          /\ UNCHANGED <<size, faults, short, client, block, server, copy>>
    BY <1>9 DEF Upload!Discard
  <2>2. PICK k \in 1 .. block : m = Upload!Data(k)
    BY <2>1 DEF UploadSent
  <2>3. "repeat" \in faults
    <3> SUFFICES ASSUME "repeat" \notin faults PROVE FALSE
      OBVIOUS
    <3>1. k = block /\ Len(copy) = block - 1 /\ server = "open"
      BY <2>2 DEF UploadOne
    <3>2. Len(copy) + 1 = m.block  BY <1>0, <2>2, <3>1
    <3> QED  BY <2>1, <3>1, <3>2
  <2>4. up' \subseteq up  BY <2>1, UploadDelivered
  <2>5. UploadTypes' /\ UploadCopy'  BY <2>1 DEF UploadTypes, UploadCopy, Beginning
  <2>6. UploadOne'  BY <2>1, <2>3 DEF UploadOne, OpenFor
  <2>7. UploadSent'
    <3>1. Len(copy) \in 0 .. Len(copy)  BY <1>0
    <3> QED  BY <2>1, <2>4, <3>1 DEF UploadSent
  <2> QED  BY <2>5, <2>6, <2>7
<1>10. CASE Upload!AckAgain
  <2>1. /\ "repeat" \in faults /\ down' = down \cup {Upload!Ack(Upload!Wire(Len(copy)))}
        /\ UNCHANGED <<size, faults, short, up, client, block, server, copy>>
    BY <1>10 DEF Upload!AckAgain
  <2>2. UploadTypes' /\ UploadCopy' /\ UploadOne'
    BY <2>1 DEF UploadTypes, UploadCopy, Beginning, UploadOne
  <2>3. UploadSent'
    <3>1. Len(copy) \in 0 .. Len(copy)  BY <1>0
    <3> QED  BY <2>1, <3>1 DEF UploadSent
  <2> QED  BY <2>2, <2>3
<1> QED  BY <1>1, <1>2, <1>3, <1>4, <1>5, <1>6, <1>7, <1>8, <1>9, <1>10
         DEF Upload!Next, Upload!Client

-----------------------------------------------------------------------------
(* All together. *)

LEMMA InitInv == Init => Inv
<1> SUFFICES ASSUME Init PROVE Inv
  OBVIOUS
<1>1. CASE InitTransfer
  BY <1>1, GetInit, DownloadInit, UploadInit DEF Inv, InitTransfer
<1>2. CASE program = "menu" /\ Menu!Init
  BY <1>2, MenuInit DEF Inv
<1> QED  BY <1>1, <1>2 DEF Init

\* A step is one of the program that was chosen.
LEMMA OneProgram ==
  ASSUME [Next]_vars
  PROVE  /\ UNCHANGED program
         /\ \/ program = "get" /\ [Get!Next]_Get!vars
            \/ program = "download" /\ [Download!Next]_Download!vars
            \/ program = "upload" /\ [Upload!Next]_Upload!vars
            \/ program = "menu" /\ [Menu!Next]_Menu!vars
            \/ UNCHANGED vars
<1>1. CASE Gets(Get!Next)
  BY <1>1 DEF Gets
<1>2. CASE Downloads(Download!Next)
  BY <1>2 DEF Downloads
<1>3. CASE Uploads(Upload!Next)
  BY <1>3 DEF Uploads
<1>4. CASE Menus(Menu!Next)
  BY <1>4 DEF Menus
<1>5. CASE UNCHANGED vars
  BY <1>5 DEF vars
<1> QED  BY <1>1, <1>2, <1>3, <1>4, <1>5 DEF Next

LEMMA Stutter ==
  ASSUME UNCHANGED vars
  PROVE  /\ UNCHANGED Get!vars /\ UNCHANGED Download!vars
         /\ UNCHANGED Upload!vars /\ UNCHANGED Menu!vars
BY DEF vars, putVars, menuVars, Get!vars, Get!file, Get!net, Get!state,
       Download!vars, Download!file, Download!state,
       Upload!vars, Upload!file, Upload!net, Upload!cli, Upload!srv,
       Menu!vars, Menu!file, Menu!here, Menu!there

LEMMA InvStep == Inv /\ [Next]_vars => Inv'
<1> SUFFICES ASSUME Inv, [Next]_vars PROVE Inv'
  OBVIOUS
<1>1. UNCHANGED program /\ program \in {"get", "download", "upload", "menu"}
  BY OneProgram DEF Inv
<1>2. CASE program = "get"
  BY <1>1, <1>2, OneProgram, Stutter, GetStep DEF Inv
<1>3. CASE program = "download"
  BY <1>1, <1>3, OneProgram, Stutter, DownloadStep DEF Inv
<1>4. CASE program = "upload"
  BY <1>1, <1>4, OneProgram, Stutter, UploadStep DEF Inv
<1>5. CASE program = "menu"
  BY <1>1, <1>5, OneProgram, Stutter, MenuStep DEF Inv
<1> QED  BY <1>1, <1>2, <1>3, <1>4, <1>5

\* What is under way fits the copy, in every reachable state of each program.
THEOREM Invariant == Spec => []Inv
<1>1. Init => Inv  BY InitInv
<1>2. Inv /\ [Next]_vars => Inv'  BY InvStep
<1> QED  BY <1>1, <1>2, PTL DEF Spec

\* tftp.c:68-101: num stays below the number of block numbers and the copy is of
\* blocks of the file.
THEOREM TypesAlways == Spec => []TypeOK
<1>1. Inv => TypeOK
  <2> SUFFICES ASSUME GetInv, program = "get" PROVE Get!TypeOK
    BY DEF Inv, TypeOK
  <2>1. copy \in Seq(1 .. size)
    <3>1. copy \in Seq(Nat) /\ size \in Nat
      BY DatagramsAssumption DEF GetInv, GetTypes, GetCopy, Beginning
    <3>2. \A k \in 1 .. Len(copy) : copy[k] \in 1 .. size
      BY <3>1 DEF GetInv, GetCopy, Beginning
    <3> QED  BY <3>1, <3>2, SeqDef
  <2> QED  BY <2>1 DEF GetInv, GetTypes, Get!TypeOK
<1> QED  BY <1>1, Invariant, PTL

\* newtftp/tftp.c:211-256: the server has closed its copy of a file with a short last
\* block when the upload is reported as successful.
THEOREM ClosedAlways == Spec => []ServerClosed
<1>1. Inv => ServerClosed
  BY DEF Inv, UploadInv, UploadCopy, ServerClosed
<1> QED  BY <1>1, Invariant, PTL

\* tftp(6757).c:66-78, 159-176, 248-282: what the menu reports is the whole file, although
\* all transfers share a socket, as long as each one before was refused, or reported, an
\* upload with a last block that is short.
THEOREM ReportedAlways == Spec => []ReportedWhole
<1>1. Inv => ReportedWhole
  BY DEF Inv, MenuInv, Orderly, Blocks, ReportedWhole, Menu!ReportedWhole
<1> QED  BY <1>1, Invariant, PTL

\* What the abstract specification asks of a step.
LEMMA BlockByBlock ==
  ASSUME Beginning, Beginning', size \in Nat, UNCHANGED size,
         \/ copy' = copy
         \/ \E b : copy' = Append(copy, b)
  PROVE  \/ copy' = copy
         \/ Len(copy) < size /\ copy' = Append(copy, Copy!File[Len(copy) + 1])
<1> SUFFICES ASSUME NEW b, copy' = Append(copy, b)
             PROVE  Len(copy) < size /\ copy' = Append(copy, Copy!File[Len(copy) + 1])
  OBVIOUS
<1>1. copy \in Seq(Nat) /\ copy' \in Seq(Nat) /\ Len(copy) \in Nat
  BY DEF Beginning
<1>2. Len(copy') = Len(copy) + 1 /\ copy'[Len(copy) + 1] = b
  BY <1>1
<1>3. b = Len(copy) + 1 /\ Len(copy) < size
  BY <1>1, <1>2 DEF Beginning
<1> QED  BY <1>1, <1>3 DEF Copy!File

LEMMA WholeFile ==
  ASSUME NEW n \in Nat, NEW c \in Seq(Nat), Len(c) = n, \A k \in 1 .. n : c[k] = k
  PROVE  c = [i \in 1 .. n |-> i]
<1>1. [i \in 1 .. n |-> i] \in Seq(Nat) /\ Len([i \in 1 .. n |-> i]) = n
  OBVIOUS
<1> QED  BY <1>1, SeqEqual

\* Each step of a transfer leaves the file alone and adds a block to the copy at most,
\* and none follows success.
LEMMA TransferSteps ==
  ASSUME Inv, [Next]_vars, program # "menu"
  PROVE  /\ UNCHANGED size /\ size \in Nat /\ Beginning
         /\ client = "done" => client' = "done" /\ Len(copy) = size
         /\ copy' = copy \/ \E b : copy' = Append(copy, b)
<1> USE DatagramsAssumption
<1>1. /\ size \in Nat /\ Beginning
      /\ client = "done" => Len(copy) = size
  BY DEF Inv, GetInv, GetTypes, GetCopy, DownloadInv, DownloadTypes, UploadInv, UploadTypes,
         UploadCopy
<1>2. CASE UNCHANGED vars
  BY <1>1, <1>2 DEF vars
<1>3. CASE program = "get" /\ [Get!Next]_Get!vars
  <2>1. UNCHANGED size /\ (client = "done" => client' = "done")
        /\ (copy' = copy \/ \E b : copy' = Append(copy, b))
    <3> USE DEF Get!file, Get!net, Get!state
    <3>1. CASE Get!RecvData
      BY <3>1 DEF Get!RecvData
    <3>2. CASE Get!Request \/ Get!RecvOther \/ Get!RecvError \/ Get!IoFails
               \/ Get!Losing \/ UNCHANGED Get!vars
      BY <3>2 DEF Get!Request, Get!RecvOther, Get!RecvError, Get!IoFails, Get!Losing,
         Get!Lose, Get!vars
    <3>3. CASE \E s \in Sessions : Get!Serving(s)
      BY <3>3 DEF Get!Serving, Get!Server, Get!Serve, Get!GetAck, Get!SendAgain
    <3> QED  BY <1>3, <3>1, <3>2, <3>3 DEF Get!Next
  <2> QED  BY <1>1, <2>1
<1>4. CASE program = "download" /\ [Download!Next]_Download!vars
  <2>1. UNCHANGED size /\ (client = "done" => client' = "done")
        /\ (copy' = copy \/ \E b : copy' = Append(copy, b))
    <3> USE DEF Download!file, Download!state
    <3>1. CASE Download!RecvData
      BY <3>1 DEF Download!RecvData, Download!Write
    <3>2. CASE Download!Request \/ Download!RecvError \/ Download!IoFails
               \/ Download!Losing \/ UNCHANGED Download!vars
      BY <3>2 DEF Download!Request, Download!RecvError, Download!IoFails, Download!Losing,
         Download!Lose, Download!vars
    <3>3. CASE \E s \in Sessions : Download!Serving(s)
      BY <3>3 DEF Download!Serving, Download!Server, Download!Serve, Download!GetAck,
         Download!SendAgain
    <3> QED  BY <1>4, <3>1, <3>2, <3>3 DEF Download!Next
  <2> QED  BY <1>1, <2>1
<1>5. CASE program = "upload" /\ [Upload!Next]_Upload!vars
  <2>1. UNCHANGED size /\ (client = "done" => client' = "done")
        /\ (copy' = copy \/ \E b : copy' = Append(copy, b))
    <3> USE DEF Upload!file, Upload!net, Upload!cli, Upload!srv
    <3>1. CASE Upload!Client \/ Upload!IoFails
      BY <3>1 DEF Upload!Client, Upload!Request, Upload!FirstAck, Upload!SendBlock,
         Upload!EndOfFile, Upload!GetAck, Upload!IoFails
    <3>2. CASE Upload!Open \/ Upload!Discard \/ Upload!AckAgain \/ Upload!Losing
               \/ UNCHANGED Upload!vars
      BY <3>2 DEF Upload!Open, Upload!Discard, Upload!AckAgain, Upload!Losing, Upload!Lose,
         Upload!vars
    <3>3. CASE Upload!Store
      BY <3>3 DEF Upload!Store
    <3> QED  BY <1>5, <3>1, <3>2, <3>3 DEF Upload!Next
  <2> QED  BY <1>1, <2>1
<1> QED  BY <1>2, <1>3, <1>4, <1>5, OneProgram

\* The menu has files of its own; it never reports success in this way.
LEMMA MenuSteps ==
  ASSUME Inv, [Next]_vars, program = "menu"
  PROVE  UNCHANGED size /\ client # "done" /\ client' # "done"
<1>1. Inv' /\ UNCHANGED program  BY InvStep, OneProgram
<1>2. client # "done" /\ client' # "done"
  BY <1>1 DEF Inv, MenuInv, MenuTypes
<1>3. UNCHANGED size
  <2>1. CASE UNCHANGED vars
    BY <2>1 DEF vars
  <2>2. CASE [Menu!Next]_Menu!vars
    <3> USE DEF Menu!file
    <3>1. CASE Menu!Choose \/ Menu!Quit \/ Menu!GiveUp \/ Menu!Download \/ Menu!RecvAck
      BY <3>1 DEF Menu!Choose, Menu!Quit, Menu!GiveUp, Menu!Download, Menu!RecvData,
         Menu!Keep, Menu!RecvError, Menu!RecvAck
    <3>2. CASE Menu!Upload
      BY <3>2 DEF Menu!Upload, Menu!FirstAck, Menu!Open, Menu!SendBlock, Menu!EndOfFile,
         Menu!GetAck
    <3>3. CASE \E s \in Menu!Turns : Menu!Session(s)
      BY <3>3 DEF Menu!Session, Menu!Answer, Menu!Hear, Menu!Repeat
    <3>4. CASE UNCHANGED Menu!vars
      BY <3>4 DEF Menu!vars
    <3> QED  BY <2>2, <3>1, <3>2, <3>3, <3>4 DEF Menu!Next
  <2> QED  BY <2>1, <2>2, OneProgram
<1> QED  BY <1>2, <1>3

LEMMA CopyStep ==
  Inv /\ [Next]_vars
     => [Copy!CNext]_<<size, IF program = "menu" THEN <<>> ELSE copy, client = "done">>
<1> SUFFICES ASSUME Inv, [Next]_vars
             PROVE [Copy!CNext]_<<size, IF program = "menu" THEN <<>> ELSE copy, client = "done">>
  OBVIOUS
<1>1. Inv' /\ UNCHANGED program  BY InvStep, OneProgram
<1>2. CASE program = "menu"
  BY <1>1, <1>2, MenuSteps
<1>3. CASE program # "menu"
  <2>1. /\ UNCHANGED size /\ size \in Nat /\ Beginning /\ Beginning'
        /\ client = "done" => client' = "done" /\ Len(copy) = size
        /\ client' = "done" => Len(copy') = size'
        /\ copy' = copy \/ \E b : copy' = Append(copy, b)
    BY <1>1, <1>3, TransferSteps
    DEF Inv, GetInv, GetCopy, DownloadInv, UploadInv, UploadCopy
  <2>2. \/ copy' = copy
        \/ Len(copy) < size /\ copy' = Append(copy, Copy!File[Len(copy) + 1])
    BY <2>1, BlockByBlock
  <2>3. CASE client = "done"
    <3>1. copy' = copy  BY <2>1, <2>2, <2>3
    <3> QED  BY <1>1, <2>1, <2>3, <3>1
  <2>4. CASE client # "done"
    <3>1. client' = "done" => copy' = Copy!File'
      BY <2>1, WholeFile DEF Beginning, Copy!File
    <3>2. Copy!File' = Copy!File  BY <2>1 DEF Copy!File
    <3>3. Copy!CNext
      BY <1>1, <1>3, <2>1, <2>2, <2>4, <3>1, <3>2 DEF Copy!CNext
    <3> QED  BY <3>3
  <2> QED  BY <2>3, <2>4
<1> QED  BY <1>2, <1>3

\* tftp.c:68-101, newtftp/tftp.c:132-156 and 211-256: each transfer implements FileCopy,
\* block by block and with success for the whole file only.
THEOREM CopiesAlways == Spec => Copies
<1>1. Init => Copy!CInit
  BY DEF Init, InitTransfer, Get!Init, Menu!Init, Copy!CInit
<1>2. Inv /\ [Next]_vars
        => [Copy!CNext]_<<size, IF program = "menu" THEN <<>> ELSE copy, client = "done">>
  BY CopyStep
<1> QED  BY <1>1, <1>2, Invariant, PTL DEF Spec, Copies
=============================================================================
