------------------------ MODULE SelectVersions_proofs ------------------------
(***************************************************************************)
(* What the select servers ask select for, for every finite set of         *)
(* connections: between two rounds of main the set fds has the numbers of  *)
(* the open connections, and a connection has a number of its own.         *)
(***************************************************************************)
EXTENDS SelectVersions, FiniteSetTheorems, WellFoundedInduction, TLAPS

Numbers == {k \in Nat : k > Listen}
Types == /\ link \in [Conns -> {"away", "queued", "up", "left", "reset", "aborted", "closed"}]
         /\ num \in [Conns -> {0} \cup Numbers]

Own == \A c, d \in Open : num[c] = num[d] => c = d
Early == {"away", "queued"}
Unnumbered == \A c \in Conns : link[c] \in Early => num[c] = 0

Inv ==
  /\ Types /\ Own /\ Unnumbered
  /\ fds = Opened
  /\ mpc = "handle" => at \in Opened

-----------------------------------------------------------------------------
LEMMA LeastOfNumbers == ASSUME NEW S \in SUBSET Nat, S # {} PROVE Min(S) \in S
<1> DEFINE R == OpToRel(<, Nat)
<1>1. \A x, y \in Nat : <<y, x>> \in R <=> y < x  BY DEF OpToRel
<1>2. IsWellFoundedOn(R, Nat)  BY NatLessThanWellFounded
<1> HIDE DEF R
<1>3. PICK x \in S : \A y \in S : <<y, x>> \notin R  BY <1>2, WFMin
<1>4. ASSUME NEW y \in S PROVE x <= y
  <2>1. x \in Nat /\ y \in Nat  OBVIOUS
  <2>2. ~(y < x)  BY <1>1, <1>3, <2>1, Zenon
  <2> QED  BY <2>1, <2>2
<1> QED  BY <1>4 DEF Min

\* While a connection has no number, one is left for it.
LEMMA FreeIsFree ==
  ASSUME IsFiniteSet(Conns), Types, NEW c \in Conns, num[c] = 0
  PROVE  Free \in Nat \ Opened /\ Free > Listen
<1>1. IsFiniteSet(Open) /\ Cardinality(Open) < Cardinality(Conns)
  <2>1. Open \subseteq Conns \ {c}  BY DEF Open
  <2> QED  BY <2>1, FS_RemoveElement, FS_Subset, FS_CardinalityType
<1>2. IsFiniteSet(Opened) /\ Cardinality(Opened) <= Cardinality(Open)
  <2> DEFINE f == [d \in Open |-> num[d]]
  <2>1. f \in Surjection(Open, Opened)  BY DEF Surjection, Opened
  <2> HIDE DEF f
  <2> QED  BY <1>1, <2>1, FS_Surjection
<1>3. Cardinality(Conns) \in Nat  BY FS_CardinalityType
<1>4. Cardinality(Nums) = Cardinality(Conns) /\ Nums \subseteq Numbers
  <2>1. Nums = 4 .. Cardinality(Conns) + 3  BY <1>3 DEF Nums, Listen
  <2>2. Cardinality(4 .. Cardinality(Conns) + 3) = Cardinality(Conns)
    BY <1>3, FS_Interval
  <2>3. Nums \subseteq Numbers  BY <1>3, <2>1 DEF Numbers, Listen
  <2> QED  BY <2>1, <2>2, <2>3
<1>5. ~(Nums \subseteq Opened)
  <2>1. Cardinality(Open) \in Nat /\ Cardinality(Opened) \in Nat
    BY <1>1, <1>2, FS_CardinalityType
  <2>2. Cardinality(Opened) < Cardinality(Nums)  BY <1>1, <1>2, <1>3, <1>4, <2>1
  <2>3. ASSUME Nums \subseteq Opened PROVE Cardinality(Nums) <= Cardinality(Opened)
    BY <1>2, <2>3, FS_Subset
  <2> QED  BY <1>3, <1>4, <2>1, <2>2, <2>3
<1> QED  BY <1>4, <1>5, LeastOfNumbers DEF Free, Numbers

LEMMA OpenedAreNumbers == Types => Opened \subseteq Numbers
BY DEF Types, Opened, Open

LEMMA WhoIsOpen ==
  ASSUME NEW k \in Opened PROVE Who(k) \in Open /\ num[Who(k)] = k
BY DEF Who, Opened

-----------------------------------------------------------------------------
(* the steps of the server and of its older versions *)

Steps ==
  \/ Scan \/ Select \/ SelectTimesOut \/ Accept \/ AcceptFails \/ Recv \/ Show \/ Close
  \/ Relay
  \/ \E c \in Conns : Connect(c) \/ Write(c) \/ Leave(c)
  \/ \E t \in Threads : Type(t) \/ Tell(t)

LEMMA ArriveIsConnect == \A S \in SUBSET Conns : Arrive(S) => \E c \in Conns : Connect(c)
BY DEF Arrive

LEMMA NextIsSteps == Next => Steps
BY ArriveIsConnect DEF Next, Main, Steps

LEMMA VersionNextIsSteps == Few \subseteq Conns /\ VersionNext => Steps
<1>1. Loop => Scan \/ Select \/ SelectTimesOut \/ Accept \/ Recv \/ Show \/ Close
  BY DEF Loop, Loop8035, Loop4812, Loop4717, Loop4012, Loop2643, Serve, ServeAlone,
         AcceptOnly, Scan8035, Scan4812, Scan4717, Scan4012, Scan2643
<1>2. \A t : Thread(t) => Type(t) \/ Tell(t)
  BY DEF Thread, Thread8035, Thread4812, Thread4717
<1>3. OldRelay => Relay
  BY DEF OldRelay, Relay8035, Relay4812, Relay4717
<1> QED  BY <1>1, <1>2, <1>3, ArriveIsConnect DEF VersionNext, Steps

\* Steps that leave the numbers alone.
LEMMA Quiet ==
  ASSUME Inv, UNCHANGED <<num, fds>>, Types',
         \A c \in Conns : link'[c] \in Early => link[c] \in Early,
         mpc' = "handle" => at' \in Opened
  PROVE  Inv'
BY DEF Inv, Types, Own, Unnumbered, Open, Opened

LEMMA SendIsQuiet ==
  ASSUME Inv, NEW k, Send(k) \/ SendFails(k)
  PROVE  /\ Types' /\ UNCHANGED <<num, fds>>
         /\ \A c \in Conns : link'[c] \in Early => link[c] \in Early
<1>1. k \in Opened => Who(k) \in Conns  BY WhoIsOpen DEF Open
<1>2. ASSUME Send(k) PROVE k \in Opened  BY <1>2 DEF Send, Fails
<1>3. link' = link \/ (k \in Opened /\ link' = [link EXCEPT ![Who(k)] = "reset"])
  BY <1>2 DEF Send, SendFails
<1> QED  BY <1>1, <1>3 DEF Send, SendFails, Inv, Types, Early

LEMMA InitInv == Init => Inv
BY DEF Init, Inv, Types, Own, Unnumbered, Open, Opened

LEMMA StepInv ==
  ASSUME IsFiniteSet(Conns), Inv, Steps \/ UNCHANGED vars
  PROVE  Inv'
<1> USE DEF Types, peers, main, operator
<1>1. CASE Scan  BY <1>1, Quiet DEF Scan, Inv
<1>2. CASE SelectTimesOut  BY <1>2, Quiet DEF SelectTimesOut, Again, Inv
<1>3. CASE Select
  <2>1. Readable \cap fds \in SUBSET Nat  BY OpenedAreNumbers DEF Inv, Numbers
  <2>2. mpc' = "handle" => at' \in Opened
    BY <1>3, <2>1, LeastOfNumbers DEF Select, Inv
  <2> QED  BY <1>3, <2>2, Quiet DEF Select, Inv
<1>4. CASE Accept
  <2> PICK c \in Waiting : /\ link' = [link EXCEPT ![c] = "up"]
                           /\ num' = [num EXCEPT ![c] = Free]
    <3> DEFINE d == CHOOSE d \in Waiting : TRUE
    <3>1. d \in Waiting  BY <1>4 DEF Accept
    <3> QED  BY <1>4, <3>1 DEF Accept
  <2>1. c \in Conns /\ num[c] = 0  BY DEF Waiting, Inv, Unnumbered, Early
  <2>2. Free \in Nat \ Opened /\ Free > Listen  BY <2>1, FreeIsFree DEF Inv
  <2>3. Open' = Open \cup {c} /\ \A d \in Open : d # c /\ num'[d] = num[d]
    BY <2>1, <2>2 DEF Inv, Open, Listen
  <2>4. num'[c] = Free  BY <2>1 DEF Inv
  <2>5. Opened' = Opened \cup {Free}  BY <2>3, <2>4 DEF Opened
  <2>6. Types' /\ Unnumbered'  BY <2>1, <2>2 DEF Inv, Unnumbered, Early, Numbers
  <2>7. Own'  BY <2>2, <2>3, <2>4 DEF Inv, Own, Opened
  <2> QED  BY <1>4, <2>5, <2>6, <2>7 DEF Accept, Again, Inv
<1>5. CASE AcceptFails  BY <1>5, Quiet DEF AcceptFails, Inv
<1>6. CASE Recv \/ Show  BY <1>6, Quiet DEF Recv, Show, Again, Inv
<1>7. CASE Close
  <2> DEFINE c == Who(at)
  <2>1. at \in Opened  BY <1>7 DEF Close, Inv
  <2>2. c \in Open /\ c \in Conns /\ num[c] = at  BY <2>1, WhoIsOpen DEF Open
  <2> HIDE DEF c
  <2>3. link' = [link EXCEPT ![c] = "closed"] /\ num' = [num EXCEPT ![c] = 0]
    BY <1>7 DEF Close, c
  <2>4. Open' = Open \ {c} /\ \A d \in Open \ {c} : num'[d] = num[d] /\ num[d] # at
    BY <2>2, <2>3 DEF Inv, Open, Own
  <2>5. Opened' = Opened \ {at}  BY <2>2, <2>4 DEF Opened
  <2>6. Types' /\ Unnumbered'  BY <2>2, <2>3 DEF Inv, Unnumbered, Early
  <2>7. Own'  BY <2>4 DEF Inv, Own
  <2> QED  BY <1>7, <2>5, <2>6, <2>7 DEF Close, Again, Inv
<1>8. CASE Relay
  <2>1. CASE Again /\ UNCHANGED <<peers, fds>>
    BY <2>1, Quiet DEF Again, Inv
  <2>2. CASE SendFails(at) /\ Again
    BY <2>2, SendIsQuiet, Quiet DEF Again
  <2>3. CASE SendTo(at)
    BY <1>8, <2>3, SendIsQuiet, Quiet DEF SendTo, Relay
  <2> QED  BY <1>8, <2>1, <2>2, <2>3 DEF Relay
<1>9. ASSUME NEW c \in Conns, Connect(c) \/ Write(c) \/ Leave(c) PROVE Inv'
  <2>1. CASE Connect(c) \/ Write(c)  BY <2>1, Quiet DEF Connect, Write, Inv, Early
  <2>2. CASE Leave(c)
    <3>1. PICK l \in Gone : link' = [link EXCEPT ![c] = l]  BY <2>2 DEF Leave
    <3>2. Types'  BY <3>1, <2>2 DEF Leave, Inv, Gone
    <3> QED  BY <2>2, <3>1, <3>2, Quiet DEF Leave, Inv, Early, Gone
  <2> QED  BY <1>9, <2>1, <2>2
<1>10. ASSUME NEW t \in Threads, Type(t) \/ Tell(t) PROVE Inv'
  <2>1. CASE UNCHANGED <<peers, main>>  BY <2>1, Quiet DEF Inv
  <2>2. CASE /\ Send(next[t]) \/ SendFails(next[t])
             /\ mpc' \in {mpc, "dead"} /\ at' = at
    BY <2>2, SendIsQuiet, Quiet DEF Inv
  <2> QED  BY <1>10, <2>1, <2>2 DEF Type, Tell
<1>11. CASE UNCHANGED vars  BY <1>11, Quiet DEF vars, Inv
<1> QED
  BY <1>1, <1>2, <1>3, <1>4, <1>5, <1>6, <1>7, <1>8, <1>9, <1>10, <1>11
  DEF Steps

-----------------------------------------------------------------------------
(* what begins with '/' *)

\* ret is the highest number when main has looked for it, and the relay has sent to
\* every number below the one it is at.
Reached ==
  /\ at \in Nat /\ ret \in Nat
  /\ mpc = "scan" => at = 0 \/ at = ret
  /\ mpc \in {"select", "handle", "relay"} => \A k \in fds : k <= ret
  /\ mpc = "relay" => at > Listen /\ Listen + 1 .. at - 1 \subseteq got

LEMMA InitReached == Init => Reached
BY DEF Init, Reached

LEMMA StepReached ==
  ASSUME Inv, Reached, Steps \/ UNCHANGED vars
  PROVE  Reached'
<1> USE DEF Reached, Listen, peers, main, operator
<1>1. fds \subseteq Numbers  BY OpenedAreNumbers DEF Inv
<1>2. CASE Scan
  <2> DEFINE above == {k \in {Listen} \cup fds : k > at}
  <2>1. CASE above = {}
    <3>1. at = ret /\ \A k \in fds : k <= at  BY <1>1, <1>2, <2>1 DEF Scan, Numbers
    <3> QED  BY <1>2, <2>1, <3>1 DEF Scan
  <2>2. CASE above # {}
    <3>1. {Listen} \cup fds \subseteq Nat  BY <1>1 DEF Numbers
    <3>2. above \subseteq Nat  BY <3>1
    <3>3. Min(above) \in Nat  BY <2>2, <3>2, LeastOfNumbers
    <3> QED  BY <1>2, <2>2, <3>3 DEF Scan
  <2> QED  BY <2>1, <2>2
<1>3. CASE Select
  <2>1. Readable \cap fds \in SUBSET Nat  BY <1>1 DEF Numbers
  <2>2. at' \in Nat  BY <1>3, <2>1, LeastOfNumbers DEF Select
  <2> QED  BY <1>3, <2>2 DEF Select
<1>4. CASE SelectTimesOut \/ Accept \/ Show \/ Close
  <2>1. Again /\ ret' = ret  BY <1>4 DEF SelectTimesOut, Accept, Show, Close
  <2> QED  BY <2>1 DEF Again
<1>10. CASE AcceptFails  BY <1>10 DEF AcceptFails
<1>5. CASE Recv
  <2>1. Again \/ (mpc' = "relay" /\ at' = Listen + 1)  BY <1>5 DEF Recv
  <2>2. mpc = "handle" /\ UNCHANGED <<fds, ret, got>>  BY <1>5 DEF Recv
  <2> QED  BY <2>1, <2>2 DEF Again
<1>6. CASE Relay
  <2>1. CASE Again /\ ret' = ret  BY <2>1 DEF Again
  <2>2. CASE SendTo(at)  BY <1>6, <2>2 DEF Relay, SendTo, Send
  <2> QED  BY <1>6, <2>1, <2>2 DEF Relay
<1>7. ASSUME NEW c \in Conns, Connect(c) \/ Write(c) \/ Leave(c) PROVE Reached'
  BY <1>7 DEF Connect, Write, Leave
<1>8. ASSUME NEW t \in Threads, Type(t) \/ Tell(t) PROVE Reached'
  BY <1>8 DEF Type, Tell, Send, SendFails
<1>9. CASE UNCHANGED vars  BY <1>9 DEF vars
<1> QED  BY <1>2, <1>3, <1>4, <1>5, <1>6, <1>7, <1>8, <1>9, <1>10 DEF Steps

\* A relay that ends has sent to every number below the lowest at which a send fails.
LEMMA RelayEnds ==
  ASSUME Inv, Reached, Steps
  PROVE  RelayReachesStep
<1> SUFFICES ASSUME mpc = "relay", mpc' = "scan", NEW c \in Reachable
             PROVE  num[c] \in got
  BY DEF RelayReachesStep
<1>1. Relay
  BY DEF Steps, Scan, Select, SelectTimesOut, Accept, AcceptFails, Recv, Show, Close,
         Connect, Write, Leave, Type, Tell, peers, main, operator
<1>2. at > ret \/ Fails(at)
  BY <1>1 DEF Relay, SendFails, SendTo
<1>3. /\ num[c] \in Opened /\ num[c] \in Numbers
      /\ \A k \in Listen + 1 .. num[c] : ~Fails(k)
  BY DEF Reachable, Open, Opened, Inv, Types
<1>4. num[c] <= ret  BY <1>3 DEF Inv, Reached
<1>5. num[c] < at  BY <1>2, <1>3, <1>4 DEF Reached, Numbers, Listen
<1> QED  BY <1>3, <1>5 DEF Reached, Numbers, Listen
=============================================================================
