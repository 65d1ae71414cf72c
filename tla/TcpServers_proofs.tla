-------------------------- MODULE TcpServers_proofs --------------------------
(***************************************************************************)
(* The invariants of the TCP servers, for all values of their parameters:  *)
(* those of the hand-over server and of the select servers carry over from *)
(* their own proofs, that of the socket set-up is proved here.             *)
(***************************************************************************)
EXTENDS TcpServers, SequenceTheorems, TLAPS

HandP == INSTANCE Handover_proofs
SelP == INSTANCE SelectVersions_proofs WITH version <- program

-----------------------------------------------------------------------------
(* one server on a port *)

\* One process at a time listens, whether or not it serves yet.
SetInv ==
  /\ done \in [Starts -> Nat]
  /\ pc \in [Starts -> {"off", "calls", "serve", "talk", "refused"}]
  /\ \A p, q \in Starts : SetUp!Listening(p) /\ SetUp!Listening(q) => p = q

LEMMA SetInit == SetUp!Init => SetInv
BY DEF SetUp!Init, SetInv, SetUp!Listening, SetUp!Has, SetUp!Running

\* Steps that make nobody listen.
LEMMA Idle ==
  ASSUME SetInv, UNCHANGED file,
         done' \in [Starts -> Nat],
         pc' \in [Starts -> {"off", "calls", "serve", "talk", "refused"}],
         \A p \in Starts : SetUp!Listening(p)' => SetUp!Listening(p)
  PROVE  SetInv'
BY DEF SetInv

LEMMA SetStep == SetInv /\ [SetUp!Next]_SetUp!vars => SetInv'
<1> SUFFICES ASSUME SetInv, [SetUp!Next]_SetUp!vars PROVE SetInv'
  OBVIOUS
<1> USE DEF SetUp!Listening, SetUp!Has, SetUp!Running
<1>1. ASSUME NEW p \in Starts, SetUp!Start(p) PROVE SetInv'
  BY <1>1, Idle DEF SetUp!Start, SetInv
<1>2. ASSUME NEW p \in Starts, SetUp!CallFails(p) \/ SetUp!Kill(p) PROVE SetInv'
  BY <1>2, Idle DEF SetUp!CallFails, SetUp!Kill, SetInv
<1>3. ASSUME NEW p \in Starts, SetUp!Accept(p) \/ SetUp!ClientLeaves(p) PROVE SetInv'
  BY <1>3, Idle DEF SetUp!Accept, SetUp!ClientLeaves, SetInv
<1>4. ASSUME NEW p \in Starts, SetUp!Call(p) PROVE SetInv'
  <2>1. CASE SetUp!Refused(p, SetUp!Here(p))
    BY <1>4, <2>1, Idle DEF SetUp!Call, SetInv
  <2>2. CASE ~SetUp!Refused(p, SetUp!Here(p))
    <3>1. /\ pc[p] = "calls" /\ UNCHANGED file
          /\ done' = [done EXCEPT ![p] = done[p] + 1]
          /\ pc' \in {pc, [pc EXCEPT ![p] = "serve"]}
      BY <1>4, <2>2 DEF SetUp!Call, SetUp!Succeed, SetInv
    <3>2. /\ done' \in [Starts -> Nat]
          /\ pc' \in [Starts -> {"off", "calls", "serve", "talk", "refused"}]
      BY <3>1 DEF SetInv
    <3>3. \A q \in Starts \ {p} : SetUp!Listening(q)' <=> SetUp!Listening(q)
      BY <3>1 DEF SetInv
    <3>4. CASE SetUp!Here(p) = "listen"
      <4>1. \A q \in Starts \ {p} : ~SetUp!Listening(q)
        BY <2>2, <3>4 DEF SetUp!Refused, SetUp!MayListen, SetUp!Others
      <4> QED  BY <3>2, <3>3, <4>1 DEF SetInv
    <3>5. CASE SetUp!Here(p) # "listen"
      <4>1. 1 .. done'[p] = (1 .. done[p]) \cup {done[p] + 1}
        BY <3>1 DEF SetInv
      <4>2. SetUp!Listening(p)' => SetUp!Listening(p)
        BY <3>1, <3>5, <4>1 DEF SetUp!Here
      <4> QED  BY <3>1, <3>2, <3>3, <4>2, Idle
    <3> QED  BY <3>4, <3>5
  <2> QED  BY <2>1, <2>2
<1>5. CASE SetUp!Expire  BY <1>5, Idle DEF SetUp!Expire, SetInv
<1>6. CASE UNCHANGED SetUp!vars  BY <1>6, Idle DEF SetUp!vars, SetInv
<1> QED  BY <1>1, <1>2, <1>3, <1>4, <1>5, <1>6 DEF SetUp!Next, SetUp!Process

-----------------------------------------------------------------------------
(* a port is refused for a reason *)

\* A process has made as many calls as its program has, or fewer while it makes them.
Called ==
  /\ file \in DOMAIN SetUp!Calls
  /\ \A p \in Starts : /\ done[p] <= Len(SetUp!Calls[file])
                       /\ pc[p] = "calls" => done[p] < Len(SetUp!Calls[file])

\* The programs that make their address reusable do so before they bind it.
LEMMA CallsOf ==
  ASSUME NEW f \in DOMAIN SetUp!Calls
  PROVE  \/ SetUp!Calls[f] \in {<<"socket", "reuse", "bind", "listen">>,
                               <<"args", "socket", "reuse", "bind", "listen">>,
                               <<"args", "socket", "reuse", "bind", "thread">>}
         \/ /\ f \in SetUp!Singles
            /\ SetUp!Calls[f] = <<"socket", "bind", "listen">>
         \/ /\ f \in SetUp!Broadcasts
            /\ SetUp!Calls[f] = <<"args", "socket", "broadcast", "bind", "thread">>
<1>1. SetUp!Server = <<"args", "socket", "reuse", "bind", "listen">>
  <2> DEFINE W == {"args", "socket", "reuse", "bind", "listen"}
             s == <<"args">>
             t == <<"socket", "reuse", "bind", "listen">>
             u == <<"args", "socket", "reuse", "bind", "listen">>
  <2>1. s \in Seq(W) /\ t \in Seq(W) /\ u \in Seq(W)
    OBVIOUS
  <2>2. Len(s) = 1 /\ Len(t) = 4 /\ Len(u) = 5
    OBVIOUS
  <2>3. /\ s \o t \in Seq(W) /\ Len(s \o t) = 5
        /\ \A i \in 1 .. 5 : (s \o t)[i] = IF i <= 1 THEN s[i] ELSE t[i - 1]
    BY <2>1, <2>2, ConcatProperties
  <2>4. \A i \in 1 .. 5 : IF i <= 1 THEN s[i] = u[i] ELSE t[i - 1] = u[i]
    OBVIOUS
  <2> HIDE DEF W, s, t, u
  <2>5. s \o t = u  BY <2>1, <2>2, <2>3, <2>4, SeqEqual
  <2> QED  BY <2>5 DEF SetUp!Server, SetUp!serverSocketInit, s, t, u
<1> QED
  BY <1>1
  DEF SetUp!Calls, SetUp!Singles, SetUp!Broadcasts, SetUp!serverSocketInit, SetUp!Peer,
      SetUp!chat_server, SetUp!older_chat, SetUp!server5198, SetUp!tcp_server_2,
      SetUp!tcp_server_3, SetUp!select_new, SetUp!select_old, SetUp!main8035,
      SetUp!main4812, SetUp!main4717, SetUp!main4012, SetUp!main2643, SetUp!single,
      SetUp!single_2, SetUp!udp, SetUp!udp1501, SetUp!udp7083, SetUp!broadcast,
      SetUp!broadcast691

LEMMA ReuseBeforeBind ==
  ASSUME NEW f \in DOMAIN SetUp!Calls, f \notin SetUp!Singles \cup SetUp!Broadcasts,
         NEW i \in 1 .. Len(SetUp!Calls[f]), SetUp!Calls[f][i] = "bind"
  PROVE  \E j \in 1 .. i - 1 : SetUp!Calls[f][j] = "reuse"
<1>1. CASE SetUp!Calls[f] = <<"socket", "reuse", "bind", "listen">>
  <2>1. i = 3  BY <1>1
  <2> QED  BY <1>1, <2>1
<1>2. CASE SetUp!Calls[f] \in {<<"args", "socket", "reuse", "bind", "listen">>,
                               <<"args", "socket", "reuse", "bind", "thread">>}
  <2>1. i = 4  BY <1>2
  <2> QED  BY <1>2, <2>1
<1> QED  BY <1>1, <1>2, CallsOf

LEMMA LenCalls ==
  ASSUME NEW f \in DOMAIN SetUp!Calls
  PROVE  Len(SetUp!Calls[f]) \in Nat \ {0}
BY CallsOf

LEMMA CalledInit == SetUp!Init => Called
BY LenCalls DEF SetUp!Init, Called

LEMMA CalledStep == SetInv /\ Called /\ [SetUp!Next]_SetUp!vars => Called'
<1> SUFFICES ASSUME SetInv, Called, [SetUp!Next]_SetUp!vars PROVE Called'
  OBVIOUS
<1>1. /\ file \in DOMAIN SetUp!Calls /\ Len(SetUp!Calls[file]) \in Nat \ {0}
      /\ UNCHANGED file
      /\ UNCHANGED file => UNCHANGED SetUp!Calls[file]
  <2>1. UNCHANGED file
    BY DEF SetUp!Next, SetUp!vars, SetUp!Expire, SetUp!Process, SetUp!Start, SetUp!Call,
       SetUp!CallFails, SetUp!Accept, SetUp!ClientLeaves, SetUp!Kill
  <2> QED  BY <2>1, LenCalls DEF Called
<1> USE <1>1 DEF SetInv, Called
<1>2. ASSUME NEW p \in Starts, SetUp!Start(p) PROVE Called'
  BY <1>2 DEF SetUp!Start
<1>3. ASSUME NEW p \in Starts, SetUp!Call(p) PROVE Called'
  <2>1. CASE UNCHANGED done /\ pc' = [pc EXCEPT ![p] = "refused"]
    BY <2>1
  <2>2. CASE SetUp!Succeed(p) /\ pc[p] = "calls"
    BY <2>2 DEF SetUp!Succeed
  <2> QED  BY <1>3, <2>1, <2>2 DEF SetUp!Call
<1>4. ASSUME NEW p \in Starts, SetUp!CallFails(p) \/ SetUp!Accept(p) \/ SetUp!ClientLeaves(p)
      PROVE  Called'
  BY <1>4 DEF SetUp!CallFails, SetUp!Accept, SetUp!ClientLeaves
<1>5. ASSUME NEW p \in Starts, SetUp!Kill(p) PROVE Called'
  BY <1>5 DEF SetUp!Kill
<1>6. CASE SetUp!Expire \/ UNCHANGED SetUp!vars
  BY <1>6 DEF SetUp!Expire, SetUp!vars
<1> QED  BY <1>2, <1>3, <1>4, <1>5, <1>6 DEF SetUp!Next, SetUp!Process

\* Whoever has bound its address, or is about to, has made it reusable.
LEMMA BoundIsReusing ==
  ASSUME SetInv, Called, file \notin SetUp!Singles \cup SetUp!Broadcasts, NEW p \in Starts
  PROVE  /\ SetUp!Has(p, "bind") => SetUp!Reusing(p)
         /\ pc[p] = "calls" /\ SetUp!Here(p) = "bind" => SetUp!Reusing(p)
<1>1. /\ done[p] \in Nat /\ Len(SetUp!Calls[file]) \in Nat /\ file \in DOMAIN SetUp!Calls
      /\ done[p] <= Len(SetUp!Calls[file])
      /\ pc[p] = "calls" => done[p] < Len(SetUp!Calls[file])
  BY LenCalls DEF SetInv, Called
<1>2. ASSUME NEW i \in 1 .. Len(SetUp!Calls[file]), i <= done[p] + 1,
             SetUp!Calls[file][i] = "bind", SetUp!Running(p)
      PROVE  SetUp!Reusing(p)
  <2>1. PICK j \in 1 .. i - 1 : SetUp!Calls[file][j] = "reuse"
    BY <1>1, <1>2, ReuseBeforeBind
  <2>2. j \in 1 .. done[p]  BY <1>1, <1>2, <2>1
  <2> QED  BY <1>2, <2>1, <2>2 DEF SetUp!Reusing, SetUp!Has
<1>3. CASE SetUp!Has(p, "bind")
  <2>1. PICK i \in 1 .. done[p] : SetUp!Calls[file][i] = "bind"
    BY <1>3 DEF SetUp!Has
  <2> QED  BY <1>1, <1>2, <1>3, <2>1 DEF SetUp!Has
<1>4. CASE pc[p] = "calls" /\ SetUp!Here(p) = "bind"
  <2>1. done[p] + 1 \in 1 .. Len(SetUp!Calls[file])  BY <1>1, <1>4
  <2> QED  BY <1>1, <1>2, <1>4, <2>1 DEF SetUp!Here, SetUp!Running
<1> QED  BY <1>3, <1>4

\* A call that is refused is bind or listen, and there is a reason.
LEMMA RestartStep ==
  ASSUME SetInv, Called, [SetUp!Next]_SetUp!vars
  PROVE  SetUp!RestartWorksStep
<1> SUFFICES ASSUME NEW p \in Starts, SetUp!Turned(p),
                    file \notin SetUp!Singles \cup SetUp!Broadcasts
             PROVE  \E q \in SetUp!Others(p) : SetUp!Listening(q)
  BY DEF SetUp!RestartWorksStep
<1>1. SetUp!Call(p) /\ SetUp!Refused(p, SetUp!Here(p))
  <2>1. pc[p] # "refused" /\ pc'[p] = "refused"  BY DEF SetUp!Turned
  <2>2. ASSUME NEW r \in Starts, SetUp!Process(r),
               ~(SetUp!Call(r) /\ SetUp!Refused(r, SetUp!Here(r)))
        PROVE  FALSE
    BY <2>1, <2>2
    DEF SetUp!Process, SetUp!Start, SetUp!Call, SetUp!Succeed, SetUp!CallFails,
        SetUp!Accept, SetUp!ClientLeaves, SetUp!Kill, SetInv
  <2>3. ASSUME NEW r \in Starts, SetUp!Call(r) PROVE r = p
    BY <2>1, <2>3 DEF SetUp!Call, SetUp!Succeed, SetInv
  <2>4. ~SetUp!Expire /\ ~UNCHANGED SetUp!vars  BY <2>1 DEF SetUp!Expire, SetUp!vars
  <2> QED  BY <2>2, <2>3, <2>4 DEF SetUp!Next
<1>2. CASE SetUp!Here(p) = "listen"
  BY <1>1, <1>2 DEF SetUp!Refused, SetUp!MayListen
<1>3. CASE SetUp!Here(p) = "bind"
  <2>1. ~SetUp!MayBind(p)  BY <1>1, <1>3 DEF SetUp!Refused
  <2>2. SetUp!Reusing(p)  BY <1>1, <1>3, BoundIsReusing DEF SetUp!Call
  <2>3. PICK q \in SetUp!Others(p) :
          SetUp!Has(q, "bind") /\ ~(SetUp!Reusing(q) /\ ~SetUp!Listening(q))
    BY <2>1, <2>2 DEF SetUp!MayBind
  <2>4. SetUp!Reusing(q)  BY <2>3, BoundIsReusing DEF SetUp!Others
  <2> QED  BY <2>3, <2>4
<1> QED  BY <1>1, <1>2, <1>3 DEF SetUp!Refused

-----------------------------------------------------------------------------
(* the programs of the run and those of the proofs are the same *)

LEMMA SameHandover ==
  /\ Hand!Init <=> HandP!Init
  /\ [Hand!Next]_Hand!vars => [HandP!Next]_HandP!vars
  /\ Hand!OldNext => HandP!Next
BY DEF Hand!Init, HandP!Init, Hand!Next, HandP!Next, Hand!vars, HandP!vars,
       Hand!threads, HandP!threads, Hand!Gone, HandP!Gone, Hand!Acceptor,
       HandP!Acceptor, Hand!Handler, HandP!Handler, Hand!Wait, HandP!Wait,
       Hand!Accept, HandP!Accept, Hand!Create, HandP!Create, Hand!CreateFails,
       HandP!CreateFails, Hand!AcceptFails, HandP!AcceptFails, Hand!Take,
       HandP!Take, Hand!Post, HandP!Post, Hand!RecvEnd, HandP!RecvEnd, Hand!Close,
       HandP!Close, Hand!Connect, HandP!Connect, Hand!Leave, HandP!Leave,
       Hand!Tell, HandP!Tell,
       Hand!OldNext, Hand!OldAcceptor, Hand!OldHandler

LEMMA SameFree == Sel!Free = SelP!Free
<1>1. \A S : Sel!Min(S) = SelP!Min(S)  BY DEF Sel!Min, SelP!Min
<1>2. Sel!Opened = SelP!Opened  BY DEF Sel!Opened, SelP!Opened, Sel!Open, SelP!Open
<1>3. Sel!Nums = SelP!Nums
  BY DEF Sel!Nums, SelP!Nums, Sel!Listen, SelP!Listen, Sel!Cardinality, SelP!Cardinality
<1> QED  BY <1>1, <1>2, <1>3 DEF Sel!Free, SelP!Free

LEMMA SameSelect ==
  /\ Sel!Init => SelP!Init
  /\ [Sel!Next]_Sel!vars => [SelP!Next]_SelP!vars
  /\ Sel!VersionNext => SelP!VersionNext
<1> USE DEF Sel!Who, SelP!Who, Sel!Open, SelP!Open, Sel!Opened, SelP!Opened, Sel!Listen,
            SelP!Listen, Sel!Gone, SelP!Gone, Sel!Min, SelP!Min, Sel!peers, SelP!peers,
            Sel!main, SelP!main, Sel!operator, SelP!operator
<1>1. Sel!Scan <=> SelP!Scan
  BY DEF Sel!Scan, SelP!Scan
<1>2. Sel!Select <=> SelP!Select
  BY DEF Sel!Select, SelP!Select, Sel!Readable, SelP!Readable, Sel!Waiting, SelP!Waiting
<1>3. Sel!SelectTimesOut <=> SelP!SelectTimesOut
  BY DEF Sel!SelectTimesOut, SelP!SelectTimesOut, Sel!Readable, SelP!Readable, Sel!Waiting,
         SelP!Waiting, Sel!Again, SelP!Again
<1>4. Sel!Accept <=> SelP!Accept
  <2>1. Sel!Waiting = SelP!Waiting /\ Sel!Unstarted = SelP!Unstarted
    BY DEF Sel!Waiting, SelP!Waiting, Sel!Unstarted, SelP!Unstarted
  <2>2. Sel!Again <=> SelP!Again  BY DEF Sel!Again, SelP!Again
  <2> QED  BY SameFree, <2>1, <2>2 DEF Sel!Accept, SelP!Accept
<1>5. Sel!AcceptFails <=> SelP!AcceptFails
  BY DEF Sel!AcceptFails, SelP!AcceptFails
<1>6. Sel!Recv <=> SelP!Recv
  BY DEF Sel!Recv, SelP!Recv, Sel!Again, SelP!Again
<1>7. Sel!Show <=> SelP!Show
  BY DEF Sel!Show, SelP!Show, Sel!Again, SelP!Again
<1>8. Sel!Close <=> SelP!Close
  BY DEF Sel!Close, SelP!Close, Sel!Again, SelP!Again
<1>9. ASSUME NEW k
       PROVE  /\ Sel!Send(k) <=> SelP!Send(k)
              /\ Sel!SendFails(k) <=> SelP!SendFails(k)
              /\ Sel!Killed(k) <=> SelP!Killed(k)
  <2>1. Sel!Fails(k) <=> SelP!Fails(k)  BY DEF Sel!Fails, SelP!Fails
  <2> QED
    BY <2>1 DEF Sel!Send, SelP!Send, Sel!SendFails, SelP!SendFails, Sel!Killed, SelP!Killed
<1>10. Sel!Relay <=> SelP!Relay
  <2>1. Sel!SendTo(at) <=> SelP!SendTo(at)  BY <1>9 DEF Sel!SendTo, SelP!SendTo
  <2> QED  BY <1>9, <2>1 DEF Sel!Relay, SelP!Relay, Sel!Again, SelP!Again
<1>11. \A c : Sel!Connect(c) <=> SelP!Connect(c)
  BY DEF Sel!Connect, SelP!Connect
<1>12. \A S : Sel!Arrive(S) <=> SelP!Arrive(S)
  BY <1>11 DEF Sel!Arrive, SelP!Arrive
<1>13. \A c : Sel!Write(c) <=> SelP!Write(c)
  BY DEF Sel!Write, SelP!Write
<1>14. \A c : Sel!Leave(c) <=> SelP!Leave(c)
  BY DEF Sel!Leave, SelP!Leave
<1>15. \A t : Sel!Type(t) <=> SelP!Type(t)
  BY DEF Sel!Type, SelP!Type
<1>16. ASSUME NEW t PROVE Sel!Tell(t) <=> SelP!Tell(t)
  <2> DEFINE k == next[t]
  <2>1. /\ Sel!Send(k) <=> SelP!Send(k)
        /\ Sel!SendFails(k) <=> SelP!SendFails(k)
        /\ Sel!Killed(k) <=> SelP!Killed(k)
    BY <1>9
  <2> QED  BY <2>1 DEF Sel!Tell, SelP!Tell
<1>17. Sel!Init => SelP!Init
  BY DEF Sel!Init, SelP!Init
<1>18. [Sel!Next]_Sel!vars => [SelP!Next]_SelP!vars
  BY <1>1, <1>2, <1>3, <1>4, <1>5, <1>6, <1>8, <1>10, <1>12, <1>13, <1>14, <1>15, <1>16
  DEF Sel!Next, SelP!Next, Sel!vars, SelP!vars, Sel!Main, SelP!Main
<1>19. Sel!Loop <=> SelP!Loop
  BY <1>1, <1>2, <1>3, <1>4, <1>6, <1>7, <1>8
  DEF Sel!Loop, SelP!Loop, Sel!AcceptOnly, SelP!AcceptOnly, Sel!Loop8035, SelP!Loop8035,
      Sel!Loop4812, SelP!Loop4812, Sel!Loop4717, SelP!Loop4717, Sel!Loop4012,
      SelP!Loop4012, Sel!Loop2643, SelP!Loop2643, Sel!Serve, SelP!Serve,
      Sel!ServeAlone, SelP!ServeAlone, Sel!Scan8035,
      SelP!Scan8035, Sel!Scan4812, SelP!Scan4812, Sel!Scan4717, SelP!Scan4717,
      Sel!Scan4012, SelP!Scan4012, Sel!Scan2643, SelP!Scan2643
<1>20. \A t : Sel!Thread(t) <=> SelP!Thread(t)
  BY <1>15, <1>16
  DEF Sel!Thread, SelP!Thread, Sel!Thread8035, SelP!Thread8035, Sel!Thread4812,
      SelP!Thread4812, Sel!Thread4717, SelP!Thread4717
<1>21. Sel!OldRelay <=> SelP!OldRelay
  BY <1>10
  DEF Sel!OldRelay, SelP!OldRelay, Sel!Relay8035, SelP!Relay8035, Sel!Relay4812,
      SelP!Relay4812, Sel!Relay4717, SelP!Relay4717
<1>22. Sel!VersionNext => SelP!VersionNext
  BY <1>5, <1>12, <1>13, <1>14, <1>19, <1>20, <1>21
  DEF Sel!VersionNext, SelP!VersionNext
<1> QED  BY <1>17, <1>18, <1>22

-----------------------------------------------------------------------------
(* a behaviour is one of a single program *)

Inv ==
  /\ HandsOver => HandP!Inv
  /\ Selects => SelP!Inv /\ SelP!Reached
  /\ program = "port" => SetInv /\ Called

LEMMA InitInv == Init => Inv
<1>1. Hand!Init => HandP!Inv  BY HandP!InitInv, SameHandover
<1>2. Sel!Init => SelP!Inv /\ SelP!Reached
  BY SelP!InitInv, SelP!InitReached, SameSelect
<1> QED
  BY <1>1, <1>2, SetInit, CalledInit
  DEF Init, Inv, HandsOver, Selects, Sel!VersionInit, Sel!Versions

LEMMA OneProgram ==
  ASSUME [Next]_vars
  PROVE  /\ program' = program
         /\ HandsOver => Hand!OldNext \/ [Hand!Next]_Hand!vars
         /\ Selects => Sel!VersionNext \/ [Sel!Next]_Sel!vars
         /\ program = "port" => [SetUp!Next]_SetUp!vars
<1>1. CASE Hands(Hand!Next) \/ OldHands(Hand!OldNext)
  BY <1>1 DEF Hands, OldHands, Runs, HandsOver, Selects, Sel!Versions
<1>2. CASE Sels(Sel!Next) \/ Olds(Sel!VersionNext)
  BY <1>2 DEF Sels, Olds, Runs, HandsOver, Selects, Sel!Versions
<1>3. CASE SetsUp(SetUp!Next)
  BY <1>3 DEF SetsUp, Runs, HandsOver, Selects, Sel!Versions
<1>4. CASE UNCHANGED vars
  BY <1>4 DEF vars, handVars, selVars, setVars, Hand!vars, Hand!threads,
              Sel!vars, Sel!peers, Sel!main, Sel!operator, SetUp!vars
<1> QED  BY <1>1, <1>2, <1>3, <1>4 DEF Next

LEMMA FiniteConns == SelP!IsFiniteSet(Conns)
BY ConnsAssumption DEF SelP!IsFiniteSet, IsFiniteSet

\* The steps of a select server as SelectVersions_proofs has them.
LEMMA SelectSteps ==
  ASSUME Selects, [Next]_vars
  PROVE  SelP!Steps \/ UNCHANGED SelP!vars
BY OneProgram, SameSelect, ConnsAssumption, SelP!NextIsSteps, SelP!VersionNextIsSteps

LEMMA StepInv == Inv /\ [Next]_vars => Inv'
<1> SUFFICES ASSUME Inv, [Next]_vars PROVE Inv'
  OBVIOUS
<1>1. ASSUME HandsOver PROVE HandP!Inv'
  BY <1>1, OneProgram, SameHandover, HandP!StepInv DEF Inv
<1>2. ASSUME Selects PROVE SelP!Inv' /\ SelP!Reached'
  BY <1>2, SelectSteps, FiniteConns, SelP!StepInv, SelP!StepReached DEF Inv
<1>3. ASSUME program = "port" PROVE SetInv' /\ Called'
  BY <1>3, OneProgram, SetStep, CalledStep DEF Inv
<1>4. UNCHANGED program  BY OneProgram
<1> QED  BY <1>1, <1>2, <1>3, <1>4 DEF Inv, HandsOver, Selects, Sel!Versions

-----------------------------------------------------------------------------
\* Each connection of the hand-over server, with the semaphore in either version, is
\* served by one thread, for every number of both: there is one baton, which is in the
\* semaphore, at the acceptor or at one new thread (client_handle.c:18-30, 41-46).
THEOREM OneHandlerEachAlways == Spec => []OneHandlerEach
<1>1. HandP!Inv => HandP!OneHandlerEach
  BY DEF HandP!Inv, HandP!Sockets, HandP!NoneLost, HandP!OneHandlerEach,
         HandP!Serves, HandP!Serving, HandP!Open, HandP!Unserved
<1>2. HandP!OneHandlerEach => Hand!OneHandlerEach
  BY DEF HandP!OneHandlerEach, Hand!OneHandlerEach, HandP!Serves, Hand!Serves,
         HandP!Gone, Hand!Gone
<1>3. Inv => OneHandlerEach  BY <1>1, <1>2 DEF Inv, OneHandlerEach
<1> QED  BY InitInv, StepInv, <1>3, PTL DEF Spec

\* main of a select server never asks for a closed number and asks for every open one,
\* for every finite number of connections (select/new/main.c:87-95, 115, 141-142).
THEOREM AsksForTheOpenAlways == Spec => []AsksForTheOpen
<1>1. Inv => AsksForTheOpen
  BY DEF Inv, SelP!Inv, AsksForTheOpen, Sel!AsksForTheOpen,
         Sel!Opened, SelP!Opened, Sel!Open, SelP!Open
<1> QED  BY InitInv, StepInv, <1>1, PTL DEF Spec

\* No two processes listen on the port, however many are started, whichever calls
\* fail and whenever they are killed (code/server.c:25-39).
THEOREM OneServerAlways == Spec => []OneServer
<1>1. Inv => OneServer
  BY DEF Inv, SetInv, OneServer, SetUp!OneServer, SetUp!Serves
<1> QED  BY InitInv, StepInv, <1>1, PTL DEF Spec

\* What begins with '/' goes to everybody below the lowest number at which a send fails,
\* for every finite number of connections: ret is the highest of them while main relays,
\* whatever the operator's threads do (select/new/main.c:89, 147-157).
THEOREM RelayReachesAlways == Spec => RelayReaches
<1>1. Inv /\ [Next]_vars => [Selects => Sel!RelayReachesStep]_vars
  <2> SUFFICES ASSUME Inv, Next, Selects PROVE Sel!RelayReachesStep
    OBVIOUS
  <2>1. CASE SelP!Steps
    <3>1. SelP!RelayReachesStep  BY <2>1, SelP!RelayEnds DEF Inv
    <3> QED
      BY <3>1
      DEF SelP!RelayReachesStep, Sel!RelayReachesStep, SelP!Reachable, Sel!Reachable,
          SelP!Open, Sel!Open, SelP!Opened, Sel!Opened, SelP!Listen, Sel!Listen,
          SelP!Fails, Sel!Fails, SelP!Who, Sel!Who
  <2>2. CASE UNCHANGED SelP!vars
    BY <2>2 DEF SelP!vars, SelP!main, Sel!RelayReachesStep
  <2> QED  BY <2>1, <2>2, SelectSteps
<1> QED  BY InitInv, StepInv, <1>1, PTL DEF Spec, RelayReaches

\* A program that makes its address reusable is refused its port only while another
\* process of it listens, however often it is started and killed: it makes the address
\* reusable before it binds, and so has every process that is bound (code/server.c:25-34).
THEOREM RestartWorksAlways == Spec => RestartWorks
<1>1. Inv /\ [Next]_vars => [program = "port" => SetUp!RestartWorksStep]_vars
  <2> SUFFICES ASSUME Inv, Next, program = "port" PROVE SetUp!RestartWorksStep
    OBVIOUS
  <2> QED  BY OneProgram, RestartStep DEF Inv
<1> QED  BY InitInv, StepInv, <1>1, PTL DEF Spec, RestartWorks
=============================================================================
