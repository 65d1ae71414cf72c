--------------------------- MODULE Handover_proofs ---------------------------
(***************************************************************************)
(* One thread for each connection of the hand-over server, for every       *)
(* number of connections and threads.                                      *)
(***************************************************************************)
EXTENDS Handover, TLAPS

Open(c) == link[c] \in {"up"} \cup Gone
Unserved(c) == \A h \in Handlers : ~Serves(h, c)
Serving(h) == hpc[h] \in {"post", "recv", "close"}
Pending(h) == hpc[h] \in {"start", "post"}

Types ==
  /\ link \in [Conns -> {"away", "queued", "up", "left", "reset", "closed"}]
  /\ acc \in {"wait", "accept", "create"} /\ new \in Conns \cup {0} /\ sem \in Nat
  /\ hpc \in [Handlers -> {"none", "start", "post", "recv", "close"}]
  /\ sock \in [Handlers -> Conns \cup {0}]

\* There is one token: in the semaphore, at the acceptor, or at one new thread.
Baton ==
  /\ sem \in {0, 1}
  /\ sem = 1 => acc = "wait" /\ \A h \in Handlers : ~Pending(h)
  /\ acc # "wait" => sem = 0 /\ \A h \in Handlers : ~Pending(h)
  /\ \A g, h \in Handlers : Pending(g) /\ Pending(h) => g = h

\* While new_client is to be handed over nobody serves it.
Waiting == acc = "create" \/ \E h \in Handlers : hpc[h] = "start"
NewIsFree == Waiting => new \in Conns /\ Open(new) /\ Unserved(new)

Sockets ==
  /\ \A h \in Handlers : Serving(h) => sock[h] \in Conns /\ Open(sock[h])
  /\ \A g, h \in Handlers : Serving(g) /\ Serving(h) /\ sock[g] = sock[h] => g = h

NoneLost == \A c \in Conns : Open(c) /\ Unserved(c) => new = c /\ Waiting

Inv == Types /\ Baton /\ NewIsFree /\ Sockets /\ NoneLost

LEMMA InitInv == Init => Inv
BY DEF Init, Inv, Types, Baton, Pending, Waiting, NewIsFree, Sockets, Serving, NoneLost,
       Open, Gone, Unserved

LEMMA StepInv == Inv /\ [Next]_vars => Inv'
<1> SUFFICES ASSUME Inv, [Next]_vars PROVE Inv'
  OBVIOUS
<1> USE DEF Inv, Open, Gone, Unserved, Serves, Serving, Pending, Waiting
<1>1. ASSUME NEW c \in Conns, Connect(c) \/ Leave(c) \/ Tell(c) PROVE Inv'
  <2>1. /\ UNCHANGED threads
        /\ link' \in [Conns -> {"away", "queued", "up", "left", "reset", "closed"}]
        /\ \A d \in Conns : Open(d)' <=> Open(d)
    BY <1>1 DEF Connect, Leave, Tell, Types
  <2> QED  BY <2>1 DEF threads, Types, Baton, NewIsFree, Sockets, NoneLost
<1>2. CASE Wait
  <2>1. Types' /\ Baton'  BY <1>2 DEF Wait, Types, Baton
  <2>2. NewIsFree' /\ Sockets' /\ NoneLost'
    BY <1>2 DEF Wait, Types, NewIsFree, Sockets, NoneLost
  <2> QED  BY <2>1, <2>2
<1>3. CASE Accept
  <2> PICK c \in Conns : link[c] = "queued" /\ new' = c /\ link' = [link EXCEPT ![c] = "up"]
    BY <1>3 DEF Accept
  <2>1. ~Waiting  BY <1>3 DEF Accept, Baton
  <2>2. Types' /\ Baton'  BY <1>3 DEF Accept, Types, Baton
  <2>3. \A d \in Conns : Open(d)' <=> Open(d) \/ d = c
    BY DEF Types
  <2>4. Unserved(c) /\ UNCHANGED <<hpc, sock>> /\ acc' = "create"
    BY <1>3 DEF Accept, Sockets
  <2>5. NewIsFree' /\ Sockets' /\ NoneLost'
    BY <2>1, <2>3, <2>4 DEF NewIsFree, Sockets, NoneLost
  <2> QED  BY <2>2, <2>5
<1>4. CASE Create
  <2> PICK h \in Handlers : hpc[h] = "none" /\ hpc' = [hpc EXCEPT ![h] = "start"]
    BY <1>4 DEF Create
  <2>1. Types' /\ Baton'  BY <1>4 DEF Create, Types, Baton
  <2>2. \A g \in Handlers : Serving(g)' <=> Serving(g)  BY DEF Types
  <2>3. Waiting /\ Waiting' /\ UNCHANGED <<link, new, sock>>
    BY <1>4 DEF Create, Types
  <2>4. \A c \in Conns : Unserved(c)' <=> Unserved(c)  BY <2>2, <2>3
  <2>5. NewIsFree' /\ Sockets' /\ NoneLost'
    BY <2>2, <2>3, <2>4 DEF NewIsFree, Sockets, NoneLost
  <2> QED  BY <2>1, <2>5
<1>5. CASE CreateFails
  <2>1. Types' /\ Baton' /\ ~Waiting' /\ UNCHANGED <<hpc, sock, new>>
    BY <1>5 DEF CreateFails, Types, Baton
  <2>2. new \in Conns /\ Unserved(new)  BY <1>5 DEF CreateFails, NewIsFree
  <2>3. \A c \in Conns : Open(c)' <=> Open(c) /\ c # new
    BY <1>5 DEF CreateFails, Types
  <2>4. NewIsFree' /\ Sockets' /\ NoneLost'
    BY <2>1, <2>2, <2>3 DEF NewIsFree, Sockets, NoneLost
  <2> QED  BY <2>1, <2>4
<1>6. ASSUME NEW h \in Handlers, Take(h) PROVE Inv'
  <2>1. Types' /\ Baton'  BY <1>6 DEF Take, Types, Baton
  <2>2. new \in Conns /\ Open(new) /\ Unserved(new)  BY <1>6 DEF Take, NewIsFree
  <2>3. \A g \in Handlers : Serving(g)' <=> Serving(g) \/ g = h
    BY <1>6 DEF Take, Types
  <2>4. \A g \in Handlers : sock'[g] = IF g = h THEN new ELSE sock[g]
    BY <1>6 DEF Take, Types
  <2>5. ~Waiting' /\ UNCHANGED <<link, new>>  BY <1>6 DEF Take, Types, Baton
  <2>6. Sockets'  BY <2>2, <2>3, <2>4, <2>5 DEF Sockets
  <2>7. \A c \in Conns : Unserved(c)' <=> Unserved(c) /\ c # new
    BY <1>6, <2>3, <2>4 DEF Take, Types
  <2>8. NewIsFree' /\ NoneLost'  BY <2>5, <2>7 DEF NewIsFree, NoneLost
  <2> QED  BY <2>1, <2>6, <2>8
<1>7. ASSUME NEW h \in Handlers, Post(h) PROVE Inv'
  <2>1. Types' /\ Baton'  BY <1>7 DEF Post, Types, Baton
  <2>2. \A g \in Handlers : Serving(g)' <=> Serving(g)  BY <1>7 DEF Post, Types
  <2>3. (Waiting' <=> Waiting) /\ UNCHANGED <<link, new, sock>>
    BY <1>7 DEF Post, Types
  <2>4. \A c \in Conns : Unserved(c)' <=> Unserved(c)  BY <2>2, <2>3
  <2>5. NewIsFree' /\ Sockets' /\ NoneLost'
    BY <2>2, <2>3, <2>4 DEF NewIsFree, Sockets, NoneLost
  <2> QED  BY <2>1, <2>5
<1>8. ASSUME NEW h \in Handlers, RecvEnd(h) PROVE Inv'
  <2>1. Types' /\ Baton'  BY <1>8 DEF RecvEnd, Types, Baton
  <2>2. \A g \in Handlers : Serving(g)' <=> Serving(g)  BY <1>8 DEF RecvEnd, Types
  <2>3. (Waiting' <=> Waiting) /\ UNCHANGED <<link, new, sock>>
    BY <1>8 DEF RecvEnd, Types
  <2>4. \A c \in Conns : Unserved(c)' <=> Unserved(c)  BY <2>2, <2>3
  <2>5. NewIsFree' /\ Sockets' /\ NoneLost'
    BY <2>2, <2>3, <2>4 DEF NewIsFree, Sockets, NoneLost
  <2> QED  BY <2>1, <2>5
<1>9. ASSUME NEW h \in Handlers, Close(h) PROVE Inv'
  <2>1. Types' /\ Baton'  BY <1>9 DEF Close, Types, Baton
  <2>2. sock[h] \in Conns /\ ~Unserved(sock[h])  BY <1>9 DEF Close, Sockets
  <2>3. \A g \in Handlers : /\ Serving(g)' <=> Serving(g) /\ g # h
                            /\ g # h => sock'[g] = sock[g]
    BY <1>9 DEF Close, Types
  <2>4. (Waiting' <=> Waiting) /\ UNCHANGED new  BY <1>9 DEF Close, Types
  <2>5. \A c \in Conns : Open(c)' <=> Open(c) /\ c # sock[h]
    BY <1>9, <2>2 DEF Close, Types
  <2>6. \A g \in Handlers \ {h} : Serving(g) => sock[g] # sock[h]
    BY <1>9 DEF Close, Sockets
  <2>7. Sockets'  BY <2>3, <2>5, <2>6 DEF Sockets
  <2>8. \A c \in Conns : Unserved(c)' <=> Unserved(c) \/ c = sock[h]
    BY <1>9, <2>3, <2>6 DEF Close
  <2>9. NewIsFree' /\ NoneLost'
    BY <2>2, <2>4, <2>5, <2>8 DEF NewIsFree, NoneLost
  <2> QED  BY <2>1, <2>7, <2>9
<1>10. ASSUME UNCHANGED threads /\ UNCHANGED link PROVE Inv'
  BY <1>10 DEF threads, Types, Baton, NewIsFree, Sockets, NoneLost
<1>11. CASE AcceptFails  BY <1>10, <1>11 DEF AcceptFails
<1>12. CASE UNCHANGED vars  BY <1>10, <1>12 DEF vars
<1> QED
  BY <1>1, <1>2, <1>3, <1>4, <1>5, <1>6, <1>7, <1>8, <1>9, <1>11, <1>12
  DEF Next, Acceptor, Handler

\* Each connection is served by one thread, and an open one that is nobody's is still
\* in new_client, for every number of both (client_handle.c:18-30, 41-46).
THEOREM OneHandlerEachAlways == Safety => []OneHandlerEach
<1>1. Inv => OneHandlerEach
  BY DEF Inv, Sockets, NoneLost, OneHandlerEach, Serves, Serving, Open, Unserved
<1> QED  BY InitInv, StepInv, <1>1, PTL DEF Safety
=============================================================================
