------------------------------ MODULE Admission ------------------------------
(***************************************************************************)
(* What the chat server of 10.network/4.tftp/new_code promises to the      *)
(* connections that reach its listening socket: they are decided in the    *)
(* order of arrival, at most Limits of them are inside at a time, one is   *)
(* turned away only when the server is full, and nobody waits for ever     *)
(* unless the server stops.  ChatServer.tla implements it.                 *)
(***************************************************************************)
EXTENDS Naturals, Sequences, FiniteSets

CONSTANTS Conns, Limits

VARIABLES waiting,   \* connections that arrived and are not decided yet
          inside,    \* connections that hold one of the Limits places
          refused,   \* connections that were turned away
          up         \* the server process is alive

avars == <<waiting, inside, refused, up>>

AInit == waiting = <<>> /\ inside = {} /\ refused = {} /\ up = TRUE

Arrive(c) == /\ waiting' = Append(waiting, c)
             /\ UNCHANGED <<inside, refused, up>>

Admit == /\ waiting # <<>> /\ Cardinality(inside) < Limits
         /\ waiting' = Tail(waiting)
         /\ inside' = inside \cup {Head(waiting)}
         /\ UNCHANGED <<refused, up>>

Refuse == /\ waiting # <<>> /\ Cardinality(inside) = Limits
          /\ waiting' = Tail(waiting)
          /\ refused' = refused \cup {Head(waiting)}
          /\ UNCHANGED <<inside, up>>

Leave(c) == /\ c \in inside
            /\ inside' = inside \ {c}
            /\ UNCHANGED <<waiting, refused, up>>

\* The server is a process: it may stop at any time, and decides nobody after.
Stop == up' = FALSE /\ UNCHANGED <<waiting, inside, refused>>

Decide == up /\ (Admit \/ Refuse)

ANext == up /\ (Decide \/ Stop \/ \E c \in Conns : Arrive(c) \/ Leave(c))

Safe == AInit /\ [][ANext]_avars

\* While the server is up, the connection at the head of the line is decided.
Spec == Safe /\ WF_avars(Decide)
==============================================================================
