----------------------------- MODULE OldHandover -----------------------------
(***************************************************************************)
(* 10.network/old_source/2.tcp_server_3: the threads of Handover before    *)
(* the operator could write to a client.  2.tcp_server_2 has the same two  *)
(* in client_handle.c, but its main starts none.                           *)
(***************************************************************************)
EXTENDS Handover

OldAcceptor == Acceptor
OldHandler(h) == Handler(h)

OldNext == /\ ~dead
           /\ \/ OldAcceptor \/ AcceptFails \/ CreateFails
              \/ \E h \in Handlers : OldHandler(h)
              \/ \E c \in Conns : Connect(c) \/ Leave(c)
=============================================================================
