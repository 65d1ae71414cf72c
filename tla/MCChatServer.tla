---------------------------- MODULE MCChatServer ----------------------------
(* Small instances of ChatServer for TLC. *)
EXTENDS ChatServer, TLC

CONSTANTS c1, c2, c3, t1, t2

TwoConns == {c1, c2}
ThreeConns == {c1, c2, c3}
OneThread == {t1}
TwoThreads == {t1, t2}
TwoFds == {4, 5}
ThreeFds == {4, 5, 6}

\* No formula below names a connection, and client threads are alike.
ConnsAndThreads == Permutations(ThreeConns) \cup Permutations(TwoThreads)
=============================================================================
