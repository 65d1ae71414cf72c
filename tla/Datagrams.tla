----------------------------- MODULE Datagrams -----------------------------
(***************************************************************************)
(* The network between a TFTP client and its server: two sets of datagrams *)
(* on their way, and what may go wrong with them.                          *)
(***************************************************************************)
EXTENDS Naturals, Sequences

CONSTANTS Sizes,      \* the lengths a file may have, in blocks
          Wrap,       \* block numbers on the wire are modulo Wrap (2^16)
          Networks    \* the combinations of faults to be considered

ASSUME DatagramsAssumption ==
  /\ Sizes \subseteq Nat /\ Wrap \in Nat \ {0, 1}
  /\ Networks \subseteq SUBSET {"lose", "repeat"}

VARIABLES size, faults, \* of this behaviour: the file and the network
          up, down      \* datagrams to the server, to the client

Wire(k) == k % Wrap

NetInit == size \in Sizes /\ faults \in Networks /\ up = {} /\ down = {}

\* What may be left of the datagrams D when m has been delivered: a network that
\* repeats may deliver it again.
Delivered(D, m) == {D \ {m}} \cup (IF "repeat" \in faults THEN {D} ELSE {})

Lose ==
  /\ "lose" \in faults
  /\ \/ \E m \in up : up' = up \ {m} /\ UNCHANGED down
     \/ \E m \in down : down' = down \ {m} /\ UNCHANGED up
  /\ UNCHANGED <<size, faults>>
=============================================================================
