-------------------------- MODULE ThreadConstants --------------------------
(***************************************************************************)
(* The parameters of the programs of 9.Thread that are checked together.   *)
(***************************************************************************)
EXTENDS Naturals

CONSTANTS Target,           \* 5.mutex: argv[1]; 2 * Target fits an int
          K,                \* practice1: the number of letters, 3 there
          Windows, Total    \* practice2: its windows and clients, 3 and 20 there

ASSUME TargetAssumption == Target \in Nat
ASSUME KAssumption == K \in Nat \ {0}
ASSUME OfficeAssumption == Total \in Nat
=============================================================================
