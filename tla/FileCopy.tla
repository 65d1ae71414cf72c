------------------------------ MODULE FileCopy ------------------------------
(***************************************************************************)
(* What a transfer promises: the copy is at every moment the beginning of  *)
(* the file, it grows block by block, and success is reported only when it *)
(* is the whole file.  A block is named by its position.                   *)
(***************************************************************************)
EXTENDS Naturals, Sequences

VARIABLES size, copy, success

File == [i \in 1..size |-> i]

CInit == copy = <<>> /\ success = FALSE

CNext == /\ ~success
         /\ \/ copy' = copy
            \/ Len(copy) < size /\ copy' = Append(copy, File[Len(copy) + 1])
         /\ success' \in BOOLEAN
         /\ success' => copy' = File
         /\ UNCHANGED size

CSpec == CInit /\ [][CNext]_<<size, copy, success>>
=============================================================================
