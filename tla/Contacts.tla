------------------------------- MODULE Contacts -------------------------------
(***************************************************************************)
(* 5.link-list/dynamic: a sorted list of contacts that is read from a file *)
(* at the start and written to it at the end, by the menu or by a signal,  *)
(* whose handler may run between any two steps.  A save that is cut short  *)
(* leaves the first part of the file, which is what stdio has written.     *)
(***************************************************************************)
EXTENDS SequencesExt

CONSTANTS Names,   \* what is typed: [letter, upper]
          Most     \* contacts in the list

VARIABLES pc,      \* "off", "start", "load", "menu", "linked", "save" or "write"
          exists,  \* whether there is a file
          file,    \* contacts in it
          list,    \* contacts after the head, as far as they are linked
          rest,    \* those behind a node whose next is not set yet
          out,     \* the buffer of the file that is written
          freed,   \* the head is freed
          harmed   \* history: since the start a signal has met a list that is changed,
                   \* read or freed, or the program was killed, or a call failed

vars == <<pc, exists, file, list, rest, out, freed, harmed>>

HeadNode == [letter |-> 0, upper |-> TRUE]   \* a contact named HEAD_NODE

\* Defect: capital letters come before all small ones.
StrCmp(m, n) == IF m.upper # n.upper THEN n.upper ELSE m.letter > n.letter

\* nameCmp(m, n) > 0
Above(m, n) == m.letter > n.letter

Running == pc # "off"

\* The list is whole, and none of it is freed.
Intact == rest = <<>> /\ pc \in {"menu", "save", "write"} /\ ~freed

-----------------------------------------------------------------------------
(* linkListInit; the handlers are there before the list is *)

Start ==
  /\ ~Running /\ pc' = "start" /\ list' = <<>> /\ freed' = FALSE /\ harmed' = FALSE
  /\ UNCHANGED <<exists, file, rest, out>>

Open ==
  /\ pc = "start" /\ pc' = IF exists THEN "load" ELSE "off"
  /\ harmed' = ~exists /\ rest' = file
  /\ UNCHANGED <<exists, file, list, out, freed>>

ReadNode ==
  /\ pc = "load"
  /\ IF rest = <<>> THEN pc' = "menu" /\ UNCHANGED <<list, rest>>
     ELSE list' = Append(list, Head(rest)) /\ rest' = Tail(rest) /\ UNCHANGED pc
  /\ UNCHANGED <<exists, file, out, freed, harmed>>

-----------------------------------------------------------------------------
(* the menu *)

\* The node before is made to point to the new one, in front of the first that is
\* above it; then the new one to the rest.
Link(n) ==
  /\ pc = "menu" /\ Len(list) < Most
  /\ LET below == IF \E i \in DOMAIN list : Above(list[i], n)
                  THEN SelectInSeq(list, LAMBDA m : Above(m, n)) - 1 ELSE Len(list)
     IN  /\ list' = Append(SubSeq(list, 1, below), n)
         /\ rest' = SubSeq(list, below + 1, Len(list))
  /\ pc' = "linked"
  /\ UNCHANGED <<exists, file, out, freed, harmed>>

LinkRest ==
  /\ pc = "linked" /\ pc' = "menu" /\ list' = list \o rest /\ rest' = <<>>
  /\ UNCHANGED <<exists, file, out, freed, harmed>>

deleteNode(n) ==
  /\ pc = "menu"
  /\ list' = IF n \in Range(list) THEN RemoveAt(list, SelectInSeq(list, LAMBDA m : m = n)) ELSE list
  /\ UNCHANGED <<pc, exists, file, rest, out, freed, harmed>>

Exit == pc = "menu" /\ pc' = "save" /\ UNCHANGED <<exists, file, list, rest, out, freed, harmed>>

-----------------------------------------------------------------------------
(* linkListDestory *)

\* A node that is freed already is freed twice, which ends the program; fopen has
\* emptied the file by then.
Create ==
  /\ pc = "save" /\ exists' = TRUE /\ file' = <<>> /\ out' = <<>>
  /\ pc' = IF freed THEN "off" ELSE "write"
  /\ UNCHANGED <<list, rest, freed, harmed>>

CreateFails ==
  /\ pc = "save" /\ pc' = "off" /\ harmed' = TRUE
  /\ UNCHANGED <<exists, file, list, rest, out, freed>>

\* What fwrite returns is not below 0, whatever happens, so no failure is seen here.
saveNodeData(s, n) == IF n = HeadNode THEN s ELSE Append(s, n)
Kept(s) == FoldLeft(saveNodeData, <<>>, s)

\* A node is written to the buffer and freed; the head, which is freed first, is not.
\* stdio writes its buffer to the file when it is full.
Write ==
  /\ pc = "write" /\ Len(out) < Len(list)
  /\ out' = Append(out, list[Len(out) + 1]) /\ freed' = TRUE
  /\ file' \in {file, Kept(out')}
  /\ UNCHANGED <<pc, exists, list, rest, harmed>>

\* Defect: the last node is not written.
CloseBeforeLast ==
  /\ pc = "write" /\ Len(out) = Len(list)
  /\ pc' = "off" /\ freed' = TRUE
  /\ file' = Kept(IF out = <<>> THEN out ELSE Front(out))
  /\ UNCHANGED <<exists, list, rest, out, harmed>>

Close ==
  /\ pc = "write" /\ Len(out) = Len(list)
  /\ pc' = "off" /\ freed' = TRUE /\ file' = Kept(out)
  /\ UNCHANGED <<exists, list, rest, out, harmed>>

\* The rest of the buffer cannot be written: nobody looks at what fclose returns.
CloseFails ==
  /\ pc = "write" /\ Len(out) = Len(list)
  /\ pc' = "off" /\ freed' = TRUE /\ harmed' = TRUE
  /\ UNCHANGED <<exists, file, list, rest, out>>

-----------------------------------------------------------------------------
(* from outside *)

\* The handler saves.  Before there is a head it dies of it, as with one that is
\* freed.  Where a next is not set it dies, takes it for the end, or goes on with
\* the node behind one that was deleted, whose memory the new one has.
Signal ==
  /\ Running
  /\ pc' = "save" /\ harmed' = (harmed \/ ~Intact) /\ rest' = <<>>
  /\ list' \in IF pc = "linked" THEN {list \o SubSeq(rest, i, Len(rest)) : i \in 1 .. Len(rest) + 1}
               ELSE {list}
  /\ freed' \in IF Intact THEN {FALSE}
                ELSE IF pc = "start" \/ freed THEN {TRUE} ELSE BOOLEAN
  /\ UNCHANGED <<exists, file, out>>

Kill ==
  /\ Running /\ pc' = "off" /\ harmed' = TRUE /\ rest' = <<>>
  /\ UNCHANGED <<exists, file, list, out, freed>>

-----------------------------------------------------------------------------
InOrder(s) == \A i, j \in DOMAIN s : i < j => s[i].letter <= s[j].letter

Init ==
  /\ exists \in BOOLEAN
  /\ file \in IF exists THEN {<<>>} \cup {<<n>> : n \in Names} ELSE {<<>>}
  /\ pc = "off" /\ list = <<>> /\ rest = <<>> /\ out = <<>>
  /\ freed = FALSE /\ harmed = TRUE

Next == \/ Start \/ Open \/ ReadNode \/ LinkRest \/ Exit
        \/ Create \/ CreateFails \/ Write \/ Close \/ CloseFails \/ Signal \/ Kill
        \/ \E n \in Names : Link(n) \/ deleteNode(n)

Spec == Init /\ [][Next]_vars

-----------------------------------------------------------------------------
\* The contacts in the file are in the order of their names, capital letters like
\* small ones, wherever signals and the end of the program cut a change or a save
\* short (contacts.c:69-76, 90-99, 131-144).
Sorted == InOrder(file)

\* When the program has ended by its menu or by a signal, the file has every contact
\* of the list, unless one is named HEAD_NODE; but not where the signal meets a list
\* that is being changed, read or freed, nor where the file cannot be opened or written,
\* at which the program ends all the same (contacts.c:12-22, 81-100, main.c:13-18).
Saved == ~Running /\ ~harmed => file = Kept(list)
=============================================================================
