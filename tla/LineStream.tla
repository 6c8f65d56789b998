----------------------------- MODULE LineStream -----------------------------
(***************************************************************************)
(* What following a log promises: whatever happens to the connection, the  *)
(* lines a container writes are taken one after another, in the order they *)
(* were written, none twice.  A log is given by how far each container has *)
(* written it and how far it has been read.                                *)
(***************************************************************************)
EXTENDS Naturals

CONSTANT Containers

VARIABLES written, read

streams == <<written, read>>

Init ==
  /\ written = [c \in Containers |-> 0]
  /\ read = [c \in Containers |-> 0]

Write(c) ==
  /\ written' = [written EXCEPT ![c] = @ + 1]
  /\ UNCHANGED read

Take(c) ==
  /\ read[c] < written[c]
  /\ read' = [read EXCEPT ![c] = @ + 1]
  /\ UNCHANGED written

Next == \E c \in Containers : Write(c) \/ Take(c)

Spec == Init /\ [][Next]_streams
=============================================================================
