--------------------------- MODULE MCKubeBackend ----------------------------
(* Instances of KubeBackend for TLC: the logs its workers write. *)
EXTENDS KubeBackend, TLC

CONSTANTS p1, p2

\* Two writes within one second, the second of two lines; and a worker that writes nothing.
ThreeAndNone == (p1 :> <<2, 3, 3>>) @@ (p2 :> <<>>)

\* Four lines: one write of two, then one in the same and one in the next second.
Four == p1 :> <<2, 2, 3, 4>>

\* One worker ends well, the other one with an uncaught exception.
OneFails == (p1 :> {0}) @@ (p2 :> {107})
EndsWell == p1 :> {0}
=============================================================================
