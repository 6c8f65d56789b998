------------------------------ MODULE RunStatus ------------------------------
(***************************************************************************)
(* What the history page promises about the status column of table runs:   *)
(* a run is queued, then running, then finished for good, and a finished   *)
(* run is changed by nothing but its deletion.  RunLifecycle, the handlers *)
(* and the engine that write the column concurrently, is checked against   *)
(* this module.                                                            *)
(***************************************************************************)
CONSTANT Runs

VARIABLE status

InFlight == {"queued", "running"}
Finished == {"completed", "failed", "aborted"}

Init == status = [r \in Runs |-> "none"]

\* Row r moves from a status in From to a status in To.
Move(r, From, To) ==
  /\ status[r] \in From
  /\ \E s \in To : status' = [status EXCEPT ![r] = s]

Queue(r)  == Move(r, {"none"}, {"queued"})
Begin(r)  == Move(r, {"queued"}, {"running"})
Finish(r) == Move(r, {"running"}, Finished)
Reject(r) == Move(r, {"queued"}, {"failed"})
Discard(r) == Move(r, InFlight, {"deleted"})
Delete(r) == Move(r, Finished, {"deleted"})

\* A run that was started ends, whatever it was doing.
Settle(r) == Finish(r) \/ Reject(r) \/ Discard(r)

Next == \E r \in Runs : Queue(r) \/ Begin(r) \/ Settle(r) \/ Delete(r)

Spec ==
  /\ Init
  /\ [][Next]_status
  /\ \A r \in Runs : WF_status(Settle(r))
=============================================================================
