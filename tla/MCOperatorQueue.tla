-------------------------- MODULE MCOperatorQueue --------------------------
(* Values for the constants of OperatorQueue that a .cfg cannot write. *)
EXTENDS OperatorQueue

AllListed == 1 .. N
AllButTheLast == 1 .. (N - 1)
SafeEdits == {"add", "take out", "again"}
ListEdits == {"add", "again"}
AnyEdit == Kinds
NotDone == {"failed", "skipped", "stopped"}
AnyEnd == {"done", "failed", "skipped", "stopped", "parked"}
=============================================================================
