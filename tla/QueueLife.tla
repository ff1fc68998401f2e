----------------------------- MODULE QueueLife -----------------------------
(***************************************************************************)
(* What the queue of tasks promises, with nothing of how it keeps it: the  *)
(* life of each task, one task at work at a time, no task before the ones  *)
(* it needs, none skipped while all it needs are done.  OperatorQueue is   *)
(* shown to implement it.                                                  *)
(***************************************************************************)
EXTENDS Naturals

CONSTANT Task
VARIABLES life, needs

lvars == <<life, needs>>
Ends == {"done", "failed", "stopped", "parked"}

Idle == \A t \in Task : life[t] # "running"
Met(t) == \A d \in needs[t] : life[d] = "done"

Init ==
  /\ life \in [Task -> {"waiting", "absent"}]
  /\ needs \in [Task -> SUBSET Task]

Becomes(t, s) == life' = [life EXCEPT ![t] = s] /\ UNCHANGED needs

Begins(t)   == life[t] = "waiting" /\ Idle /\ Met(t) /\ Becomes(t, "running")
Finishes(t) == life[t] = "running" /\ life'[t] \in Ends /\ Becomes(t, life'[t])
Skipped(t)  == life[t] = "waiting" /\ ~Met(t) /\ Becomes(t, "skipped")
IsAnswered(t) == life[t] = "parked" /\ life'[t] \in {"waiting", "stopped"} /\ Becomes(t, life'[t])

(* The operator's edits of the list: a task added, or put back to wait. *)
Added(t)    == /\ life[t] = "absent" /\ life' = [life EXCEPT ![t] = "waiting"]
               /\ \E n \in SUBSET Task : needs' = [needs EXCEPT ![t] = n]
PutBack(t)  == life[t] \in {"failed", "skipped", "stopped"} /\ Becomes(t, "waiting")

(* The bot was closed under a task that the operator had put back to wait   *)
(* while it was still at work: it waits.                                    *)
Abandoned(t) == life[t] = "running" /\ Becomes(t, "waiting")

Next == \E t \in Task : \/ Begins(t) \/ Finishes(t) \/ Skipped(t) \/ IsAnswered(t)
                        \/ Added(t) \/ PutBack(t) \/ Abandoned(t)

Spec == Init /\ [][Next]_lvars
=============================================================================
