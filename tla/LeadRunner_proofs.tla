--------------------------- MODULE LeadRunner_proofs ---------------------------
(***************************************************************************)
(* What LeadRunner's run shows of a small message holds of every one:      *)
(* whatever Settings allow, however many runs and however the folder       *)
(* changes.                                                                *)
(*                                                                         *)
(* The inductive invariant has six parts.  Shape and Bounds say where the  *)
(* run is and what its record may hold; Closes, Reasons, Folder and        *)
(* AfterStop each carry one of the properties through the steps at which   *)
(* it does not show: the reason of a try again, given when the attempt     *)
(* before was judged, must last through the card, the folder put back and  *)
(* the wait; the folder's changes must be of attempts on record, or a new  *)
(* one could be told that nothing changed by the one before it; and a      *)
(* record a run is to carry on with must be as good as the one it left.    *)
(***************************************************************************)
EXTENDS LeadRunner, TLAPS, SequenceTheorems, FiniteSetTheorems

-----------------------------------------------------------------------------
\* An attempt on record, a subtask of it, and the lead's record.
Attempt == [status : {"running", "done", "failed", "aborted"},
            side : {"none", "changed", "unknown"},
            run : Nat,
            by : {"lead", "settings", "operator", "after-stop"},
            told : {"given", "put back", "carry on", "nothing changed", "nothing"},
            start : SUBSET (Nat \X Nat),
            end : Endings \cup {"none"}]
Subtask == [attempts : Seq(Attempt), max : Nat]
Record == [rounds : Nat, subs : Seq(Subtask), limit : Nat]
How == [continued : BOOLEAN, restored : BOOLEAN, by : {"lead", "settings", "operator", "after-stop"}]

\* The run is at a subtask; one of its attempts is on record.
AtSubtask == {"open", "enter", "worker", "ended", "retryCard", "restore", "wait", "back"}
AttemptMade == AtSubtask \ {"open"}

Shape ==
    /\ step \in Steps /\ message \in Messages /\ status \in Ends \cup {"running"}
    /\ lead \in Record
    /\ before \in [lead : Record, sub : Nat]
    /\ chat \in [contractSent : BOOLEAN, format : 0..maxFormatRetries]
    /\ how \in How /\ sub \in Nat
    /\ stop \in BOOLEAN /\ held \in BOOLEAN
    /\ left \in SUBSET (Nat \X Nat)
    /\ runs \in Nat \ {0}
    /\ before.sub # 0 => step = "begin" /\ before.sub \in 1..Len(before.lead.subs)
    /\ sub <= Len(lead.subs)
    /\ step \in {"begin", "over"} => sub = 0
    /\ step \in AtSubtask => sub # 0
    /\ step \in AttemptMade => Now # 0
    /\ shown \in {"lead", "worker"}
    /\ step \in {"begin", "over", "tell", "held", "reply", "read", "card"} => shown = "lead"
    /\ step = "worker" => shown = "worker"

Bounds ==
    /\ runs = 1 \/ runs <= MaxRuns
    /\ lead.rounds + 1 <= maxIterations + runs
    /\ Len(lead.subs) <= lead.limit /\ lead.limit <= runs * maxSubtasks
    /\ before.sub # 0 =>
          /\ before.lead.rounds + 2 <= maxIterations + runs
          /\ Len(before.lead.subs) + maxSubtasks <= runs * maxSubtasks

\* The attempts of subtask n on a record.
Of(record, n) == record.subs[n].attempts

-----------------------------------------------------------------------------
(***************************************************************************)
(* What a change of one attempt does to a record, and what one more        *)
(* attempt does: said once here, so that no proof below opens a record.    *)
(***************************************************************************)

\* `next` is `record` with `attempt` for the k-th of subtask n.
OneChanged(record, next, n, k, attempt) ==
    /\ next \in Record
    /\ next.rounds = record.rounds /\ next.limit = record.limit
    /\ Len(next.subs) = Len(record.subs)
    /\ \A m \in 1..Len(record.subs) :
          /\ next.subs[m].max = record.subs[m].max
          /\ Len(Of(next, m)) = Len(Of(record, m))
          /\ \A j \in 1..Len(Of(record, m)) :
                Of(next, m)[j] = IF m = n /\ j = k THEN attempt ELSE Of(record, m)[j]

\* `next` is `record` with `attempt` as one more of subtask n.
OneMore(record, next, n, attempt) ==
    /\ next \in Record
    /\ next.rounds = record.rounds /\ next.limit = record.limit
    /\ Len(next.subs) = Len(record.subs)
    /\ \A m \in 1..Len(record.subs) :
          /\ next.subs[m].max = record.subs[m].max
          /\ Len(Of(next, m)) = IF m = n THEN Len(Of(record, m)) + 1 ELSE Len(Of(record, m))
          /\ \A j \in 1..Len(Of(record, m)) : Of(next, m)[j] = Of(record, m)[j]
    /\ Of(next, n)[Len(Of(record, n)) + 1] = attempt

\* `next` is `record` with `subtask` in place of its n-th, and other counts.
OnePut(record, next, n, subtask) ==
    /\ next \in Record
    /\ Len(next.subs) = Len(record.subs)
    /\ \A m \in 1..Len(record.subs) : next.subs[m] = IF m = n THEN subtask ELSE record.subs[m]

(* A record whose n-th subtask is another one. *)
LEMMA SubtaskPut ==
    ASSUME NEW record \in Record, NEW n \in 1..Len(record.subs), NEW s \in Subtask,
           NEW rounds \in Nat, NEW limit \in Nat
    PROVE  OnePut(record, [rounds |-> rounds, subs |-> [record.subs EXCEPT ![n] = s], limit |-> limit], n, s)
<1>1. record.subs \in Seq(Subtask)
    BY DEF Record
<1>2. [record.subs EXCEPT ![n] = s] \in Seq(Subtask)
    BY <1>1, ExceptSeq
<1>3. Len([record.subs EXCEPT ![n] = s]) = Len(record.subs)
    BY <1>1, ExceptSeq
<1>4. \A m \in 1..Len(record.subs) : [record.subs EXCEPT ![n] = s][m] = IF m = n THEN s ELSE record.subs[m]
    BY <1>1
<1> QED BY <1>2, <1>3, <1>4 DEF OnePut, Record

(* The same, with the counts the record has. *)
LEMMA SubtaskExchanged ==
    ASSUME NEW record \in Record, NEW n \in 1..Len(record.subs), NEW s \in Subtask
    PROVE  LET next == [record EXCEPT !.subs = [record.subs EXCEPT ![n] = s]]
           IN  /\ next \in Record
               /\ next.rounds = record.rounds /\ next.limit = record.limit
               /\ Len(next.subs) = Len(record.subs)
               /\ \A m \in 1..Len(record.subs) :
                     next.subs[m] = IF m = n THEN s ELSE record.subs[m]
<1>1. record.subs \in Seq(Subtask)
    BY DEF Record
<1>2. [record.subs EXCEPT ![n] = s] \in Seq(Subtask)
    BY <1>1, ExceptSeq
<1>3. Len([record.subs EXCEPT ![n] = s]) = Len(record.subs)
    BY <1>1, ExceptSeq
<1>4. \A m \in 1..Len(record.subs) : [record.subs EXCEPT ![n] = s][m] = IF m = n THEN s ELSE record.subs[m]
    BY <1>1
<1> QED BY <1>2, <1>3, <1>4 DEF Record

LEMMA AttemptChanged ==
    ASSUME NEW record \in Record, NEW n \in 1..Len(record.subs),
           NEW k \in 1..Len(Of(record, n)), NEW a \in Attempt
    PROVE  OneChanged(record, [record EXCEPT !.subs[n].attempts[k] = a], n, k, a)
<1> DEFINE s == [record.subs[n] EXCEPT !.attempts = [record.subs[n].attempts EXCEPT ![k] = a]]
<1>1. record.subs[n] \in Subtask
    BY DEF Record
<1>2. record.subs[n].attempts \in Seq(Attempt)
    BY <1>1 DEF Subtask
<1>3. [record.subs[n].attempts EXCEPT ![k] = a] \in Seq(Attempt)
    BY <1>2, ExceptSeq DEF Of
<1>4. /\ Len([record.subs[n].attempts EXCEPT ![k] = a]) = Len(record.subs[n].attempts)
      /\ \A j \in 1..Len(record.subs[n].attempts) :
            [record.subs[n].attempts EXCEPT ![k] = a][j] = IF j = k THEN a ELSE record.subs[n].attempts[j]
    BY <1>2, ExceptSeq DEF Of
<1>5. s \in Subtask /\ s.max = record.subs[n].max /\ s.attempts = [record.subs[n].attempts EXCEPT ![k] = a]
    BY <1>1, <1>3 DEF Subtask
<1>6. [record EXCEPT !.subs[n].attempts[k] = a] = [record EXCEPT !.subs = [record.subs EXCEPT ![n] = s]]
    OBVIOUS
<1> HIDE DEF s
<1> QED BY <1>4, <1>5, <1>6, SubtaskExchanged DEF OneChanged, Of

LEMMA AttemptAdded ==
    ASSUME NEW record \in Record, NEW n \in 1..Len(record.subs), NEW a \in Attempt
    PROVE  OneMore(record, [record EXCEPT !.subs[n].attempts = Append(@, a)], n, a)
<1> DEFINE s == [record.subs[n] EXCEPT !.attempts = Append(record.subs[n].attempts, a)]
<1>1. record.subs[n] \in Subtask
    BY DEF Record
<1>2. record.subs[n].attempts \in Seq(Attempt)
    BY <1>1 DEF Subtask
<1>3. /\ Append(record.subs[n].attempts, a) \in Seq(Attempt)
      /\ Len(Append(record.subs[n].attempts, a)) = Len(record.subs[n].attempts) + 1
      /\ \A j \in 1..Len(record.subs[n].attempts) :
            Append(record.subs[n].attempts, a)[j] = record.subs[n].attempts[j]
      /\ Append(record.subs[n].attempts, a)[Len(record.subs[n].attempts) + 1] = a
    BY <1>2, AppendProperties
<1>5. s \in Subtask /\ s.max = record.subs[n].max /\ s.attempts = Append(record.subs[n].attempts, a)
    BY <1>1, <1>3 DEF Subtask
<1>6. [record EXCEPT !.subs[n].attempts = Append(@, a)] = [record EXCEPT !.subs = [record.subs EXCEPT ![n] = s]]
    OBVIOUS
<1> HIDE DEF s
<1> QED BY <1>3, <1>5, <1>6, SubtaskExchanged DEF OneMore, Of

(* Two changes of one attempt are one. *)
LEMMA ChangedTwice ==
    ASSUME NEW record, NEW between, NEW next, NEW n, NEW k, NEW a, NEW b,
           OneChanged(record, between, n, k, a), OneChanged(between, next, n, k, b)
    PROVE  OneChanged(record, next, n, k, b)
BY DEF OneChanged

(* With a subtask at work, and one attempt of it made, both are on record. *)
LEMMA AtWork ==
    ASSUME Shape, step \in AtSubtask
    PROVE  /\ lead \in Record /\ sub \in 1..Len(lead.subs)
           /\ lead.subs[sub] \in Subtask
           /\ Attempts = Of(lead, sub) /\ Attempts \in Seq(Attempt) /\ Now \in Nat
           /\ \A j \in 1..Now : Attempts[j] \in Attempt
           /\ Now = Len(Of(lead, sub))
<1>1. lead \in Record /\ sub \in 1..Len(lead.subs)
    BY DEF Shape, Record
<1>2. lead.subs[sub] \in Subtask
    BY <1>1 DEF Record
<1>3. Attempts = Of(lead, sub) /\ Attempts \in Seq(Attempt)
    BY <1>2 DEF Subtask, Of, Attempts
<1>4. Now \in Nat /\ \A j \in 1..Now : Attempts[j] \in Attempt
    BY <1>3 DEF Now
<1>5. Now = Len(Of(lead, sub))
    BY <1>3 DEF Now
<1> QED BY <1>1, <1>2, <1>3, <1>4, <1>5

LEMMA AtAttempt ==
    ASSUME Shape, step \in AttemptMade
    PROVE  /\ step \in AtSubtask
           /\ lead \in Record /\ sub \in 1..Len(lead.subs)
           /\ Attempts = Of(lead, sub) /\ Attempts \in Seq(Attempt)
           /\ Now \in Nat /\ Now = Len(Of(lead, sub)) /\ Now \in 1..Len(Of(lead, sub))
           /\ Attempts[Now] \in Attempt /\ Attempts[1] \in Attempt
<1>1. step \in AtSubtask
    BY DEF AttemptMade
<1>2. Now # 0
    BY DEF Shape
<1>3. Now \in Nat /\ Now = Len(Of(lead, sub)) /\ \A j \in 1..Now : Attempts[j] \in Attempt
    BY <1>1, AtWork
<1>4. Now \in 1..Now /\ 1 \in 1..Now
    BY <1>2, <1>3
<1> QED BY <1>1, <1>3, <1>4, AtWork

LEMMA AttemptFields ==
    ASSUME NEW a \in Attempt, NEW over \in {"running", "done", "failed", "aborted"},
           NEW side \in {"none", "changed", "unknown"}, NEW end \in Endings \cup {"none"}
    PROVE  /\ [a EXCEPT !.status = over] \in Attempt
           /\ [a EXCEPT !.side = side] \in Attempt
           /\ [a EXCEPT !.end = end] \in Attempt
           /\ [a EXCEPT !.status = over, !.side = side] \in Attempt
           /\ [a EXCEPT !.end = end, !.side = side] \in Attempt
           /\ [[a EXCEPT !.status = over] EXCEPT !.side = side] = [a EXCEPT !.status = over, !.side = side]
           /\ [[a EXCEPT !.end = end] EXCEPT !.side = side] = [a EXCEPT !.end = end, !.side = side]
BY DEF Attempt

(* The attempt at work is closed: its status, and nothing else of the record. *)
LEMMA ClosedIs ==
    ASSUME Shape, step \in AttemptMade, NEW end \in {"done", "failed", "aborted"}
    PROVE  OneChanged(lead, Closed(end), sub, Now, [Attempts[Now] EXCEPT !.status = end])
<1> DEFINE a == [Attempts[Now] EXCEPT !.status = end]
<1>1. a \in Attempt
    BY AtAttempt, AttemptFields
<1>2. Closed(end) = [lead EXCEPT !.subs[sub].attempts[Now] = a]
    BY DEF Closed, Attempts
<1> HIDE DEF a
<1>3. OneChanged(lead, Closed(end), sub, Now, a)
    BY <1>1, <1>2, AtAttempt, AttemptChanged
<1> QED BY <1>3 DEF a

LEMMA CutShortIs ==
    ASSUME Shape, step \in AttemptMade, NEW end \in {"done", "failed", "aborted"}
    PROVE  OneChanged(lead, CutShort(end), sub, Now, [Attempts[Now] EXCEPT !.status = end, !.side = "none"])
<1> DEFINE a == [Attempts[Now] EXCEPT !.status = end]
           b == [Attempts[Now] EXCEPT !.status = end, !.side = "none"]
           c == Closed(end)
<1>1. OneChanged(lead, c, sub, Now, a)
    BY ClosedIs
<1>2. a \in Attempt /\ b \in Attempt /\ [a EXCEPT !.side = "none"] = b
    BY AtAttempt, AttemptFields
<1>3. CutShort(end) = [c EXCEPT !.subs[sub].attempts[Now] = [c.subs[sub].attempts[Now] EXCEPT !.side = "none"]]
    BY DEF CutShort
<1> HIDE DEF a, b, c
<1>4. c \in Record /\ sub \in 1..Len(c.subs) /\ Now \in 1..Len(Of(c, sub)) /\ c.subs[sub].attempts[Now] = a
    BY <1>1, AtAttempt DEF OneChanged, Of
<1>5. CutShort(end) = [c EXCEPT !.subs[sub].attempts[Now] = b]
    BY <1>2, <1>3, <1>4
<1>6. OneChanged(c, CutShort(end), sub, Now, b)
    BY <1>2, <1>4, <1>5, AttemptChanged
<1>7. OneChanged(lead, CutShort(end), sub, Now, b)
    BY <1>1, <1>6, ChangedTwice
<1> QED BY <1>7 DEF b

(* How the worker's task ended, and what it left. *)
LEMMA EndedIs ==
    ASSUME Shape, step \in AttemptMade, NEW end \in Endings, NEW side \in {"none", "changed", "unknown"}
    PROVE  OneChanged(lead, [lead EXCEPT !.subs[sub].attempts[Now].end = end,
                                         !.subs[sub].attempts[Now].side = side],
                      sub, Now, [Attempts[Now] EXCEPT !.end = end, !.side = side])
<1> DEFINE a == [Attempts[Now] EXCEPT !.end = end]
           b == [Attempts[Now] EXCEPT !.end = end, !.side = side]
           c == [lead EXCEPT !.subs[sub].attempts[Now] = a]
           d == [lead EXCEPT !.subs[sub].attempts[Now].end = end,
                             !.subs[sub].attempts[Now].side = side]
<1>2. a \in Attempt /\ b \in Attempt /\ [a EXCEPT !.side = side] = b
    BY AtAttempt, AttemptFields
<1>3. d = [c EXCEPT !.subs[sub].attempts[Now] = [c.subs[sub].attempts[Now] EXCEPT !.side = side]]
    BY DEF Attempts
<1> HIDE DEF a, b, d
<1>1. OneChanged(lead, c, sub, Now, a)
    BY <1>2, AtAttempt, AttemptChanged
<1> HIDE DEF c
<1>4. c \in Record /\ sub \in 1..Len(c.subs) /\ Now \in 1..Len(Of(c, sub)) /\ c.subs[sub].attempts[Now] = a
    BY <1>1, AtAttempt DEF OneChanged, Of
<1>5. d = [c EXCEPT !.subs[sub].attempts[Now] = b]
    BY <1>2, <1>3, <1>4
<1>6. OneChanged(c, d, sub, Now, b)
    BY <1>2, <1>4, <1>5, AttemptChanged
<1>7. OneChanged(lead, d, sub, Now, b)
    BY <1>1, <1>6, ChangedTwice
<1> QED BY <1>7 DEF b, d

(* A reply that counts leaves the subtasks. *)
LEMMA CountedIs ==
    ASSUME Shape
    PROVE  Counted \in Record /\ Counted.subs = lead.subs /\ Counted.limit = lead.limit
           /\ Counted.rounds = lead.rounds + 1
<1>1. lead \in Record
    BY DEF Shape
<1>2. lead.rounds + 1 \in Nat /\ lead.subs \in Seq(Subtask) /\ lead.limit \in Nat
    BY <1>1 DEF Record
<1>3. Counted = [rounds |-> lead.rounds + 1, subs |-> lead.subs, limit |-> lead.limit]
    BY <1>1 DEF Counted, Record
<1> QED BY <1>2, <1>3 DEF Record

(* A subtask given is one more of the record, with no attempt. *)
LEMMA GivenIs ==
    ASSUME Shape,
           NEW next, next = [Counted EXCEPT !.subs = Append(@, [attempts |-> <<>>, max |-> maxAttempts])]
    PROVE  /\ next \in Record /\ next.limit = lead.limit /\ next.rounds = lead.rounds + 1
           /\ Len(next.subs) = Len(lead.subs) + 1
           /\ \A m \in 1..Len(lead.subs) : next.subs[m] = lead.subs[m]
           /\ next.subs[Len(lead.subs) + 1] = [attempts |-> <<>>, max |-> maxAttempts]
<1> DEFINE new == [attempts |-> <<>>, max |-> maxAttempts]
<1>1. new \in Subtask
    BY LeadAssumption DEF Subtask
<1>2. lead.subs \in Seq(Subtask)
    BY DEF Shape, Record
<1>3. /\ next.subs = Append(lead.subs, new) /\ next.limit = lead.limit /\ next.rounds = lead.rounds + 1
      /\ next = [rounds |-> lead.rounds + 1, subs |-> Append(lead.subs, new), limit |-> lead.limit]
    BY CountedIs DEF Record
<1> HIDE DEF new
<1>4. /\ Append(lead.subs, new) \in Seq(Subtask)
      /\ Len(Append(lead.subs, new)) = Len(lead.subs) + 1
      /\ \A m \in 1..Len(lead.subs) : Append(lead.subs, new)[m] = lead.subs[m]
      /\ Append(lead.subs, new)[Len(lead.subs) + 1] = new
    BY <1>1, <1>2, AppendProperties
<1>5. next \in Record
  <2>1. Counted \in Record /\ Counted.rounds \in Nat /\ Counted.limit \in Nat
      BY CountedIs DEF Record
  <2> QED BY <1>3, <1>4, <2>1, CountedIs DEF Record
<1> QED BY <1>3, <1>4, <1>5 DEF new

(* An attempt that begins. *)
LEMMA BegunIs ==
    ASSUME Shape, step \in AtSubtask, NEW told \in {"given", "put back", "carry on", "nothing changed"},
           NEW attempt, attempt = [status |-> "running", side |-> "none", run |-> runs,
                                   by |-> how.by, told |-> told, start |-> left, end |-> "none"]
    PROVE  attempt \in Attempt /\ OneMore(lead, [lead EXCEPT !.subs[sub].attempts = Append(@, attempt)], sub, attempt)
<1>1. attempt \in Attempt
    BY DEF Shape, Attempt, How
<1> QED BY <1>1, AtWork, AttemptAdded

(* The record a run carries on with: the one chosen, its subtask with one attempt at least. *)
LEMMA TakenUpIs ==
    ASSUME Shape, CarriesOnSubtask
    PROVE  LET of == before.lead.subs
               had == IF of[before.sub].attempts = <<>> THEN <<HadNone>> ELSE of[before.sub].attempts
               most == IF Len(had) + 1 > maxAttempts THEN Len(had) + 1 ELSE maxAttempts
           IN  /\ before.sub \in 1..Len(of) /\ sub' = before.sub
               /\ had \in Seq(Attempt) /\ Len(had) # 0
               /\ OnePut(before.lead, lead', before.sub, [attempts |-> had, max |-> most])
               /\ lead'.rounds = before.lead.rounds + 1
               /\ lead'.limit = Len(of) + maxSubtasks
<1> DEFINE of == before.lead.subs
           had == IF of[before.sub].attempts = <<>> THEN <<HadNone>> ELSE of[before.sub].attempts
           most == IF Len(had) + 1 > maxAttempts THEN Len(had) + 1 ELSE maxAttempts
           s == [attempts |-> had, max |-> most]
<1>1. before.sub \in 1..Len(of) /\ before.lead \in Record /\ of \in Seq(Subtask)
    BY DEF Shape, CarriesOnSubtask, Record
<1>2. of[before.sub] \in Subtask
    BY <1>1
<1>3. HadNone \in Attempt
    BY DEF HadNone, Attempt
<1>4. had \in Seq(Attempt) /\ Len(had) # 0
  <2>1. of[before.sub].attempts \in Seq(Attempt)
      BY <1>2 DEF Subtask
  <2>2. <<HadNone>> \in Seq(Attempt) /\ Len(<<HadNone>>) = 1
      BY <1>3
  <2> QED BY <2>1, <2>2
<1>5. most \in Nat /\ Len(of) + maxSubtasks \in Nat /\ before.lead.rounds + 1 \in Nat
  <2>2. before.lead.rounds \in Nat /\ Len(of) \in Nat
      BY <1>1 DEF Record
  <2> HIDE DEF had, of
  <2>1. Len(had) \in Nat
      BY <1>4
  <2> QED BY <2>1, <2>2, LeadAssumption
<1>6. s \in Subtask
    BY <1>4, <1>5 DEF Subtask
<1>7. /\ sub' = before.sub
      /\ lead' = [rounds |-> before.lead.rounds + 1, limit |-> Len(of) + maxSubtasks,
                  subs |-> [of EXCEPT ![before.sub] = s]]
    BY DEF CarriesOnSubtask
<1> HIDE DEF s
<1>8. OnePut(before.lead, lead', before.sub, s)
    BY <1>1, <1>5, <1>6, <1>7, SubtaskPut
<1>9. lead'.rounds = before.lead.rounds + 1 /\ lead'.limit = Len(of) + maxSubtasks
    BY <1>7
<1> QED BY <1>1, <1>4, <1>7, <1>8, <1>9 DEF s

-----------------------------------------------------------------------------
(***************************************************************************)
(* What the steps do to the record, in a few kinds: the run is over, the   *)
(* lead is spoken to, and each step at a subtask.                          *)
(***************************************************************************)
Talking == {"tell", "held", "reply", "read", "card"}

EndsTheRun ==
    \E end \in Ends :
       \/ step \notin {"enter", "worker", "ended"} /\ FinishWith(end, lead)
       \/ step = "read" /\ lead.rounds < maxIterations /\ FinishWith(end, Counted)
       \/ /\ step \in {"enter", "ended"}
          /\ \E st \in {"aborted", "failed"} : FinishWith(end, CutShort(st))

SpeaksToLead ==
    /\ \/ step = "begin" /\ before.sub = 0
       \/ step \in Talking
       \/ step = "back"
    /\ step' \in Talking /\ message' \in Messages
    /\ lead' = lead \/ (step = "read" /\ lead.rounds < maxIterations /\ lead' = Counted)
    /\ chat' \in [contractSent : BOOLEAN, format : 0..maxFormatRetries]
    /\ shown' = "lead"
    /\ UNCHANGED <<status, sub, how, left, outside>>

Presses ==
    /\ UNCHANGED <<step, message, status, lead, chat, sub, how, shown, left, before, runs, killed>>
    /\ stop' \in BOOLEAN /\ held' \in BOOLEAN

LEMMA FinishKinds ==
    ASSUME Shape,
           \/ StoppedAtThePace \/ StoppedWhileHeld \/ ChatFails \/ ReplyTimesOut
           \/ ReadsAfterStop \/ RepliesUsed \/ LeadEnds \/ CardStopped
           \/ WorkerNotEntered \/ EndedInClosedWindow \/ EndedAfterStop
           \/ RetryCardStopped \/ WaitStopped \/ LeadNotEntered
    PROVE  EndsTheRun
<1>1. \A what : EndOfThrow(what) \in Ends
    BY DEF EndOfThrow, Ends, Shape
<1>2. CASE StoppedAtThePace \/ StoppedWhileHeld \/ ChatFails \/ ReplyTimesOut
    BY <1>1, <1>2 DEF StoppedAtThePace, StoppedWhileHeld, ChatFails, ReplyTimesOut, Finish, EndsTheRun, Ends
<1>3. CASE ReadsAfterStop \/ RepliesUsed \/ LeadEnds \/ CardStopped
    BY <1>3 DEF ReadsAfterStop, RepliesUsed, LeadEnds, MayRead, CardStopped, Finish, EndsTheRun, Ends
<1>4. CASE WorkerNotEntered \/ EndedInClosedWindow \/ EndedAfterStop
    BY <1>1, <1>4 DEF WorkerNotEntered, EndedInClosedWindow, EndedAfterStop, ThrowInAttempt, EndsTheRun, Ends
<1>5. CASE RetryCardStopped \/ WaitStopped \/ LeadNotEntered
    BY <1>1, <1>5 DEF RetryCardStopped, WaitStopped, LeadNotEntered, Finish, EndsTheRun, Ends
<1> QED BY <1>2, <1>3, <1>4, <1>5

LEMMA TalkKinds ==
    ASSUME Shape,
           \/ Begins \/ HoldsMessage \/ Sends \/ GetsReply \/ BadReply
           \/ AnsweredAtOnce \/ PutsACard \/ CardAnswered \/ BackToLead
    PROVE  EndsTheRun \/ SpeaksToLead
<1> USE DEF Shape, SpeaksToLead, EndsTheRun, Talking, Messages, Ends, Tell, GoTo, Finish, outside
<1>1. CASE Begins
    BY <1>1 DEF Begins
<1>2. CASE HoldsMessage \/ Sends
    BY <1>2 DEF HoldsMessage, Sends
<1>3. CASE GetsReply
    BY <1>3 DEF GetsReply
<1>4. CASE BadReply
  <2>1. CASE chat.format + 1 > maxFormatRetries
      BY <1>4, <2>1 DEF BadReply, MayRead
  <2>2. CASE ~(chat.format + 1 > maxFormatRetries)
    <3>1. [chat EXCEPT !.format = @ + 1] \in [contractSent : BOOLEAN, format : 0..maxFormatRetries]
      <4>1. chat.format + 1 \in 0..maxFormatRetries
          BY <2>2, LeadAssumption
      <4> QED BY <4>1
    <3> QED BY <1>4, <2>2, <3>1 DEF BadReply, MayRead
  <2> QED BY <2>1, <2>2
<1>5. CASE AnsweredAtOnce \/ PutsACard
  <2>1. InFormat \in [contractSent : BOOLEAN, format : 0..maxFormatRetries]
      BY LeadAssumption DEF InFormat
  <2> QED BY <1>5, <2>1 DEF AnsweredAtOnce, PutsACard, MayRead
<1>6. CASE CardAnswered \/ BackToLead
    BY <1>6 DEF CardAnswered, BackToLead
<1> QED BY <1>1, <1>2, <1>3, <1>4, <1>5, <1>6

LEMMA PressKinds ==
    ASSUME Shape, PressStop \/ PressPause \/ PressContinue
    PROVE  Presses
BY DEF Presses, PressStop, PressPause, PressContinue, run, Shape

LEMMA StepKinds ==
    ASSUME Shape, Next
    PROVE  \/ EndsTheRun \/ SpeaksToLead \/ Presses \/ Kill \/ CarryOn \/ chatRetrySubtask
           \/ CarriesOnSubtask \/ Delegates \/ OpensAttempt \/ EntersWorker \/ WorkerEnds
           \/ Judges \/ RetryAnswered \/ Restores \/ CannotRestore \/ WaitOver
BY FinishKinds, TalkKinds, PressKinds DEF Next, Runner

-----------------------------------------------------------------------------
(* A subtask and its attempts are there whenever they are spoken of. *)
LEMMA EmptyRecord == EmptyLead \in Record /\ Len(EmptyLead.subs) = 0 /\ EmptyLead.subs = <<>>
BY LeadAssumption DEF EmptyLead, Record

LEMMA NothingYet ==
    /\ FirstHow \in How
    /\ NoChoice \in [lead : Record, sub : Nat] /\ NoChoice.sub = 0
BY EmptyRecord DEF FirstHow, How, NoChoice

LEMMA ShapeInit == Init => Shape
<1> SUFFICES ASSUME Init PROVE Shape
    OBVIOUS
<1>1. chat \in [contractSent : BOOLEAN, format : 0..maxFormatRetries]
    BY LeadAssumption DEF Init
<1>2. lead \in Record /\ how \in How /\ before \in [lead : Record, sub : Nat] /\ before.sub = 0
    BY EmptyRecord, NothingYet DEF Init
<1>3. step = "begin" /\ sub = 0 /\ Len(lead.subs) = 0
    BY EmptyRecord DEF Init
<1>4. step \notin AtSubtask /\ step \notin AttemptMade /\ step # "worker" /\ step \in Steps
    BY <1>3 DEF AtSubtask, AttemptMade, Steps
<1>5. left \in SUBSET (Nat \X Nat)
    BY DEF Init
<1>6. message \in Messages /\ status \in Ends \cup {"running"} /\ shown = "lead"
    BY DEF Init, Messages, Ends
<1>7. sub \in Nat /\ runs \in Nat \ {0}
    BY DEF Init
<1>8. stop \in BOOLEAN /\ held \in BOOLEAN
    BY DEF Init
<1> QED BY <1>1, <1>2, <1>3, <1>4, <1>5, <1>6, <1>7, <1>8 DEF Shape

(* A run that is over. *)
LEMMA ShapeOver ==
    ASSUME Shape, NEW record \in Record, status' \in Ends,
           step' = "over", lead' = record, Forgets, left' = left, runs' = runs
    PROVE  Shape'
<1>1. before' \in [lead : Record, sub : Nat] /\ before'.sub = 0 /\ how' \in How
    BY NothingYet DEF Forgets
<1>2. chat' \in [contractSent : BOOLEAN, format : 0..maxFormatRetries]
    BY LeadAssumption DEF Shape, Forgets
<1>3. Len(lead'.subs) \in Nat
    BY DEF Record
<1>4. step' \notin AtSubtask /\ step' \notin AttemptMade /\ step' # "worker" /\ step' \in Steps
    BY DEF AtSubtask, AttemptMade, Steps
<1>5. /\ message' \in Messages /\ status' \in Ends \cup {"running"} /\ shown' = "lead"
      /\ left' \in SUBSET (Nat \X Nat) /\ sub' = 0 /\ runs' \in Nat \ {0}
    BY DEF Shape, Forgets, Messages, Ends
<1>6. stop' \in BOOLEAN /\ held' \in BOOLEAN
    BY DEF Forgets
<1> QED BY <1>1, <1>2, <1>3, <1>4, <1>5, <1>6 DEF Shape

LEMMA ShapeEnds ==
    ASSUME Shape, EndsTheRun \/ Kill
    PROVE  Shape'
<1>1. CASE Kill
    BY <1>1, ShapeOver DEF Kill, Shape, Ends
<1>2. CASE EndsTheRun
  <2>1. PICK end \in Ends :
           \/ step \notin {"enter", "worker", "ended"} /\ FinishWith(end, lead)
           \/ step = "read" /\ lead.rounds < maxIterations /\ FinishWith(end, Counted)
           \/ /\ step \in {"enter", "ended"}
              /\ \E st \in {"aborted", "failed"} : FinishWith(end, CutShort(st))
      BY <1>2 DEF EndsTheRun
  <2>2. lead \in Record /\ Counted \in Record
      BY CountedIs DEF Shape
  <2>3. \A st \in {"aborted", "failed"} : step \in {"enter", "ended"} => CutShort(st) \in Record
      BY CutShortIs DEF OneChanged, AttemptMade, AtSubtask
  <2> QED BY <2>1, <2>2, <2>3, ShapeOver DEF FinishWith
<1> QED BY <1>1, <1>2

LEMMA ShapeTalks ==
    ASSUME Shape, SpeaksToLead \/ Presses
    PROVE  Shape'
<1>1. CASE SpeaksToLead
  <2>1. lead' \in Record /\ lead'.subs = lead.subs
      BY <1>1, CountedIs DEF SpeaksToLead, Shape
  <2> QED BY <1>1, <2>1 DEF SpeaksToLead, Talking, Shape, Steps, AtSubtask, AttemptMade, outside
<1>2. CASE Presses
    BY <1>2 DEF Presses, Shape, Attempts, Now
<1> QED BY <1>1, <1>2

LEMMA ShapeBegins ==
    ASSUME Shape, CarryOn \/ chatRetrySubtask
    PROVE  Shape'
<1>1. ASSUME NEW choice \in [lead : Record, sub : Nat], NewRun(choice),
             choice.sub # 0 => choice.sub \in 1..Len(choice.lead.subs),
             left' \in SUBSET (Nat \X Nat)
      PROVE  Shape'
  <2>1. runs' \in Nat \ {0}
      BY <1>1 DEF NewRun, Shape
  <2> QED BY <1>1, <2>1, EmptyRecord DEF NewRun, Shape, Steps, AtSubtask, AttemptMade
<1>2. CASE CarryOn
    BY <1>1, <1>2, NothingYet DEF CarryOn
<1>3. CASE chatRetrySubtask
  <2>1. PICK n \in DOMAIN lead.subs : NewRun([lead |-> lead, sub |-> n]) /\ left' = left
      BY <1>3 DEF chatRetrySubtask
  <2>2. lead \in Record /\ lead.subs \in Seq(Subtask) /\ n \in 1..Len(lead.subs) /\ n \in Nat
      BY <2>1 DEF Shape, Record
  <2> QED BY <1>1, <2>1, <2>2 DEF Shape
<1> QED BY <1>2, <1>3

LEMMA AtSubtaskSteps ==
    /\ AttemptMade = {"enter", "worker", "ended", "retryCard", "restore", "wait", "back"}
    /\ AttemptMade \subseteq AtSubtask /\ AtSubtask \subseteq Steps
BY DEF AttemptMade, AtSubtask, Steps

(* The worker's task ended: what it changed in the folder is not left unsaid. *)
LEMMA WorkerLeaves ==
    ASSUME Shape, WorkerEnds
    PROVE  \E end \in Endings, side \in {"none", "changed", "unknown"} :
              /\ step = "worker" /\ step' = "ended"
              /\ OneChanged(lead, lead', sub, Now, [Attempts[Now] EXCEPT !.end = end, !.side = side])
              /\ \/ left' = left
                 \/ left' = left \cup {<<sub, Now>>} /\ side # "none"
              /\ UNCHANGED <<message, status, chat, sub, how, shown, afterStop, outside>>
<1>1. PICK end \in Endings, e \in [ran : BOOLEAN, changed : BOOLEAN, cut : BOOLEAN, compared : BOOLEAN,
                                   readOnly : BOOLEAN] :
           /\ step = "worker" /\ step' = "ended"
           /\ e.changed \/ e.cut => e.ran
           /\ lead' = [lead EXCEPT !.subs[sub].attempts[Now].end = end,
                                   !.subs[sub].attempts[Now].side = sideEffectsOf(e)]
           /\ left' = IF e.changed THEN left \cup {<<sub, Now>>} ELSE left
           /\ UNCHANGED <<message, status, chat, sub, how, shown, afterStop, outside>>
    BY DEF WorkerEnds
<1>2. sideEffectsOf(e) \in {"none", "changed", "unknown"}
    BY DEF sideEffectsOf
<1>3. e.changed => sideEffectsOf(e) # "none"
    BY <1>1 DEF sideEffectsOf
<1> DEFINE side == sideEffectsOf(e)
<1> HIDE DEF side
<1>4. OneChanged(lead, lead', sub, Now, [Attempts[Now] EXCEPT !.end = end, !.side = side])
    BY <1>1, <1>2, EndedIs, AtSubtaskSteps DEF side
<1>5. left' = left \/ (left' = left \cup {<<sub, Now>>} /\ side # "none")
    BY <1>1, <1>3 DEF side
<1>6. side \in {"none", "changed", "unknown"}
    BY <1>2 DEF side
<1> QED BY <1>1, <1>4, <1>5, <1>6

(* An attempt that ended, once it is looked at: closed, and who decides what comes next. *)
LEMMA JudgedIs ==
    ASSUME Shape, Judges
    PROVE  \E mode \in Modes, canAsk \in BOOLEAN :
              LET side == Attempts[Now].side
                  plan == retryPlan(classifySubtaskEnd(Attempts[Now].end), side, mode, canAsk, Now, lead.subs[sub].max)
                  end == EndsAs(Attempts[Now].end)
              IN  /\ step = "ended" /\ end \in {"done", "failed", "aborted"}
                  /\ OneChanged(lead, lead', sub, Now, [Attempts[Now] EXCEPT !.status = end])
                  /\ step' = CASE plan = "lead" -> "back" [] plan = "ask" -> "retryCard" [] OTHER -> "wait"
                  /\ how' = IF plan = "retry"
                              THEN [continued |-> side = "changed", restored |-> FALSE, by |-> "settings"]
                              ELSE how
                  /\ UNCHANGED <<message, status, chat, sub, shown, left, afterStop, outside>>
<1>1. EndsAs(Attempts[Now].end) \in {"done", "failed", "aborted"}
    BY DEF EndsAs
<1>2. step = "ended" /\ lead' = Closed(EndsAs(Attempts[Now].end))
    BY DEF Judges
<1>3. OneChanged(lead, lead', sub, Now, [Attempts[Now] EXCEPT !.status = EndsAs(Attempts[Now].end)])
    BY <1>1, <1>2, ClosedIs, AtSubtaskSteps
<1>4. CanAsk \subseteq BOOLEAN
    BY LeadAssumption
<1> QED BY <1>1, <1>2, <1>3, <1>4 DEF Judges

(* A step from one place at a subtask to another, the record's lengths kept. *)
LEMMA ShapeAtSubtask ==
    ASSUME Shape, step \in AttemptMade, step' \in AtSubtask, step' = "worker" => shown' = "worker",
           lead' \in Record, Len(lead'.subs) = Len(lead.subs), Len(Of(lead', sub)) = Now,
           how' \in How, left' \in SUBSET (Nat \X Nat), shown' \in {"lead", "worker"},
           UNCHANGED <<message, status, chat, sub, stop, held, before, runs>>
    PROVE  Shape'
<1>1. Now' = Now /\ Now # 0
    BY AtAttempt DEF Now, Attempts, Of
<1>2. step' \in Steps /\ step' \notin {"begin", "over", "tell", "held", "reply", "read", "card"}
    BY DEF AtSubtask, Steps
<1>3. sub # 0 /\ before.sub = 0
    BY AtSubtaskSteps DEF Shape
<1> QED BY <1>1, <1>2, <1>3 DEF Shape

LEMMA ShapeWorks ==
    ASSUME Shape,
           \/ EntersWorker \/ WorkerEnds \/ Judges \/ RetryAnswered
           \/ Restores \/ CannotRestore \/ WaitOver
    PROVE  Shape'
<1>a. ASSUME step \in AttemptMade, lead' = lead
      PROVE  lead' \in Record /\ Len(lead'.subs) = Len(lead.subs) /\ Len(Of(lead', sub)) = Now
    BY <1>a, AtAttempt
<1>b. ASSUME step \in AttemptMade, NEW a, OneChanged(lead, lead', sub, Now, a)
      PROVE  lead' \in Record /\ Len(lead'.subs) = Len(lead.subs) /\ Len(Of(lead', sub)) = Now
    BY <1>b, AtAttempt DEF OneChanged
<1>c. how \in How /\ left \in SUBSET (Nat \X Nat) /\ shown \in {"lead", "worker"}
    BY DEF Shape
<1>1. CASE EntersWorker
    BY <1>1, <1>a, <1>c, ShapeAtSubtask, AtSubtaskSteps DEF EntersWorker, outside, AtSubtask
<1>2. CASE WorkerEnds
  <2>1. PICK end \in Endings, side \in {"none", "changed", "unknown"} :
           /\ step = "worker" /\ step' = "ended"
           /\ OneChanged(lead, lead', sub, Now, [Attempts[Now] EXCEPT !.end = end, !.side = side])
           /\ left' = left \/ left' = left \cup {<<sub, Now>>}
           /\ UNCHANGED <<message, status, chat, sub, how, shown, afterStop, outside>>
      BY <1>2, WorkerLeaves
  <2>2. step \in AttemptMade
      BY <2>1, AtSubtaskSteps
  <2>3. left' \in SUBSET (Nat \X Nat)
    <3>1. <<sub, Now>> \in Nat \X Nat
        BY <2>2, AtAttempt DEF Shape
    <3> QED BY <2>1, <3>1, <1>c
  <2> QED BY <2>1, <2>2, <2>3, <1>b, <1>c, ShapeAtSubtask DEF outside, AtSubtask
<1>3. CASE Judges
  <2>1. /\ step = "ended" /\ step' \in {"back", "retryCard", "wait"}
        /\ \E a : OneChanged(lead, lead', sub, Now, a)
        /\ how' = how \/ \E c \in BOOLEAN : how' = [continued |-> c, restored |-> FALSE, by |-> "settings"]
        /\ UNCHANGED <<message, status, chat, sub, shown, left, afterStop, outside>>
      BY <1>3, JudgedIs
  <2>2. step \in AttemptMade
      BY <2>1, AtSubtaskSteps
  <2>3. how' \in How
    <3>1. \A c \in BOOLEAN : [continued |-> c, restored |-> FALSE, by |-> "settings"] \in How
        BY DEF How
    <3> QED BY <2>1, <3>1, <1>c
  <2> QED BY <2>1, <2>2, <2>3, <1>b, <1>c, ShapeAtSubtask DEF outside, AtSubtask
<1>4. CASE RetryAnswered
  <2>1. how' \in How /\ step' \in {"back", "restore", "wait"}
      BY <1>4, <1>c DEF RetryAnswered, How, ChoicesOf
  <2> QED BY <1>4, <2>1, <1>a, <1>c, ShapeAtSubtask, AtSubtaskSteps DEF RetryAnswered, outside, AtSubtask
<1>5. CASE Restores
  <2>1. step \in AttemptMade
      BY <1>5, AtSubtaskSteps DEF Restores
  <2>2. left' \in SUBSET (Nat \X Nat)
      BY <1>5, <2>1, AtAttempt DEF Restores, Attempt
  <2>3. how' \in How
      BY <1>5 DEF Restores, How
  <2> QED BY <1>5, <2>1, <2>2, <2>3, <1>a, <1>c, ShapeAtSubtask DEF Restores, outside, AtSubtask
<1>6. CASE CannotRestore \/ WaitOver
    BY <1>6, <1>a, <1>c, ShapeAtSubtask, AtSubtaskSteps DEF CannotRestore, WaitOver, GoTo, outside, AtSubtask
<1> QED BY <1>1, <1>2, <1>3, <1>4, <1>5, <1>6

LEMMA ToldWords ==
    ASSUME NEW attempt
    PROVE  Told(attempt) \in {"given", "put back", "carry on", "nothing changed"}
BY DEF Told

(* The attempt begun is one more, on the folder as it is. *)
LEMMA OpensIs ==
    ASSUME Shape, OpensAttempt
    PROVE  /\ step = "open" /\ step' = "enter" /\ sub \in 1..Len(lead.subs)
           /\ \E a \in Attempt :
                 /\ OneMore(lead, lead', sub, a)
                 /\ a.status = "running" /\ a.run = runs /\ a.by = how.by
                 /\ a.told = Told(Now + 1) /\ a.start = left
           /\ Now = Len(Of(lead, sub)) /\ Now \in Nat /\ Now' = Now + 1
           /\ UNCHANGED <<message, status, chat, sub, how, shown, left, afterStop, outside>>
<1> DEFINE a == [status |-> "running", side |-> "none", run |-> runs,
                 by |-> how.by, told |-> Told(Now + 1), start |-> left, end |-> "none"]
<1>1. /\ step = "open" /\ step' = "enter" /\ lead' = [lead EXCEPT !.subs[sub].attempts = Append(@, a)]
      /\ UNCHANGED <<message, status, chat, sub, how, shown, left, afterStop, outside>>
    BY DEF OpensAttempt
<1>2. a \in Attempt /\ OneMore(lead, lead', sub, a)
    BY <1>1, BegunIs, ToldWords DEF AtSubtask
<1>3. /\ a.status = "running" /\ a.run = runs /\ a.by = how.by
      /\ a.told = Told(Now + 1) /\ a.start = left
    OBVIOUS
<1> HIDE DEF a
<1>4. sub \in 1..Len(lead.subs) /\ Now = Len(Of(lead, sub)) /\ Now \in Nat
    BY <1>1, AtWork DEF AtSubtask
<1>5. Now' = Now + 1
    BY <1>1, <1>2, <1>4 DEF OneMore, Now, Attempts, Of
<1> QED BY <1>1, <1>2, <1>3, <1>4, <1>5

(* The subtask given is one more, and none of it is attempted. *)
LEMMA DelegatesIs ==
    ASSUME Shape, Delegates
    PROVE  /\ step = "read" /\ step' = "open" /\ ~stop
           /\ Len(lead.subs) \in Nat /\ Len(lead'.subs) = Len(lead.subs) + 1
           /\ \A m \in 1..Len(lead.subs) : lead'.subs[m] = lead.subs[m]
           /\ Of(lead', Len(lead.subs) + 1) = <<>> /\ lead'.subs[Len(lead.subs) + 1].max = maxAttempts
           /\ sub' = Len(lead.subs) + 1 /\ how' = FirstHow
           /\ UNCHANGED <<left, outside>>
<1>1. lead'.subs[Len(lead.subs) + 1] = [attempts |-> <<>>, max |-> maxAttempts]
    BY GivenIs DEF Delegates
<1>2. Of(lead', Len(lead.subs) + 1) = <<>> /\ lead'.subs[Len(lead.subs) + 1].max = maxAttempts
    BY <1>1 DEF Of
<1>3. Len(lead.subs) \in Nat
    BY DEF Shape, Record
<1> QED BY <1>2, <1>3, GivenIs DEF Delegates, MayRead

LEMMA ShapeOpens ==
    ASSUME Shape, Delegates \/ CarriesOnSubtask \/ OpensAttempt
    PROVE  Shape'
<1>1. CASE Delegates
  <2>1. /\ lead' \in Record /\ Len(lead'.subs) = Len(lead.subs) + 1
        /\ step = "read" /\ step' = "open" /\ sub' = Len(lead.subs) + 1
        /\ chat' = InFormat /\ how' = FirstHow
        /\ UNCHANGED <<message, status, shown, left, afterStop, outside>>
      BY <1>1, GivenIs DEF Delegates, MayRead
  <2>2. chat' \in [contractSent : BOOLEAN, format : 0..maxFormatRetries]
      BY <2>1, LeadAssumption DEF Shape, InFormat
  <2>3. Len(lead.subs) \in Nat
      BY DEF Shape, Record
  <2> QED BY <2>1, <2>2, <2>3, NothingYet DEF Shape, Steps, AttemptMade, outside
<1>2. CASE CarriesOnSubtask
  <2>1. lead' \in Record /\ sub' \in 1..Len(lead'.subs) /\ sub' \in Nat /\ sub' # 0 /\ sub' <= Len(lead'.subs)
    <3>1. Len(lead'.subs) = Len(before.lead.subs) /\ lead' \in Record /\ sub' = before.sub
          /\ before.sub \in 1..Len(before.lead.subs)
        BY <1>2, TakenUpIs DEF OnePut
    <3>2. Len(before.lead.subs) \in Nat
        BY DEF Shape, Record
    <3> QED BY <3>1, <3>2
  <2>2. how' \in How
      BY <1>2 DEF CarriesOnSubtask, How
  <2>3. /\ step = "begin" /\ step' = "open" /\ before' = NoChoice
        /\ UNCHANGED <<message, status, chat, shown, left, stop, held, runs>>
      BY <1>2 DEF CarriesOnSubtask
  <2> QED BY <2>1, <2>2, <2>3, NothingYet DEF Shape, Steps, AttemptMade
<1>3. CASE OpensAttempt
  <2>1. /\ step = "open" /\ step' = "enter"
        /\ UNCHANGED <<message, status, chat, sub, how, shown, left, afterStop, outside>>
      BY <1>3 DEF OpensAttempt
  <2>2. PICK attempt : OneMore(lead, lead', sub, attempt)
      BY <1>3, ToldWords, BegunIs DEF OpensAttempt, AtSubtask
  <2>3. sub \in 1..Len(lead.subs) /\ Len(Of(lead, sub)) \in Nat
      BY <2>1, AtWork DEF AtSubtask
  <2>4. lead' \in Record /\ Len(lead'.subs) = Len(lead.subs) /\ Now' = Len(Of(lead, sub)) + 1
      BY <2>1, <2>2, <2>3 DEF OneMore, Now, Attempts, Of
  <2> QED BY <2>1, <2>3, <2>4 DEF Shape, Steps, AtSubtask, outside
<1> QED BY <1>1, <1>2, <1>3

LEMMA ShapeStep == Shape /\ [Next]_vars => Shape'
<1>1. ASSUME Shape, Next
      PROVE  Shape'
    BY <1>1, StepKinds, ShapeEnds, ShapeTalks, ShapeBegins, ShapeWorks, ShapeOpens
<1>2. ASSUME Shape, UNCHANGED vars
      PROVE  Shape'
    BY <1>2 DEF Shape, vars, Now, Attempts
<1> QED BY <1>1, <1>2

-----------------------------------------------------------------------------
(* The counts stay within what the runs so far may have given. *)
LEMMA BoundsStep ==
    ASSUME Shape, Bounds, [Next]_vars
    PROVE  Bounds'
<1>a. /\ maxIterations \in Nat \ {0} /\ maxSubtasks \in Nat \ {0} /\ MaxRuns \in Nat
      /\ runs \in Nat \ {0} /\ lead \in Record /\ before.lead \in Record
    BY LeadAssumption DEF Shape
<1>b. /\ lead.rounds \in Nat /\ lead.limit \in Nat /\ Len(lead.subs) \in Nat
      /\ before.lead.rounds \in Nat /\ Len(before.lead.subs) \in Nat
    BY <1>a DEF Record
<1>c. ASSUME lead'.rounds = lead.rounds, lead'.limit = lead.limit, Len(lead'.subs) = Len(lead.subs),
             runs' = runs, before' = before \/ before'.sub = 0
      PROVE  Bounds'
    BY <1>c DEF Bounds
<1>d. ASSUME lead' = lead, runs' = runs, before' = before \/ before'.sub = 0
      PROVE  Bounds'
    BY <1>d DEF Bounds
<1>e. ASSUME step = "read", lead.rounds < maxIterations, lead'.rounds = lead.rounds + 1, lead'.limit = lead.limit,
             Len(lead'.subs) <= lead.limit, runs' = runs, before' = before \/ before'.sub = 0
      PROVE  Bounds'
  <2>1. before'.sub = 0
      BY <1>e DEF Shape
  <2> QED BY <1>a, <1>b, <1>e, <2>1 DEF Bounds
<1>f. ASSUME step \in AttemptMade, NEW a, OneChanged(lead, lead', sub, Now, a), runs' = runs,
             before' = before \/ before'.sub = 0
      PROVE  Bounds'
    BY <1>f, <1>c DEF OneChanged
<1>g. ASSUME NEW choice, NewRun(choice),
             choice.sub # 0 => choice.lead = lead
      PROVE  Bounds'
  <2>1. runs' = runs + 1 /\ runs < MaxRuns /\ lead' = EmptyLead /\ before' = choice
      BY <1>g DEF NewRun
  <2>2. runs' * maxSubtasks = runs * maxSubtasks + maxSubtasks /\ runs * maxSubtasks \in Nat
      BY <1>a, <2>1
  <2>3. lead'.rounds = 0 /\ lead'.limit = maxSubtasks /\ Len(lead'.subs) = 0
      BY <2>1, EmptyRecord DEF EmptyLead
  <2>4. Len(lead.subs) <= runs * maxSubtasks /\ lead.rounds + 1 <= maxIterations + runs
      BY <1>a, <1>b, <2>2 DEF Bounds
  <2>5. before'.sub # 0 => before'.lead.rounds = lead.rounds /\ Len(before'.lead.subs) = Len(lead.subs)
      BY <1>g, <2>1
  <2>6. lead'.limit <= runs' * maxSubtasks /\ Len(lead'.subs) <= lead'.limit
      BY <1>a, <2>2, <2>3
  <2>7. before'.sub # 0 => Len(before'.lead.subs) + maxSubtasks <= runs' * maxSubtasks
      BY <1>a, <1>b, <2>2, <2>4, <2>5
  <2>8. /\ runs' <= MaxRuns /\ lead'.rounds + 1 <= maxIterations + runs'
        /\ before'.sub # 0 => before'.lead.rounds + 2 <= maxIterations + runs'
      BY <1>a, <1>b, <2>1, <2>3, <2>4, <2>5
  <2> QED BY <2>6, <2>7, <2>8 DEF Bounds
<1>1. CASE UNCHANGED vars
    BY <1>1, <1>d DEF vars
<1>2. CASE EndsTheRun
  <2>1. before'.sub = 0 /\ runs' = runs
      BY <1>2, NothingYet DEF EndsTheRun, FinishWith, Forgets
  <2>2. CASE lead' = lead
      BY <2>1, <2>2, <1>d
  <2>3. CASE step = "read" /\ lead.rounds < maxIterations /\ lead' = Counted
      BY <2>1, <2>3, <1>e, CountedIs DEF Bounds
  <2>4. CASE step \in {"enter", "ended"} /\ \E st \in {"aborted", "failed"} : lead' = CutShort(st)
      BY <2>1, <2>4, <1>f, CutShortIs, AtSubtaskSteps
  <2> QED BY <1>2, <2>2, <2>3, <2>4 DEF EndsTheRun, FinishWith
<1>3. CASE SpeaksToLead
  <2>1. runs' = runs /\ before' = before
      BY <1>3 DEF SpeaksToLead, outside
  <2>2. CASE lead' = lead
      BY <2>1, <2>2, <1>d
  <2>3. CASE step = "read" /\ lead.rounds < maxIterations /\ lead' = Counted
      BY <2>1, <2>3, <1>e, CountedIs DEF Bounds
  <2> QED BY <1>3, <2>2, <2>3 DEF SpeaksToLead
<1>4. CASE Presses \/ Kill
    BY <1>4, <1>d, NothingYet DEF Presses, Kill, Forgets
<1>5. CASE CarryOn
    BY <1>5, <1>g, NothingYet DEF CarryOn
<1>6. CASE chatRetrySubtask
    BY <1>6, <1>g DEF chatRetrySubtask
<1>7. CASE CarriesOnSubtask
  <2>1. /\ lead'.rounds = before.lead.rounds + 1 /\ lead'.limit = Len(before.lead.subs) + maxSubtasks
        /\ Len(lead'.subs) = Len(before.lead.subs)
      BY <1>7, TakenUpIs DEF OnePut
  <2>2. before.sub # 0 /\ before'.sub = 0 /\ runs' = runs
      BY <1>7, NothingYet DEF CarriesOnSubtask
  <2>3. /\ before.lead.rounds + 2 <= maxIterations + runs
        /\ Len(before.lead.subs) + maxSubtasks <= runs * maxSubtasks
        /\ runs = 1 \/ runs <= MaxRuns
      BY <2>2 DEF Bounds
  <2>4. lead'.rounds + 1 <= maxIterations + runs' /\ Len(lead'.subs) <= lead'.limit
      BY <1>a, <1>b, <2>1, <2>2, <2>3
  <2>5. lead'.limit <= runs' * maxSubtasks
      BY <2>1, <2>2, <2>3
  <2> QED BY <2>2, <2>3, <2>4, <2>5 DEF Bounds
<1>8. CASE Delegates
  <2>1. /\ lead'.limit = lead.limit /\ lead'.rounds = lead.rounds + 1 /\ Len(lead'.subs) = Len(lead.subs) + 1
        /\ step = "read" /\ lead.rounds < maxIterations /\ Len(lead.subs) < lead.limit
        /\ runs' = runs /\ before' = before
      BY <1>8, GivenIs DEF Delegates, MayRead, outside
  <2> QED BY <1>b, <2>1, <1>e
<1>9. CASE OpensAttempt
  <2>1. \E attempt : OneMore(lead, lead', sub, attempt)
      BY <1>9, ToldWords, BegunIs DEF OpensAttempt, AtSubtask
  <2> QED BY <1>9, <2>1, <1>c DEF OneMore, OpensAttempt, outside
<1>10. CASE WorkerEnds
  <2>1. /\ step = "worker" /\ runs' = runs /\ before' = before
        /\ \E a : OneChanged(lead, lead', sub, Now, a)
      BY <1>10, WorkerLeaves DEF outside
  <2> QED BY <2>1, <1>f, AtSubtaskSteps
<1>11. CASE Judges
  <2>1. /\ step = "ended" /\ runs' = runs /\ before' = before
        /\ \E a : OneChanged(lead, lead', sub, Now, a)
      BY <1>11, JudgedIs DEF outside
  <2> QED BY <2>1, <1>f, AtSubtaskSteps
<1>12. CASE EntersWorker \/ RetryAnswered \/ Restores \/ CannotRestore \/ WaitOver
    BY <1>12, <1>d DEF EntersWorker, RetryAnswered, Restores, CannotRestore, WaitOver, GoTo, outside
<1> QED BY <1>1, <1>2, <1>3, <1>4, <1>5, <1>6, <1>7, <1>8, <1>9, <1>10, <1>11, <1>12, StepKinds

(* What is in a record. *)
LEMMA InRecord ==
    ASSUME NEW record \in Record
    PROVE  /\ DOMAIN record.subs = 1..Len(record.subs) /\ Len(record.subs) \in Nat
           /\ \A n \in 1..Len(record.subs) :
                 /\ record.subs[n] \in Subtask
                 /\ Of(record, n) = record.subs[n].attempts
                 /\ Of(record, n) \in Seq(Attempt)
                 /\ DOMAIN Of(record, n) = 1..Len(Of(record, n)) /\ Len(Of(record, n)) \in Nat
                 /\ \A k \in 1..Len(Of(record, n)) : Of(record, n)[k] \in Attempt
<1>1. record.subs \in Seq(Subtask)
    BY DEF Record
<1>2. ASSUME NEW n \in 1..Len(record.subs)
      PROVE  record.subs[n] \in Subtask /\ Of(record, n) = record.subs[n].attempts /\ Of(record, n) \in Seq(Attempt)
  <2>1. record.subs[n] \in Subtask
      BY <1>1
  <2> QED BY <2>1 DEF Subtask, Of
<1>3. ASSUME NEW n \in 1..Len(record.subs), Of(record, n) \in Seq(Attempt)
      PROVE  /\ DOMAIN Of(record, n) = 1..Len(Of(record, n)) /\ Len(Of(record, n)) \in Nat
             /\ \A k \in 1..Len(Of(record, n)) : Of(record, n)[k] \in Attempt
    BY <1>3
<1> QED BY <1>1, <1>2, <1>3

LEMMA TypeOKHolds == Shape /\ Bounds => TypeOK
<1> SUFFICES ASSUME Shape, Bounds PROVE TypeOK
    OBVIOUS
<1>a. /\ maxIterations \in Nat \ {0} /\ maxSubtasks \in Nat \ {0} /\ MaxRuns \in Nat
      /\ runs \in Nat \ {0} /\ lead \in Record /\ lead.rounds \in Nat
    BY LeadAssumption DEF Shape, Record
<1>1. lead.rounds \in 0..(maxIterations + MaxRuns)
    BY <1>a DEF Bounds
<1>2. sub \in 0..Len(lead.subs) /\ Len(lead.subs) <= lead.limit /\ lead.limit <= runs * maxSubtasks
    BY <1>a, InRecord DEF Bounds, Shape
<1>3. ASSUME NEW n \in DOMAIN lead.subs, NEW k \in DOMAIN lead.subs[n].attempts
      PROVE  lead.subs[n].attempts[k] \in Attempt
    BY <1>a, InRecord
<1>4. chat.format \in 0..maxFormatRetries
    BY DEF Shape
<1>5. /\ step \in {"tell", "held", "reply", "read", "card"} => shown = "lead"
      /\ step = "worker" => shown = "worker"
      /\ step \in Steps /\ message \in Messages /\ status \in Ends \cup {"running"}
      /\ shown \in {"lead", "worker"}
    BY DEF Shape
<1>6. \A n \in DOMAIN lead.subs : \A k \in DOMAIN lead.subs[n].attempts :
          LET a == lead.subs[n].attempts[k]
          IN  a.status \in {"running", "done", "failed", "aborted"}
              /\ a.side \in {"none", "changed", "unknown"}
    BY <1>3 DEF Attempt
<1> QED BY <1>1, <1>2, <1>4, <1>5, <1>6 DEF TypeOK

-----------------------------------------------------------------------------
(***************************************************************************)
(* No attempt is left running.  Carried on with, a record of a run before  *)
(* is looked at too: what it left running, the program's end had cut.      *)
(***************************************************************************)

\* On `record`, every attempt that runs is of a run that was cut, but for subtask n's k-th of this one.
RunsOnly(record, cut, this, n, k) ==
    \A m \in 1..Len(record.subs) : \A j \in 1..Len(Of(record, m)) :
       Of(record, m)[j].status = "running" =>
          Of(record, m)[j].run \in cut \/ (Of(record, m)[j].run = this /\ m = n /\ j = k)

\* On `record`, every attempt that runs is of a run that was cut.
CutOnly(record, cut) ==
    \A m \in 1..Len(record.subs) : \A j \in 1..Len(Of(record, m)) :
       Of(record, m)[j].status = "running" => Of(record, m)[j].run \in cut

UnderWay == {"enter", "worker", "ended"}

Closes ==
    /\ step \in UnderWay => RunsOnly(lead, killed, runs, sub, Now)
    /\ step \notin UnderWay => CutOnly(lead, killed)
    /\ before.sub # 0 => CutOnly(before.lead, killed)

LEMMA ClosesMeans == Shape /\ Closes => NoAttemptLeftRunning
<1> SUFFICES ASSUME Shape, Closes PROVE NoAttemptLeftRunning
    OBVIOUS
<1>1. DOMAIN lead.subs = 1..Len(lead.subs)
      /\ \A n \in 1..Len(lead.subs) : DOMAIN lead.subs[n].attempts = 1..Len(Of(lead, n))
                                       /\ lead.subs[n].attempts = Of(lead, n)
    BY InRecord DEF Shape
<1>2. CASE step \in UnderWay
    BY <1>1, <1>2 DEF NoAttemptLeftRunning, Closes, RunsOnly, UnderWay
<1>3. CASE step \notin UnderWay
    BY <1>1, <1>3 DEF NoAttemptLeftRunning, Closes, CutOnly, UnderWay
<1> QED BY <1>2, <1>3

LEMMA ClosesInit == Init => Closes
<1> SUFFICES ASSUME Init PROVE Closes
    OBVIOUS
<1>1. Len(lead.subs) = 0 /\ before.sub = 0 /\ step = "begin"
    BY EmptyRecord, NothingYet DEF Init
<1> QED BY <1>1 DEF Closes, CutOnly, UnderWay

LEMMA ClosedAll ==
    ASSUME NEW record \in Record, NEW next, NEW n, NEW k, NEW a, OneChanged(record, next, n, k, a),
           NEW cut, NEW this, RunsOnly(record, cut, this, n, k), a.status # "running"
    PROVE  CutOnly(next, cut)
<1> SUFFICES ASSUME NEW m \in 1..Len(record.subs), NEW j \in 1..Len(Of(record, m)),
                    Of(next, m)[j].status = "running"
             PROVE  Of(next, m)[j].run \in cut
    BY DEF OneChanged, CutOnly
<1>1. Of(next, m)[j] = IF m = n /\ j = k THEN a ELSE Of(record, m)[j]
    BY DEF OneChanged
<1>2. ~(m = n /\ j = k) /\ Of(next, m)[j] = Of(record, m)[j]
    BY <1>1
<1> QED BY <1>2 DEF RunsOnly

LEMMA ClosesStep ==
    ASSUME Shape, Closes, [Next]_vars
    PROVE  Closes'
<1>a. lead \in Record /\ before.lead \in Record
    BY DEF Shape
<1>b. ASSUME step \notin UnderWay, lead'.subs = lead.subs, step' \notin UnderWay, killed' = killed,
             before' = before \/ before'.sub = 0
      PROVE  Closes'
    BY <1>b DEF Closes, CutOnly, Of
<1>c. ASSUME step \in UnderWay, NEW a, OneChanged(lead, lead', sub, Now, a), step' \notin UnderWay,
             a.status # "running", killed' = killed, before' = before \/ before'.sub = 0
      PROVE  Closes'
    BY <1>a, <1>c, ClosedAll DEF Closes, CutOnly
<1>d. ASSUME NEW choice, NewRun(choice), step \notin UnderWay, choice.sub # 0 => choice.lead = lead
      PROVE  Closes'
  <2>1. Len(lead'.subs) = 0 /\ step' \notin UnderWay /\ killed' = killed /\ before' = choice
      BY <1>d, EmptyRecord DEF NewRun, UnderWay
  <2> QED BY <1>d, <2>1 DEF Closes, CutOnly
<1>1. CASE UNCHANGED vars
    BY <1>1 DEF vars, Closes, CutOnly, RunsOnly, Of, Now, Attempts
<1>2. CASE EndsTheRun
  <2>1. before'.sub = 0 /\ killed' = killed /\ step' \notin UnderWay
      BY <1>2, NothingYet DEF EndsTheRun, FinishWith, Forgets, UnderWay
  <2>2. CASE step \notin UnderWay /\ lead' = lead
      BY <2>1, <2>2, <1>b
  <2>3. CASE step = "read" /\ lead' = Counted
      BY <2>1, <2>3, <1>b, CountedIs DEF UnderWay
  <2>4. CASE step \in {"enter", "ended"} /\ \E st \in {"aborted", "failed"} : lead' = CutShort(st)
    <3>1. PICK st \in {"aborted", "failed"} : lead' = CutShort(st)
        BY <2>4
    <3>2. OneChanged(lead, lead', sub, Now, [Attempts[Now] EXCEPT !.status = st, !.side = "none"])
        BY <2>4, <3>1, CutShortIs, AtSubtaskSteps
    <3>3. [Attempts[Now] EXCEPT !.status = st, !.side = "none"].status = st
      <4>1. Attempts[Now] \in Attempt
          BY <2>4, AtAttempt, AtSubtaskSteps
      <4> QED BY <4>1 DEF Attempt
    <3> QED BY <2>1, <2>4, <3>2, <3>3, <1>c DEF UnderWay
  <2> QED BY <1>2, <2>2, <2>3, <2>4 DEF EndsTheRun, FinishWith, UnderWay
<1>3. CASE SpeaksToLead
  <2>1. killed' = killed /\ before' = before /\ lead'.subs = lead.subs
      BY <1>3, CountedIs DEF SpeaksToLead, outside
  <2> QED BY <1>3, <2>1, <1>b DEF SpeaksToLead, Talking, UnderWay
<1>4. CASE Presses
    BY <1>4 DEF Presses, Closes, CutOnly, RunsOnly, Of, Now, Attempts
<1>5. CASE Kill
  <2>1. /\ before'.sub = 0 /\ step' \notin UnderWay /\ lead' = lead
        /\ killed' = IF step \in UnderWay THEN killed \cup {runs} ELSE killed
      BY <1>5, NothingYet DEF Kill, Forgets, UnderWay
  <2> QED BY <2>1 DEF Closes, CutOnly, RunsOnly
<1>6. CASE CarryOn
    BY <1>6, <1>d, NothingYet DEF CarryOn, NewRun, UnderWay
<1>7. CASE chatRetrySubtask
    BY <1>7, <1>d DEF chatRetrySubtask, NewRun, UnderWay
<1>8. CASE CarriesOnSubtask
  <2>1. before.sub # 0 /\ before'.sub = 0 /\ killed' = killed /\ step' \notin UnderWay
      BY <1>8, NothingYet DEF CarriesOnSubtask, UnderWay
  <2>2. PICK s : /\ OnePut(before.lead, lead', before.sub, s)
                 /\ s.attempts = IF Of(before.lead, before.sub) = <<>> THEN <<HadNone>>
                                 ELSE Of(before.lead, before.sub)
      BY <1>8, TakenUpIs DEF Of
  <2>3. Len(<<HadNone>>) = 1 /\ <<HadNone>>[1].status = "aborted"
      BY DEF HadNone
  <2>4. CutOnly(before.lead, killed)
      BY <2>1 DEF Closes
  <2>5. CutOnly(lead', killed)
    <3> SUFFICES ASSUME NEW m \in 1..Len(before.lead.subs), NEW j \in 1..Len(Of(lead', m)),
                        Of(lead', m)[j].status = "running"
                 PROVE  Of(lead', m)[j].run \in killed
        BY <2>2 DEF OnePut, CutOnly
    <3>1. CASE m = before.sub /\ Of(before.lead, m) = <<>>
        BY <2>2, <2>3, <3>1 DEF OnePut, Of
    <3>2. CASE m # before.sub \/ Of(before.lead, m) # <<>>
        BY <2>2, <2>4, <3>2 DEF OnePut, Of, CutOnly
    <3> QED BY <3>1, <3>2
  <2> QED BY <2>1, <2>5 DEF Closes
<1>9. CASE Delegates
  <2>1. /\ step = "read" /\ step' = "open" /\ killed' = killed /\ before' = before
        /\ Len(lead.subs) \in Nat /\ Len(lead'.subs) = Len(lead.subs) + 1
        /\ \A m \in 1..Len(lead.subs) : Of(lead', m) = Of(lead, m)
        /\ Of(lead', Len(lead.subs) + 1) = <<>>
      BY <1>9, DelegatesIs DEF outside, Of
  <2>2. CutOnly(lead', killed)
    <3> SUFFICES ASSUME NEW m \in 1..(Len(lead.subs) + 1), NEW j \in 1..Len(Of(lead', m)),
                        Of(lead', m)[j].status = "running"
                 PROVE  Of(lead', m)[j].run \in killed
        BY <2>1 DEF CutOnly
    <3>1. m \in 1..Len(lead.subs) \/ Len(Of(lead', m)) = 0
        BY <2>1
    <3>2. m \in 1..Len(lead.subs)
        BY <3>1
    <3> QED BY <2>1, <3>2 DEF Closes, CutOnly, UnderWay
  <2> QED BY <2>1, <2>2 DEF Closes, UnderWay
<1>10. CASE OpensAttempt
  <2>1. step = "open" /\ step' = "enter" /\ UNCHANGED <<sub, killed, before, runs>>
      BY <1>10 DEF OpensAttempt, outside
  <2>2. PICK a : OneMore(lead, lead', sub, a) /\ a.run = runs
      BY <1>10, OpensIs
  <2>3. sub \in 1..Len(lead.subs) /\ Now' = Len(Of(lead, sub)) + 1
      BY <1>10, OpensIs
  <2>4. \A m \in 1..Len(lead.subs) : Len(Of(lead, m)) \in Nat
      BY <1>a, InRecord
  <2>5. RunsOnly(lead', killed, runs, sub, Len(Of(lead, sub)) + 1)
      BY <2>1, <2>2, <2>3, <2>4 DEF Closes, CutOnly, RunsOnly, OneMore, UnderWay
  <2> QED BY <2>1, <2>3, <2>5 DEF Closes, UnderWay
<1>11. CASE EntersWorker
    BY <1>11 DEF EntersWorker, outside, Closes, UnderWay, RunsOnly, CutOnly, Now, Attempts, Of
<1>12. CASE WorkerEnds
  <2>1. PICK end \in Endings, side \in {"none", "changed", "unknown"} :
           /\ step = "worker" /\ step' = "ended"
           /\ OneChanged(lead, lead', sub, Now, [Attempts[Now] EXCEPT !.end = end, !.side = side])
           /\ UNCHANGED <<sub, outside>>
      BY <1>12, WorkerLeaves
  <2> DEFINE a == [Attempts[Now] EXCEPT !.end = end, !.side = side]
  <2>2. a.status = Attempts[Now].status /\ a.run = Attempts[Now].run /\ Attempts[Now] = Of(lead, sub)[Now]
        /\ Now' = Now
    <3>1. Attempts[Now] \in Attempt /\ Attempts = Of(lead, sub) /\ Now = Len(Of(lead, sub))
          /\ sub \in 1..Len(lead.subs)
        BY <2>1, AtAttempt, AtSubtaskSteps
    <3>2. Now' = Now
        BY <2>1, <3>1 DEF OneChanged, Now, Attempts, Of
    <3> QED BY <3>1, <3>2 DEF Attempt
  <2> HIDE DEF a
  <2>3. OneChanged(lead, lead', sub, Now, a)
      BY <2>1 DEF a
  <2>4. RunsOnly(lead', killed, runs, sub, Now)
    <3> SUFFICES ASSUME NEW m \in 1..Len(lead.subs), NEW j \in 1..Len(Of(lead, m)),
                        Of(lead', m)[j].status = "running"
                 PROVE  Of(lead', m)[j].run \in killed \/ (Of(lead', m)[j].run = runs /\ m = sub /\ j = Now)
        BY <2>3 DEF OneChanged, RunsOnly
    <3>1. Of(lead', m)[j].status = Of(lead, m)[j].status /\ Of(lead', m)[j].run = Of(lead, m)[j].run
        BY <2>2, <2>3 DEF OneChanged
    <3> QED BY <2>1, <3>1 DEF Closes, RunsOnly, UnderWay
  <2> QED BY <2>1, <2>2, <2>4 DEF Closes, UnderWay, outside
<1>13. CASE Judges
  <2>1. /\ step = "ended" /\ step' \in {"back", "retryCard", "wait"}
        /\ EndsAs(Attempts[Now].end) \in {"done", "failed", "aborted"}
        /\ OneChanged(lead, lead', sub, Now, [Attempts[Now] EXCEPT !.status = EndsAs(Attempts[Now].end)])
        /\ UNCHANGED outside
      BY <1>13, JudgedIs
  <2>2. [Attempts[Now] EXCEPT !.status = EndsAs(Attempts[Now].end)].status # "running"
    <3>1. Attempts[Now] \in Attempt
        BY <2>1, AtAttempt, AtSubtaskSteps
    <3> QED BY <2>1, <3>1 DEF Attempt
  <2> QED BY <2>1, <2>2, <1>c DEF UnderWay, outside
<1>14. CASE RetryAnswered \/ Restores \/ CannotRestore \/ WaitOver
    BY <1>14, <1>b DEF RetryAnswered, Restores, CannotRestore, WaitOver, GoTo, outside, UnderWay, ChoicesOf
<1> QED BY <1>1, <1>2, <1>3, <1>4, <1>5, <1>6, <1>7, <1>8, <1>9, <1>10, <1>11, <1>12, <1>13, <1>14, StepKinds

-----------------------------------------------------------------------------
(***************************************************************************)
(* Every try again had its reason, and what a subtask may have bounds      *)
(* them.  The reason is looked at when the attempt before is judged, and   *)
(* holds until the next one is begun: through the card, the folder put     *)
(* back and the wait.                                                      *)
(***************************************************************************)

\* Why an attempt given by `by` in run `this` may follow `prev`.
Reason(prev, by, this) ==
    CASE by = "settings" -> prev.end = "chat" /\ prev.side # "unknown"
      [] by = "operator" -> prev.end \in {"chat", "shell"}
      [] OTHER -> by = "after-stop" /\ prev.run < this

\* The tries at one subtask, of runs up to `last`.
GoodTries(tries, last) ==
    /\ \A k \in 1..Len(tries) : tries[k].run <= last
    /\ \A k \in 2..Len(tries) : Reason(tries[k-1], tries[k].by, tries[k].run)
    /\ Cardinality({k \in 1..Len(tries) : tries[k].by # "after-stop"}) <= maxAttempts

Reasoned(record, last) == \A n \in 1..Len(record.subs) : GoodTries(Of(record, n), last)

\* What is left of the attempts the subtask may have.
Room ==
    \/ lead.subs[sub].max = maxAttempts
    \/ Now >= lead.subs[sub].max
    \/ step = "open" /\ how.by = "after-stop" /\ Now + 1 = lead.subs[sub].max

\* The attempt to come may be made.
MayFollow ==
    /\ step \in AtSubtask => Room
    /\ step \in {"retryCard", "restore"} =>
          Attempts[Now].end \in {"chat", "shell"} /\ Now < lead.subs[sub].max
    /\ step = "wait" => how.by \in {"settings", "operator"}
    /\ step = "wait" \/ (step = "open" /\ Now # 0) =>
          /\ Reason(Attempts[Now], how.by, runs)
          /\ how.by # "after-stop" => Now < lead.subs[sub].max
    /\ step = "open" /\ Now = 0 => how.by = "lead"

Reasons ==
    /\ Reasoned(lead, runs)
    /\ before.sub # 0 => Reasoned(before.lead, runs - 1)
    /\ MayFollow

LEMMA ReasonsMean == Shape /\ Reasons => NotRetriedUnasked
<1> SUFFICES ASSUME Shape, Reasons, NEW n \in DOMAIN lead.subs
             PROVE  LET tries == lead.subs[n].attempts
                    IN  /\ \A k \in DOMAIN tries \ {1} :
                             CASE tries[k].by = "settings" -> tries[k-1].end = "chat" /\ tries[k-1].side # "unknown"
                               [] tries[k].by = "operator" -> tries[k-1].end \in {"chat", "shell"}
                               [] OTHER -> tries[k].by = "after-stop" /\ tries[k-1].run < tries[k].run
                        /\ Cardinality({k \in DOMAIN tries : tries[k].by # "after-stop"}) <= maxAttempts
    BY DEF NotRetriedUnasked
<1> DEFINE tries == Of(lead, n)
<1>1. lead \in Record
    BY DEF Shape
<1>2. n \in 1..Len(lead.subs) /\ DOMAIN tries = 1..Len(tries) /\ Len(tries) \in Nat
      /\ lead.subs[n].attempts = tries
    BY <1>1, InRecord
<1>3. GoodTries(tries, runs)
    BY <1>2 DEF Reasons, Reasoned
<1> HIDE DEF tries
<1>4. ASSUME NEW k \in DOMAIN tries \ {1}
      PROVE  k \in 2..Len(tries)
    BY <1>2
<1> QED BY <1>2, <1>3, <1>4 DEF GoodTries, Reason

(* A subset of an interval is no larger than the interval. *)
LEMMA CountOfPart ==
    ASSUME NEW n \in Nat, NEW T \in SUBSET (1..n)
    PROVE  IsFiniteSet(T) /\ Cardinality(T) \in Nat /\ Cardinality(T) <= n
<1>1. IsFiniteSet(1..n) /\ Cardinality(1..n) = n
    BY FS_Interval
<1>2. IsFiniteSet(T) /\ Cardinality(T) <= Cardinality(1..n)
    BY <1>1, FS_Subset
<1> QED BY <1>1, <1>2, FS_CardinalityType

(* The last try may change in anything but whose it is and the run it is of. *)
LEMMA TriesChanged ==
    ASSUME NEW tries \in Seq(Attempt), NEW next \in Seq(Attempt), NEW last,
           GoodTries(tries, last), Len(next) = Len(tries),
           \A k \in 1..Len(tries) : /\ next[k].by = tries[k].by /\ next[k].run = tries[k].run
                                    /\ k # Len(tries) => next[k] = tries[k]
    PROVE  GoodTries(next, last)
<1>1. {k \in 1..Len(next) : next[k].by # "after-stop"} = {k \in 1..Len(tries) : tries[k].by # "after-stop"}
    OBVIOUS
<1>2. Cardinality({k \in 1..Len(next) : next[k].by # "after-stop"}) <= maxAttempts
    BY <1>1 DEF GoodTries
<1>3. \A k \in 1..Len(next) : next[k].run <= last
    BY DEF GoodTries
<1>4. ASSUME NEW k \in 2..Len(next)
      PROVE  Reason(next[k-1], next[k].by, next[k].run)
  <2>1. k \in 1..Len(tries) /\ k-1 \in 1..Len(tries) /\ k-1 # Len(tries)
      OBVIOUS
  <2>2. next[k-1] = tries[k-1] /\ next[k].by = tries[k].by /\ next[k].run = tries[k].run
      BY <2>1
  <2>3. Reason(tries[k-1], tries[k].by, tries[k].run)
      BY DEF GoodTries
  <2> QED BY <2>2, <2>3
<1> QED BY <1>2, <1>3, <1>4 DEF GoodTries

(* One more try, with a reason, and room for it when it counts. *)
LEMMA TriesMore ==
    ASSUME NEW tries \in Seq(Attempt), NEW next \in Seq(Attempt), NEW last \in Nat,
           GoodTries(tries, last), Len(next) = Len(tries) + 1,
           \A k \in 1..Len(tries) : next[k] = tries[k],
           next[Len(tries) + 1].run <= last,
           Len(tries) # 0 => Reason(tries[Len(tries)], next[Len(tries) + 1].by, next[Len(tries) + 1].run),
           next[Len(tries) + 1].by = "after-stop" \/ Len(tries) < maxAttempts
    PROVE  GoodTries(next, last)
<1> DEFINE T == {k \in 1..Len(tries) : tries[k].by # "after-stop"}
           N == {k \in 1..Len(next) : next[k].by # "after-stop"}
           n == Len(tries)
<1>1. n \in Nat /\ maxAttempts \in Nat
    BY LeadAssumption
<1>2. IsFiniteSet(T) /\ Cardinality(T) \in Nat /\ Cardinality(T) <= n /\ Cardinality(T) <= maxAttempts
    BY <1>1, CountOfPart DEF GoodTries
<1>3. Cardinality(N) <= maxAttempts
  <2>1. CASE next[n + 1].by = "after-stop"
    <3>1. N = T
        BY <1>1, <2>1
    <3> QED BY <1>2, <3>1
  <2>2. CASE next[n + 1].by # "after-stop"
    <3>1. n + 1 <= maxAttempts /\ n + 1 \in Nat
        BY <1>1, <2>2
    <3>2. N \in SUBSET (1..(n + 1))
        BY <1>1
    <3>3. Cardinality(N) <= n + 1 /\ Cardinality(N) \in Nat
        BY <3>1, <3>2, CountOfPart
    <3> HIDE DEF N, n
    <3> QED BY <1>1, <3>1, <3>3
  <2> QED BY <2>1, <2>2
<1>4. \A k \in 1..Len(next) : next[k].run <= last
  <2> SUFFICES ASSUME NEW k \in 1..(n + 1) PROVE next[k].run <= last
      BY <1>1
  <2>1. CASE k = n + 1
      BY <2>1
  <2>2. CASE k \in 1..n
      BY <2>2 DEF GoodTries
  <2> QED BY <1>1, <2>1, <2>2
<1>5. ASSUME NEW k \in 2..Len(next)
      PROVE  Reason(next[k-1], next[k].by, next[k].run)
  <2>1. CASE k = n + 1
    <3>1. n # 0 /\ k - 1 = n /\ n \in 1..n
        BY <1>1, <2>1
    <3>2. next[k-1] = tries[n]
        BY <3>1
    <3> QED BY <2>1, <3>1, <3>2
  <2>2. CASE k # n + 1
    <3>1. k \in 2..n /\ k-1 \in 1..n /\ k \in 1..n
        BY <1>1, <2>2
    <3>2. next[k-1] = tries[k-1] /\ next[k] = tries[k]
        BY <3>1
    <3>3. Reason(tries[k-1], tries[k].by, tries[k].run)
        BY <3>1 DEF GoodTries
    <3> QED BY <3>2, <3>3
  <2> QED BY <2>1, <2>2
<1> QED BY <1>3, <1>4, <1>5 DEF GoodTries

(* None yet, and the one of a subtask the record has no attempt of. *)
LEMMA TriesOfNone ==
    ASSUME NEW last \in Nat
    PROVE  GoodTries(<<>>, last) /\ GoodTries(<<HadNone>>, last)
<1>1. GoodTries(<<>>, last)
  <2>1. {k \in 1..Len(<<>>) : <<>>[k].by # "after-stop"} \in SUBSET (1..0)
      OBVIOUS
  <2>2. Cardinality({k \in 1..Len(<<>>) : <<>>[k].by # "after-stop"}) <= 0
        /\ Cardinality({k \in 1..Len(<<>>) : <<>>[k].by # "after-stop"}) \in Nat
      BY <2>1, CountOfPart
  <2>3. Cardinality({k \in 1..Len(<<>>) : <<>>[k].by # "after-stop"}) <= maxAttempts
      BY <2>2, LeadAssumption
  <2> QED BY <2>3 DEF GoodTries
<1>2. GoodTries(<<HadNone>>, last)
  <2>1. {k \in 1..Len(<<HadNone>>) : <<HadNone>>[k].by # "after-stop"} \in SUBSET (1..1)
      OBVIOUS
  <2>2. Cardinality({k \in 1..Len(<<HadNone>>) : <<HadNone>>[k].by # "after-stop"}) <= 1
        /\ Cardinality({k \in 1..Len(<<HadNone>>) : <<HadNone>>[k].by # "after-stop"}) \in Nat
      BY <2>1, CountOfPart
  <2>3. Cardinality({k \in 1..Len(<<HadNone>>) : <<HadNone>>[k].by # "after-stop"}) <= maxAttempts
      BY <2>2, LeadAssumption
  <2>4. \A k \in 1..Len(<<HadNone>>) : <<HadNone>>[k].run <= last
      BY DEF HadNone
  <2> QED BY <2>3, <2>4 DEF GoodTries
<1> QED BY <1>1, <1>2

(* The tries of a run before are good in a later one. *)
LEMMA TriesLater ==
    ASSUME NEW tries \in Seq(Attempt), NEW last \in Nat, NEW later \in Nat, last <= later, GoodTries(tries, last)
    PROVE  GoodTries(tries, later)
<1>1. ASSUME NEW k \in 1..Len(tries)
      PROVE  tries[k].run <= later
  <2>a. tries[k] \in Attempt
      OBVIOUS
  <2>1. tries[k].run \in Nat /\ tries[k].run <= last
      BY <2>a DEF GoodTries, Attempt
  <2> QED BY <2>1
<1> QED BY <1>1 DEF GoodTries

(* A record with the subtasks it had is as good as it was; one whose last  *)
(* try at a subtask changed, too.                                          *)
LEMMA ReasonedStays ==
    ASSUME NEW record \in Record, NEW next \in Record, NEW last, Reasoned(record, last),
           next.subs = record.subs
    PROVE  Reasoned(next, last)
BY DEF Reasoned, Of

LEMMA ReasonedChanged ==
    ASSUME NEW record \in Record, NEW next, NEW n \in 1..Len(record.subs), NEW a, NEW last,
           OneChanged(record, next, n, Len(Of(record, n)), a), Reasoned(record, last),
           a.by = Of(record, n)[Len(Of(record, n))].by,
           a.run = Of(record, n)[Len(Of(record, n))].run
    PROVE  Reasoned(next, last)
<1> SUFFICES ASSUME NEW m \in 1..Len(record.subs) PROVE GoodTries(Of(next, m), last)
    BY DEF OneChanged, Reasoned
<1>1. Of(record, m) \in Seq(Attempt) /\ Of(next, m) \in Seq(Attempt)
    BY InRecord DEF OneChanged
<1>2. GoodTries(Of(record, m), last)
    BY DEF Reasoned
<1>3. Len(Of(next, m)) = Len(Of(record, m))
      /\ \A k \in 1..Len(Of(record, m)) :
            Of(next, m)[k] = IF m = n /\ k = Len(Of(record, n)) THEN a ELSE Of(record, m)[k]
    BY DEF OneChanged
<1>4. ASSUME NEW k \in 1..Len(Of(record, m))
      PROVE  /\ Of(next, m)[k].by = Of(record, m)[k].by /\ Of(next, m)[k].run = Of(record, m)[k].run
             /\ k # Len(Of(record, m)) => Of(next, m)[k] = Of(record, m)[k]
  <2>1. CASE m = n /\ k = Len(Of(record, n))
      BY <1>3, <2>1
  <2>2. CASE ~(m = n /\ k = Len(Of(record, n)))
      BY <1>3, <2>2
  <2> QED BY <2>1, <2>2
<1> QED BY <1>1, <1>2, <1>3, <1>4, TriesChanged

(* The attempt at work after a step that changed it, and after one that did not. *)
LEMMA WorkChanged ==
    ASSUME Shape, step \in AttemptMade, NEW a, OneChanged(lead, lead', sub, Now, a), sub' = sub
    PROVE  Now' = Now /\ Attempts'[Now'] = a /\ lead'.subs[sub].max = lead.subs[sub].max
           /\ Attempts'[1] = (IF Now = 1 THEN a ELSE Attempts[1])
<1>1. sub \in 1..Len(lead.subs) /\ Attempts = Of(lead, sub) /\ Now = Len(Of(lead, sub)) /\ Now \in 1..Now /\ Now \in Nat
    BY AtAttempt
<1>2. Attempts' = Of(lead', sub)
    BY DEF Attempts, Of
<1>3. Now' = Now
    BY <1>1, <1>2 DEF OneChanged, Now
<1> QED BY <1>1, <1>2, <1>3 DEF OneChanged

LEMMA WorkStays ==
    ASSUME lead'.subs = lead.subs, sub' = sub
    PROVE  Now' = Now /\ Attempts' = Attempts
BY DEF Now, Attempts

(* An attempt changed in how it ended, or in its status, is of the same run and by the same word. *)
LEMMA SameTry ==
    ASSUME NEW a \in Attempt, NEW end, NEW side, NEW over
    PROVE  /\ [a EXCEPT !.end = end, !.side = side].by = a.by
           /\ [a EXCEPT !.end = end, !.side = side].run = a.run
           /\ [a EXCEPT !.end = end, !.side = side].end = end
           /\ [a EXCEPT !.end = end, !.side = side].side = side
           /\ [a EXCEPT !.status = over].by = a.by
           /\ [a EXCEPT !.status = over].run = a.run
           /\ [a EXCEPT !.status = over].end = a.end
           /\ [a EXCEPT !.status = over].side = a.side
           /\ [a EXCEPT !.status = over, !.side = side].by = a.by
           /\ [a EXCEPT !.status = over, !.side = side].run = a.run
           /\ [a EXCEPT !.end = end, !.side = side].start = a.start
           /\ [a EXCEPT !.end = end, !.side = side].told = a.told
           /\ [a EXCEPT !.status = over].start = a.start
           /\ [a EXCEPT !.status = over].told = a.told
           /\ [a EXCEPT !.status = over, !.side = side].start = a.start
           /\ [a EXCEPT !.status = over, !.side = side].told = a.told
BY DEF Attempt

(* What is judged to be tried again ended for a technical reason, and may be had once more. *)
LEMMA PlanMeans ==
    ASSUME NEW mode \in Modes, NEW canAsk \in BOOLEAN, NEW end \in Endings \cup {"none"}, NEW side, NEW attempt \in Nat, NEW max \in Nat
    PROVE  LET plan == retryPlan(classifySubtaskEnd(end), side, mode, canAsk, attempt, max)
           IN  /\ plan \in {"lead", "ask", "retry"}
               /\ plan # "lead" => end \in {"chat", "shell", "none"} /\ attempt < max
               /\ plan # "lead" => end # "none"
               /\ plan = "retry" => end = "chat" /\ side # "unknown"
BY DEF retryPlan, classifySubtaskEnd, Endings

LEMMA MayFollowWorks ==
    ASSUME Shape, Reasons,
           EntersWorker \/ WorkerEnds \/ Judges \/ RetryAnswered \/ Restores \/ CannotRestore \/ WaitOver
    PROVE  MayFollow'
<1>a. ASSUME step \in AttemptMade
      PROVE  /\ sub \in 1..Len(lead.subs) /\ lead.subs[sub].max \in Nat
             /\ Now \in Nat /\ Now # 0 /\ step \in AtSubtask /\ Attempts[Now] \in Attempt
    BY <1>a, AtAttempt, InRecord DEF Subtask
<1>b. MayFollow
    BY DEF Reasons
<1>1. CASE EntersWorker
  <2>1. step = "enter" /\ step' = "worker" /\ Now' = Now /\ lead' = lead /\ sub' = sub
      BY <1>1, WorkStays DEF EntersWorker
  <2> QED BY <2>1, <1>a, <1>b, AtSubtaskSteps DEF MayFollow, Room
<1>2. CASE WorkerEnds
  <2>1. PICK a : step = "worker" /\ step' = "ended" /\ sub' = sub /\ OneChanged(lead, lead', sub, Now, a)
      BY <1>2, WorkerLeaves
  <2>2. Now' = Now /\ lead'.subs[sub].max = lead.subs[sub].max
      BY <2>1, WorkChanged, AtSubtaskSteps
  <2> QED BY <2>1, <2>2, <1>a, <1>b, AtSubtaskSteps DEF MayFollow, Room
<1>3. CASE Judges
  <2> DEFINE e == Attempts[Now].end
             side == Attempts[Now].side
             plan(mode, canAsk) == retryPlan(classifySubtaskEnd(e), side, mode, canAsk, Now, lead.subs[sub].max)
  <2>1. PICK mode \in Modes, canAsk \in BOOLEAN :
           /\ step = "ended" /\ EndsAs(e) \in {"done", "failed", "aborted"}
           /\ OneChanged(lead, lead', sub, Now, [Attempts[Now] EXCEPT !.status = EndsAs(e)])
           /\ step' = CASE plan(mode, canAsk) = "lead" -> "back" [] plan(mode, canAsk) = "ask" -> "retryCard" [] OTHER -> "wait"
           /\ how' = IF plan(mode, canAsk) = "retry"
                       THEN [continued |-> side = "changed", restored |-> FALSE, by |-> "settings"]
                       ELSE how
           /\ UNCHANGED <<message, status, chat, sub, shown, left, afterStop, outside>>
      BY <1>3, JudgedIs
  <2>2. step \in AttemptMade
      BY <2>1, AtSubtaskSteps
  <2>3. e \in Endings \cup {"none"} /\ lead.subs[sub].max \in Nat /\ Now \in Nat
      BY <2>2, <1>a DEF Attempt
  <2>4. /\ plan(mode, canAsk) \in {"lead", "ask", "retry"}
        /\ plan(mode, canAsk) # "lead" => e \in {"chat", "shell"} /\ Now < lead.subs[sub].max
        /\ plan(mode, canAsk) = "retry" => e = "chat" /\ side # "unknown"
    <3> HIDE DEF e, side
    <3> QED BY <2>3, PlanMeans
  <2> HIDE DEF plan
  <2>5. Now' = Now /\ lead'.subs[sub].max = lead.subs[sub].max
        /\ Attempts'[Now'] = [Attempts[Now] EXCEPT !.status = EndsAs(e)]
      BY <2>1, <2>2, WorkChanged
  <2>6. Attempts'[Now'].end = e /\ Attempts'[Now'].side = side
      BY <2>2, <2>5, <1>a, SameTry
  <2> HIDE DEF e, side
  <2>7. Room'
    <3>1. Room
        BY <2>2, <1>a, <1>b DEF MayFollow
    <3> QED BY <2>1, <2>5, <3>1 DEF Room
  <2>8. CASE plan(mode, canAsk) = "lead"
      BY <2>1, <2>7, <2>8 DEF MayFollow
  <2>9. CASE plan(mode, canAsk) = "ask"
      BY <2>1, <2>4, <2>5, <2>6, <2>7, <2>9 DEF MayFollow
  <2>10. CASE plan(mode, canAsk) = "retry"
    <3>1. step' = "wait" /\ how'.by = "settings"
        BY <2>1, <2>10
    <3>2. Reason(Attempts'[Now'], how'.by, runs')
        BY <2>4, <2>6, <2>10, <3>1 DEF Reason
    <3>3. Now' < lead'.subs[sub'].max
        BY <2>1, <2>4, <2>5, <2>10
    <3> QED BY <2>7, <3>1, <3>2, <3>3 DEF MayFollow
  <2> QED BY <2>4, <2>8, <2>9, <2>10
<1>4. CASE RetryAnswered
  <2>1. /\ step = "retryCard" /\ step' \in {"back", "restore", "wait"}
        /\ step' = "wait" => how'.by = "operator"
        /\ lead' = lead /\ sub' = sub
      BY <1>4 DEF RetryAnswered, ChoicesOf
  <2>2. Now' = Now /\ Attempts' = Attempts
      BY <2>1, WorkStays
  <2>3. Attempts[Now].end \in {"chat", "shell"} /\ Now < lead.subs[sub].max /\ Room
      BY <2>1, <1>a, <1>b, AtSubtaskSteps DEF MayFollow
  <2> QED BY <2>1, <2>2, <2>3 DEF MayFollow, Room, Reason
<1>5. CASE Restores
  <2>1. step = "restore" /\ step' = "wait" /\ how'.by = "operator" /\ lead' = lead /\ sub' = sub
      BY <1>5 DEF Restores
  <2>2. Now' = Now /\ Attempts' = Attempts
      BY <2>1, WorkStays
  <2>3. Attempts[Now].end \in {"chat", "shell"} /\ Now < lead.subs[sub].max /\ Room
      BY <2>1, <1>a, <1>b, AtSubtaskSteps DEF MayFollow
  <2> QED BY <2>1, <2>2, <2>3 DEF MayFollow, Room, Reason
<1>6. CASE CannotRestore \/ WaitOver
  <2>1. \/ step = "restore" /\ step' = "back"
        \/ step = "wait" /\ step' = "open"
      BY <1>6 DEF CannotRestore, WaitOver, GoTo
  <2>2. lead' = lead /\ sub' = sub /\ how' = how /\ runs' = runs
      BY <1>6 DEF CannotRestore, WaitOver, GoTo, outside
  <2>3. Now' = Now /\ Attempts' = Attempts /\ Now # 0 /\ step \in AtSubtask
      BY <2>1, <2>2, <1>a, WorkStays, AtSubtaskSteps
  <2>4. Room
      BY <2>3, <1>b DEF MayFollow
  <2>5. Room'
      BY <2>1, <2>2, <2>3, <2>4 DEF Room
  <2> QED BY <2>1, <2>2, <2>3, <2>5, <1>b DEF MayFollow
<1> QED BY <1>1, <1>2, <1>3, <1>4, <1>5, <1>6

LEMMA ReasonsInit == Init => Reasons
<1> SUFFICES ASSUME Init PROVE Reasons
    OBVIOUS
<1>1. Len(lead.subs) = 0 /\ before.sub = 0 /\ step = "begin"
    BY EmptyRecord, NothingYet DEF Init
<1> QED BY <1>1 DEF Reasons, Reasoned, MayFollow, AtSubtask

LEMMA ReasonsStep ==
    ASSUME Shape, Reasons, [Next]_vars
    PROVE  Reasons'
<1>a. lead \in Record /\ before.lead \in Record /\ runs \in Nat \ {0}
    BY DEF Shape
<1>b. ASSUME lead' \in Record, lead'.subs = lead.subs, runs' = runs, before' = before \/ before'.sub = 0, MayFollow'
      PROVE  Reasons'
    BY <1>a, <1>b, ReasonedStays DEF Reasons
<1>c. ASSUME step' \notin AtSubtask
      PROVE  MayFollow'
    BY <1>c DEF MayFollow, AtSubtask
<1>d. ASSUME step \in AttemptMade, NEW a, OneChanged(lead, lead', sub, Now, a),
             a.by = Attempts[Now].by, a.run = Attempts[Now].run,
             runs' = runs, before' = before \/ before'.sub = 0, MayFollow'
      PROVE  Reasons'
  <2>1. Reasoned(lead', runs)
      BY <1>a, <1>d, AtAttempt, ReasonedChanged DEF Reasons
  <2> QED BY <1>d, <2>1 DEF Reasons
<1>e. ASSUME NEW choice, NewRun(choice), choice.sub # 0 => choice.lead = lead
      PROVE  Reasons'
  <2>1. Len(lead'.subs) = 0 /\ before' = choice /\ runs' - 1 = runs /\ step' = "begin"
      BY <1>a, <1>e, EmptyRecord DEF NewRun
  <2>2. Reasoned(lead', runs') /\ MayFollow'
      BY <2>1, <1>c DEF Reasoned, AtSubtask
  <2> QED BY <1>e, <2>1, <2>2 DEF Reasons
<1>1. CASE UNCHANGED vars
  <2>1. Now' = Now /\ Attempts' = Attempts
      BY <1>1, WorkStays DEF vars
  <2>2. MayFollow'
      BY <1>1, <2>1 DEF vars, Reasons, MayFollow, Room
  <2> QED BY <1>1, <1>a, <1>b, <2>2 DEF vars
<1>2. CASE EndsTheRun
  <2>1. before'.sub = 0 /\ runs' = runs /\ MayFollow'
      BY <1>2, <1>c, NothingYet DEF EndsTheRun, FinishWith, Forgets, AtSubtask
  <2>2. CASE lead' = lead \/ lead' = Counted
      BY <2>1, <2>2, <1>a, <1>b, CountedIs
  <2>4. CASE step \in {"enter", "ended"} /\ \E st \in {"aborted", "failed"} : lead' = CutShort(st)
    <3>1. PICK st \in {"aborted", "failed"} : lead' = CutShort(st)
        BY <2>4
    <3>2. step \in AttemptMade
        BY <2>4, AtSubtaskSteps
    <3>3. OneChanged(lead, lead', sub, Now, [Attempts[Now] EXCEPT !.status = st, !.side = "none"])
        BY <3>1, <3>2, CutShortIs
    <3> DEFINE a == [Attempts[Now] EXCEPT !.status = st, !.side = "none"]
    <3>4. a.by = Attempts[Now].by /\ a.run = Attempts[Now].run
        BY <3>2, AtAttempt, SameTry
    <3>5. OneChanged(lead, lead', sub, Now, a)
        BY <3>3
    <3> HIDE DEF a
    <3> QED BY <2>1, <3>2, <3>4, <3>5, <1>d
  <2> QED BY <1>2, <2>2, <2>4 DEF EndsTheRun, FinishWith
<1>3. CASE SpeaksToLead
  <2>1. runs' = runs /\ before' = before /\ lead'.subs = lead.subs /\ lead' \in Record
      BY <1>3, <1>a, CountedIs DEF SpeaksToLead, outside
  <2> QED BY <1>3, <2>1, <1>b, <1>c DEF SpeaksToLead, Talking, AtSubtask
<1>4. CASE Presses
  <2>1. Now' = Now /\ Attempts' = Attempts
      BY <1>4, WorkStays DEF Presses
  <2>2. MayFollow'
      BY <1>4, <2>1 DEF Presses, Reasons, MayFollow, Room
  <2> QED BY <1>4, <2>2, <1>a, <1>b DEF Presses
<1>5. CASE Kill
    BY <1>5, <1>a, <1>b, <1>c, NothingYet DEF Kill, Forgets, AtSubtask
<1>6. CASE CarryOn
    BY <1>6, <1>e, NothingYet DEF CarryOn
<1>7. CASE chatRetrySubtask
    BY <1>7, <1>e DEF chatRetrySubtask
<1>8. CASE CarriesOnSubtask
  <2> DEFINE n == before.sub
             old == Of(before.lead, n)
             had == IF old = <<>> THEN <<HadNone>> ELSE old
             most == IF Len(had) + 1 > maxAttempts THEN Len(had) + 1 ELSE maxAttempts
  <2>1. /\ n \in 1..Len(before.lead.subs) /\ sub' = n
        /\ had \in Seq(Attempt) /\ Len(had) # 0
        /\ OnePut(before.lead, lead', n, [attempts |-> had, max |-> most])
      BY <1>8, TakenUpIs DEF Of
  <2>2. n # 0 /\ before'.sub = 0 /\ runs' = runs /\ step' = "open" /\ how'.by = "after-stop"
      BY <1>8, NothingYet DEF CarriesOnSubtask
  <2>3. Reasoned(before.lead, runs - 1) /\ runs - 1 \in Nat
      BY <2>2, <1>a DEF Reasons
  <2>4. old \in Seq(Attempt) /\ GoodTries(old, runs - 1)
      BY <2>1, <2>3, <1>a, InRecord DEF Reasoned
  <2>5. GoodTries(had, runs - 1)
      BY <2>3, <2>4, TriesOfNone
  <2>6. Attempts' = had /\ Now' = Len(had) /\ lead'.subs[n].max = most /\ Of(lead', n) = had
    <3>1. lead'.subs[n] = [attempts |-> had, max |-> most]
        BY <2>1 DEF OnePut
    <3>2. lead'.subs[n].attempts = had /\ lead'.subs[n].max = most
        BY <3>1
    <3> QED BY <2>1, <3>2 DEF Attempts, Now, Of
  <2> HIDE DEF had, old
  <2>7. Len(had) \in Nat /\ maxAttempts \in Nat
      BY <2>1, LeadAssumption
  <2>8. Reasoned(lead', runs)
    <3> SUFFICES ASSUME NEW m \in 1..Len(before.lead.subs) PROVE GoodTries(Of(lead', m), runs)
        BY <2>1 DEF OnePut, Reasoned
    <3>1. CASE m = n
        BY <1>a, <2>1, <2>3, <2>5, <2>6, <3>1, TriesLater
    <3>2. CASE m # n
      <4>1. Of(lead', m) = Of(before.lead, m)
          BY <2>1, <3>2 DEF OnePut, Of
      <4>2. Of(before.lead, m) \in Seq(Attempt) /\ GoodTries(Of(before.lead, m), runs - 1)
          BY <2>3, <1>a, InRecord DEF Reasoned
      <4> QED BY <1>a, <2>3, <4>1, <4>2, TriesLater
    <3> QED BY <3>1, <3>2
  <2>9. Reason(Attempts'[Now'], how'.by, runs')
    <3>1. had[Len(had)].run <= runs - 1 /\ had[Len(had)] \in Attempt
        BY <2>1, <2>5, <2>7 DEF GoodTries
    <3>2. had[Len(had)].run < runs
      <4>1. had[Len(had)].run \in Nat
          BY <3>1 DEF Attempt
      <4> QED BY <3>1, <4>1, <1>a
    <3> QED BY <2>2, <2>6, <3>2 DEF Reason
  <2>10. Room'
    <3>1. most = maxAttempts \/ Len(had) + 1 = most
        OBVIOUS
    <3> QED BY <2>1, <2>2, <2>6, <3>1 DEF Room
  <2>11. Now' # 0
      BY <2>1, <2>6
  <2>12. MayFollow'
      BY <2>2, <2>9, <2>10, <2>11 DEF MayFollow
  <2> QED BY <2>2, <2>8, <2>12 DEF Reasons
<1>9. CASE Delegates
  <2> DEFINE n == Len(lead.subs)
  <2>1. /\ step = "read" /\ step' = "open" /\ n \in Nat /\ Len(lead'.subs) = n + 1
        /\ \A m \in 1..n : Of(lead', m) = Of(lead, m)
        /\ Of(lead', n + 1) = <<>> /\ lead'.subs[n + 1].max = maxAttempts
        /\ sub' = n + 1 /\ how' = FirstHow /\ runs' = runs /\ before' = before
      BY <1>9, DelegatesIs DEF outside, Of
  <2>2. Reasoned(lead', runs)
    <3> SUFFICES ASSUME NEW m \in 1..(n + 1) PROVE GoodTries(Of(lead', m), runs)
        BY <2>1 DEF Reasoned
    <3>1. CASE m \in 1..n
        BY <2>1, <3>1 DEF Reasons, Reasoned
    <3>2. CASE m = n + 1
        BY <2>1, <3>2, <1>a, TriesOfNone
    <3> QED BY <2>1, <3>1, <3>2
  <2>3. Now' = 0 /\ how'.by = "lead"
      BY <2>1 DEF Now, Attempts, Of, FirstHow
  <2>4. MayFollow'
      BY <2>1, <2>3 DEF MayFollow, Room
  <2> QED BY <2>1, <2>2, <2>4 DEF Reasons
<1>10. CASE OpensAttempt
  <2>1. PICK a \in Attempt : OneMore(lead, lead', sub, a) /\ a.run = runs /\ a.by = how.by
      BY <1>10, OpensIs
  <2>2. /\ step = "open" /\ step' = "enter" /\ sub \in 1..Len(lead.subs)
        /\ Now = Len(Of(lead, sub)) /\ Now \in Nat /\ Now' = Now + 1
        /\ UNCHANGED <<sub, before, runs>>
      BY <1>10, OpensIs DEF outside
  <2>3. Attempts = Of(lead, sub) /\ step \in AtSubtask /\ lead.subs[sub].max \in Nat
      BY <2>2, <1>a, InRecord DEF Attempts, Of, AtSubtask, Subtask
  <2>4. /\ Room
        /\ Now # 0 => Reason(Attempts[Now], how.by, runs) /\ (how.by # "after-stop" => Now < lead.subs[sub].max)
        /\ Now = 0 => how.by = "lead"
      BY <2>2, <2>3 DEF Reasons, MayFollow
  <2>5. how.by = "after-stop" \/ Now < maxAttempts
      BY <2>2, <2>3, <2>4, LeadAssumption DEF Room
  <2>6. lead' \in Record /\ lead'.subs[sub].max = lead.subs[sub].max /\ Len(lead'.subs) = Len(lead.subs)
      BY <2>1, <2>2 DEF OneMore
  <2>7. Reasoned(lead', runs)
    <3> SUFFICES ASSUME NEW m \in 1..Len(lead.subs) PROVE GoodTries(Of(lead', m), runs)
        BY <2>6 DEF Reasoned
    <3>1. Of(lead, m) \in Seq(Attempt) /\ Of(lead', m) \in Seq(Attempt) /\ GoodTries(Of(lead, m), runs)
        BY <1>a, <2>6, InRecord DEF Reasons, Reasoned
    <3>2. CASE m # sub
      <4>1. Len(Of(lead', m)) = Len(Of(lead, m)) /\ \A k \in 1..Len(Of(lead, m)) : Of(lead', m)[k] = Of(lead, m)[k]
          BY <2>1, <3>2 DEF OneMore
      <4> QED BY <3>1, <4>1, TriesChanged
    <3>3. CASE m = sub
      <4>1. /\ Len(Of(lead', m)) = Len(Of(lead, m)) + 1 /\ Of(lead', m)[Len(Of(lead, m)) + 1] = a
            /\ \A k \in 1..Len(Of(lead, m)) : Of(lead', m)[k] = Of(lead, m)[k]
          BY <2>1, <3>3 DEF OneMore
      <4>2. Len(Of(lead, m)) # 0 => Reason(Of(lead, m)[Len(Of(lead, m))], a.by, a.run)
          BY <2>1, <2>2, <2>3, <2>4, <3>3
      <4>3. a.by = "after-stop" \/ Len(Of(lead, m)) < maxAttempts
          BY <2>1, <2>2, <2>5, <3>3
      <4>4. a.run <= runs /\ runs \in Nat
          BY <1>a, <2>1
      <4> QED BY <3>1, <4>1, <4>2, <4>3, <4>4, TriesMore
    <3> QED BY <3>2, <3>3
  <2>8. Room'
      BY <2>2, <2>3, <2>4, <2>6 DEF Room
  <2>9. MayFollow'
      BY <2>2, <2>8 DEF MayFollow
  <2> QED BY <2>2, <2>7, <2>9 DEF Reasons
<1>11. CASE EntersWorker \/ RetryAnswered \/ Restores \/ CannotRestore \/ WaitOver
  <2>1. lead' = lead /\ runs' = runs /\ before' = before
      BY <1>11 DEF EntersWorker, RetryAnswered, Restores, CannotRestore, WaitOver, GoTo, outside
  <2> QED BY <1>11, <2>1, <1>a, <1>b, MayFollowWorks
<1>12. CASE WorkerEnds
  <2>1. PICK end \in Endings, side \in {"none", "changed", "unknown"} :
           /\ step = "worker"
           /\ OneChanged(lead, lead', sub, Now, [Attempts[Now] EXCEPT !.end = end, !.side = side])
           /\ UNCHANGED <<sub, outside>>
      BY <1>12, WorkerLeaves
  <2>2. step \in AttemptMade
      BY <2>1, AtSubtaskSteps
  <2> DEFINE a == [Attempts[Now] EXCEPT !.end = end, !.side = side]
  <2>3. a.by = Attempts[Now].by /\ a.run = Attempts[Now].run
      BY <2>2, AtAttempt, SameTry
  <2>4. OneChanged(lead, lead', sub, Now, a)
      BY <2>1
  <2> HIDE DEF a
  <2> QED BY <1>12, <2>1, <2>2, <2>3, <2>4, <1>d, MayFollowWorks DEF outside
<1>13. CASE Judges
  <2>1. /\ step = "ended"
        /\ OneChanged(lead, lead', sub, Now, [Attempts[Now] EXCEPT !.status = EndsAs(Attempts[Now].end)])
        /\ UNCHANGED outside
      BY <1>13, JudgedIs
  <2>2. step \in AttemptMade
      BY <2>1, AtSubtaskSteps
  <2> QED BY <1>13, <2>1, <2>2, <1>d, AtAttempt, SameTry, MayFollowWorks DEF outside
<1> QED BY <1>1, <1>2, <1>3, <1>4, <1>5, <1>6, <1>7, <1>8, <1>9, <1>10, <1>11, <1>12, <1>13, StepKinds

-----------------------------------------------------------------------------
(***************************************************************************)
(* What an attempt is told of the folder is so.  The changes the folder    *)
(* holds are of attempts on record, those each attempt began with too: so  *)
(* a new one is in none of them.                                           *)
(***************************************************************************)

\* Every change is of an attempt on the record.
OnRecord(changes, record) ==
    \A c \in changes : c[1] \in 1..Len(record.subs) /\ c[2] \in 1..Len(Of(record, c[1]))

\* What the k-th of the tries at subtask n was told, is so.
ToldSo(tries, n, k) ==
    /\ tries[k].told = "put back" => tries[k].start = tries[1].start
    /\ tries[k].told = "nothing changed" => <<n, k-1>> \notin tries[k].start

AsTold(record) ==
    \A n \in 1..Len(record.subs) : \A k \in 1..Len(Of(record, n)) :
       ToldSo(Of(record, n), n, k) /\ OnRecord(Of(record, n)[k].start, record)

\* What the attempt to come would be told.
WillBeSo ==
    /\ step \in {"enter", "worker"} => <<sub, Now>> \notin left
    /\ step \in {"ended", "retryCard"} => (Attempts[Now].side = "none" => <<sub, Now>> \notin left)
    /\ step = "wait" \/ (step = "open" /\ Now # 0) =>
          /\ how.restored => left = Attempts[1].start
          /\ ~how.restored /\ ~how.continued => <<sub, Now>> \notin left

Folder ==
    /\ AsTold(lead)
    /\ before.sub # 0 => AsTold(before.lead) /\ OnRecord(left, before.lead)
    /\ step = "begin" => Len(lead.subs) = 0
    /\ before.sub = 0 /\ (step = "over" => Len(lead.subs) # 0) => OnRecord(left, lead)
    /\ WillBeSo

LEMMA FolderMeans == Shape /\ Folder => FolderIsAsTold
<1> SUFFICES ASSUME Shape, Folder, NEW n \in DOMAIN lead.subs, NEW k \in DOMAIN lead.subs[n].attempts
             PROVE  LET a == lead.subs[n].attempts[k]
                    IN  /\ a.told = "put back" => a.start = lead.subs[n].attempts[1].start
                        /\ a.told = "nothing changed" => <<n, k-1>> \notin a.start
    BY DEF FolderIsAsTold
<1>1. n \in 1..Len(lead.subs) /\ k \in 1..Len(Of(lead, n)) /\ lead.subs[n].attempts = Of(lead, n)
    BY InRecord DEF Shape
<1>2. ToldSo(Of(lead, n), n, k)
    BY <1>1 DEF Folder, AsTold
<1> QED BY <1>1, <1>2 DEF ToldSo

LEMMA RecordGrows ==
    ASSUME NEW record \in Record, NEW next \in Record, NEW changes, OnRecord(changes, record),
           Len(record.subs) <= Len(next.subs),
           \A m \in 1..Len(record.subs) : Len(Of(record, m)) <= Len(Of(next, m))
    PROVE  OnRecord(changes, next)
<1> SUFFICES ASSUME NEW c \in changes
             PROVE  c[1] \in 1..Len(next.subs) /\ c[2] \in 1..Len(Of(next, c[1]))
    BY DEF OnRecord
<1>1. c[1] \in 1..Len(record.subs) /\ c[2] \in 1..Len(Of(record, c[1]))
    BY DEF OnRecord
<1>2. c[1] \in 1..Len(next.subs)
    BY <1>1, InRecord
<1>3. Len(Of(record, c[1])) <= Len(Of(next, c[1])) /\ Len(Of(next, c[1])) \in Nat /\ Len(Of(record, c[1])) \in Nat
    BY <1>1, <1>2, InRecord
<1>4. c[2] \in 1..Len(Of(next, c[1]))
    BY <1>1, <1>3
<1> QED BY <1>2, <1>4

(* A record that is the same in what its attempts were told and began with. *)
LEMMA ToldStays ==
    ASSUME NEW record \in Record, NEW next \in Record, AsTold(record),
           Len(next.subs) = Len(record.subs),
           \A m \in 1..Len(record.subs) :
              /\ Len(Of(next, m)) = Len(Of(record, m))
              /\ \A k \in 1..Len(Of(record, m)) : /\ Of(next, m)[k].told = Of(record, m)[k].told
                                                  /\ Of(next, m)[k].start = Of(record, m)[k].start
    PROVE  AsTold(next)
<1> SUFFICES ASSUME NEW n \in 1..Len(record.subs), NEW k \in 1..Len(Of(record, n))
             PROVE  ToldSo(Of(next, n), n, k) /\ OnRecord(Of(next, n)[k].start, next)
    BY DEF AsTold
<1>1. ToldSo(Of(record, n), n, k) /\ OnRecord(Of(record, n)[k].start, record)
    BY DEF AsTold
<1>2. Len(Of(record, n)) \in Nat /\ 1 \in 1..Len(Of(record, n))
    BY InRecord
<1>3. OnRecord(Of(record, n)[k].start, next)
  <2>1. \A m \in 1..Len(record.subs) : Len(Of(record, m)) <= Len(Of(next, m))
      BY InRecord
  <2>2. Len(record.subs) <= Len(next.subs)
      BY InRecord
  <2> QED BY <1>1, <2>1, <2>2, RecordGrows
<1> QED BY <1>1, <1>2, <1>3 DEF ToldSo

LEMMA ToldChanged ==
    ASSUME NEW record \in Record, NEW next, NEW n \in 1..Len(record.subs), NEW k \in 1..Len(Of(record, n)), NEW a,
           OneChanged(record, next, n, k, a), AsTold(record),
           a.told = Of(record, n)[k].told, a.start = Of(record, n)[k].start
    PROVE  AsTold(next)
<1>1. next \in Record /\ Len(next.subs) = Len(record.subs)
    BY DEF OneChanged
<1>2. ASSUME NEW m \in 1..Len(record.subs)
      PROVE  /\ Len(Of(next, m)) = Len(Of(record, m))
             /\ \A j \in 1..Len(Of(record, m)) : /\ Of(next, m)[j].told = Of(record, m)[j].told
                                                 /\ Of(next, m)[j].start = Of(record, m)[j].start
  <2>1. Len(Of(next, m)) = Len(Of(record, m))
      BY DEF OneChanged
  <2>2. ASSUME NEW j \in 1..Len(Of(record, m))
        PROVE  Of(next, m)[j].told = Of(record, m)[j].told /\ Of(next, m)[j].start = Of(record, m)[j].start
    <3>1. Of(next, m)[j] = IF m = n /\ j = k THEN a ELSE Of(record, m)[j]
        BY DEF OneChanged
    <3> QED BY <3>1
  <2> QED BY <2>1, <2>2
<1> QED BY <1>1, <1>2, ToldStays

LEMMA SameLengths ==
    ASSUME NEW record \in Record, NEW next, NEW n, NEW k, NEW a, OneChanged(record, next, n, k, a),
           NEW changes, OnRecord(changes, record)
    PROVE  OnRecord(changes, next)
<1>1. next \in Record /\ Len(record.subs) <= Len(next.subs)
    BY InRecord DEF OneChanged
<1>2. \A m \in 1..Len(record.subs) : Len(Of(record, m)) <= Len(Of(next, m))
    BY InRecord DEF OneChanged
<1> QED BY <1>1, <1>2, RecordGrows

LEMMA FolderInit == Init => Folder
<1> SUFFICES ASSUME Init PROVE Folder
    OBVIOUS
<1>1. Len(lead.subs) = 0 /\ before.sub = 0 /\ step = "begin" /\ left = {}
    BY EmptyRecord, NothingYet DEF Init
<1> QED BY <1>1 DEF Folder, AsTold, WillBeSo, OnRecord

(* What the steps at a subtask leave true of the attempt to come. *)
LEMMA WillBeSoWorks ==
    ASSUME Shape, Reasons, Folder,
           EntersWorker \/ WorkerEnds \/ Judges \/ RetryAnswered \/ Restores \/ CannotRestore \/ WaitOver
    PROVE  WillBeSo'
<1>1. CASE EntersWorker
  <2>1. step = "enter" /\ step' = "worker" /\ left' = left /\ Now' = Now /\ sub' = sub
      BY <1>1, WorkStays DEF EntersWorker
  <2> QED BY <2>1 DEF Folder, WillBeSo
<1>2. CASE WorkerEnds
  <2>1. PICK end \in Endings, side \in {"none", "changed", "unknown"} :
           /\ step = "worker" /\ step' = "ended" /\ sub' = sub
           /\ OneChanged(lead, lead', sub, Now, [Attempts[Now] EXCEPT !.end = end, !.side = side])
           /\ left' = left \/ (left' = left \cup {<<sub, Now>>} /\ side # "none")
      BY <1>2, WorkerLeaves
  <2>2. step \in AttemptMade
      BY <2>1, AtSubtaskSteps
  <2>3. Now' = Now /\ Attempts'[Now'] = [Attempts[Now] EXCEPT !.end = end, !.side = side]
      BY <2>1, <2>2, WorkChanged
  <2>4. Attempts'[Now'].side = side
      BY <2>2, <2>3, AtAttempt, SameTry
  <2>5. <<sub, Now>> \notin left
      BY <2>1 DEF Folder, WillBeSo
  <2> QED BY <2>1, <2>3, <2>4, <2>5 DEF WillBeSo
<1>3. CASE Judges
  <2> DEFINE e == Attempts[Now].end
             side == Attempts[Now].side
             plan(mode, canAsk) == retryPlan(classifySubtaskEnd(e), side, mode, canAsk, Now, lead.subs[sub].max)
  <2>1. PICK mode \in Modes, canAsk \in BOOLEAN :
           /\ step = "ended" /\ EndsAs(e) \in {"done", "failed", "aborted"}
           /\ OneChanged(lead, lead', sub, Now, [Attempts[Now] EXCEPT !.status = EndsAs(e)])
           /\ step' = CASE plan(mode, canAsk) = "lead" -> "back" [] plan(mode, canAsk) = "ask" -> "retryCard" [] OTHER -> "wait"
           /\ how' = IF plan(mode, canAsk) = "retry"
                       THEN [continued |-> side = "changed", restored |-> FALSE, by |-> "settings"]
                       ELSE how
           /\ UNCHANGED <<message, status, chat, sub, shown, left, afterStop, outside>>
      BY <1>3, JudgedIs
  <2>2. step \in AttemptMade
      BY <2>1, AtSubtaskSteps
  <2>3. e \in Endings \cup {"none"} /\ lead.subs[sub].max \in Nat /\ Now \in Nat
      BY <2>2, AtAttempt, InRecord DEF Attempt, Subtask
  <2>4. /\ plan(mode, canAsk) \in {"lead", "ask", "retry"}
        /\ plan(mode, canAsk) = "retry" => side # "unknown"
    <3> HIDE DEF e, side
    <3> QED BY <2>3, PlanMeans
  <2> HIDE DEF plan
  <2>5. Now' = Now /\ Attempts'[Now'] = [Attempts[Now] EXCEPT !.status = EndsAs(e)]
      BY <2>1, <2>2, WorkChanged
  <2>6. Attempts'[Now'].side = side /\ side \in {"none", "changed", "unknown"}
      BY <2>2, <2>5, AtAttempt, SameTry DEF Attempt
  <2>7. side = "none" => <<sub, Now>> \notin left
      BY <2>1 DEF Folder, WillBeSo
  <2> HIDE DEF e, side
  <2>8. CASE plan(mode, canAsk) = "lead"
      BY <2>1, <2>8 DEF WillBeSo
  <2>9. CASE plan(mode, canAsk) = "ask"
      BY <2>1, <2>5, <2>6, <2>7, <2>9 DEF WillBeSo
  <2>10. CASE plan(mode, canAsk) = "retry"
    <3>1. step' = "wait" /\ how'.restored = FALSE /\ how'.continued = (side = "changed")
        BY <2>1, <2>10
    <3>2. ~how'.continued => <<sub, Now>> \notin left
        BY <2>4, <2>6, <2>7, <2>10, <3>1
    <3> QED BY <2>1, <2>5, <3>1, <3>2 DEF WillBeSo
  <2> QED BY <2>4, <2>8, <2>9, <2>10
<1>4. CASE RetryAnswered
  <2> DEFINE side == Attempts[Now].side
  <2>1. PICK choice \in ChoicesOf(side) :
           /\ step = "retryCard"
           /\ step' = CASE choice = "accept" -> "back" [] choice = "restore" -> "restore" [] OTHER -> "wait"
           /\ how' = IF choice \in {"again", "continue"}
                       THEN [continued |-> choice = "continue" \/ side = "changed",
                             restored |-> FALSE, by |-> "operator"]
                       ELSE how
           /\ lead' = lead /\ sub' = sub /\ left' = left
      BY <1>4 DEF RetryAnswered
  <2>2. Now' = Now /\ Attempts' = Attempts
      BY <2>1, WorkStays
  <2>3. side \in {"none", "changed", "unknown"} /\ (side = "none" => <<sub, Now>> \notin left)
    <3>1. Attempts[Now] \in Attempt
        BY <2>1, AtAttempt, AtSubtaskSteps
    <3> QED BY <2>1, <3>1 DEF Folder, WillBeSo, Attempt
  <2> HIDE DEF side
  <2>4. CASE choice \in {"accept", "restore"}
      BY <2>1, <2>4 DEF WillBeSo
  <2>5. CASE choice \in {"again", "continue"}
    <3>1. step' = "wait" /\ how'.restored = FALSE /\ how'.continued = (choice = "continue" \/ side = "changed")
        BY <2>1, <2>5
    <3>2. ~how'.continued => <<sub, Now>> \notin left
        BY <2>1, <2>3, <2>5, <3>1 DEF ChoicesOf
    <3> QED BY <2>1, <2>2, <3>1, <3>2 DEF WillBeSo
  <2> QED BY <2>1, <2>4, <2>5 DEF ChoicesOf
<1>5. CASE Restores
  <2>1. /\ step = "restore" /\ step' = "wait" /\ lead' = lead /\ sub' = sub
        /\ left' = Attempts[1].start
        /\ how' = [continued |-> FALSE, restored |-> TRUE, by |-> "operator"]
      BY <1>5 DEF Restores
  <2>2. Now' = Now /\ Attempts' = Attempts
      BY <2>1, WorkStays
  <2> QED BY <2>1, <2>2 DEF WillBeSo
<1>6. CASE CannotRestore
    BY <1>6 DEF CannotRestore, GoTo, WillBeSo
<1>7. CASE WaitOver
  <2>1. step = "wait" /\ step' = "open" /\ lead' = lead /\ sub' = sub /\ how' = how /\ left' = left
      BY <1>7 DEF WaitOver, GoTo
  <2>2. Now' = Now /\ Attempts' = Attempts
      BY <2>1, WorkStays
  <2> QED BY <2>1, <2>2 DEF Folder, WillBeSo
<1> QED BY <1>1, <1>2, <1>3, <1>4, <1>5, <1>6, <1>7

LEMMA FolderStep ==
    ASSUME Shape, Reasons, Folder, [Next]_vars
    PROVE  Folder'
<1>a. lead \in Record /\ before.lead \in Record
    BY DEF Shape
<1>b. ASSUME lead'.subs = lead.subs, lead' \in Record, before' = before, step' # "over", step # "over",
             (step' = "begin" => step = "begin"), left' = left, WillBeSo'
      PROVE  Folder'
  <2>1. AsTold(lead')
      BY <1>a, <1>b DEF Folder, AsTold, OnRecord, Of
  <2>2. OnRecord(left, lead) => OnRecord(left, lead')
      BY <1>b DEF OnRecord, Of
  <2> QED BY <1>b, <2>1, <2>2 DEF Folder
<1>c. ASSUME step' = "over", AsTold(lead'), Len(lead'.subs) = Len(lead.subs), before'.sub = 0, left' = left,
             OnRecord(left, lead) => OnRecord(left, lead')
      PROVE  Folder'
  <2>1. WillBeSo'
      BY <1>c DEF WillBeSo
  <2>2. Len(lead'.subs) # 0 => OnRecord(left', lead')
      BY <1>c DEF Folder, Shape
  <2> QED BY <1>c, <2>1, <2>2 DEF Folder
<1>d. ASSUME step \in AttemptMade, NEW a, OneChanged(lead, lead', sub, Now, a),
             a.told = Attempts[Now].told, a.start = Attempts[Now].start
      PROVE  AsTold(lead') /\ (\A changes : OnRecord(changes, lead) => OnRecord(changes, lead'))
             /\ Len(lead'.subs) = Len(lead.subs) /\ lead' \in Record
  <2>1. sub \in 1..Len(lead.subs) /\ Now \in 1..Len(Of(lead, sub)) /\ Attempts = Of(lead, sub)
      BY <1>d, AtAttempt
  <2>2. AsTold(lead')
      BY <1>a, <1>d, <2>1, ToldChanged DEF Folder
  <2>3. \A changes : OnRecord(changes, lead) => OnRecord(changes, lead')
      BY <1>a, <1>d, SameLengths
  <2> QED BY <1>d, <2>2, <2>3 DEF OneChanged
<1>e. ASSUME NEW choice, NewRun(choice), choice.sub # 0 => choice.lead = lead /\ Len(lead.subs) # 0 /\ left' = left,
             choice.sub = 0 => left' = {}
      PROVE  Folder'
  <2>1. Len(lead'.subs) = 0 /\ before' = choice /\ step = "over" /\ step' = "begin"
      BY <1>e, EmptyRecord DEF NewRun
  <2>2. before.sub = 0
      BY <2>1 DEF Shape
  <2>3. WillBeSo' /\ AsTold(lead')
      BY <2>1 DEF WillBeSo, AsTold
  <2>4. choice.sub # 0 => AsTold(choice.lead) /\ OnRecord(left', choice.lead)
      BY <1>e, <2>1, <2>2 DEF Folder
  <2>5. choice.sub = 0 => OnRecord(left', lead')
      BY <1>e DEF OnRecord
  <2> QED BY <2>1, <2>3, <2>4, <2>5 DEF Folder
<1>1. CASE UNCHANGED vars
  <2>1. Now' = Now /\ Attempts' = Attempts
      BY <1>1, WorkStays DEF vars
  <2>2. WillBeSo'
      BY <1>1, <2>1 DEF vars, Folder, WillBeSo
  <2> QED BY <1>1, <2>2 DEF vars, Folder
<1>2. CASE EndsTheRun
  <2>1. before'.sub = 0 /\ step' = "over" /\ left' = left
      BY <1>2, NothingYet DEF EndsTheRun, FinishWith, Forgets
  <2>2. CASE lead' = lead \/ lead' = Counted
    <3>1. lead'.subs = lead.subs
        BY <2>2, CountedIs
    <3>2. AsTold(lead') /\ (OnRecord(left, lead) => OnRecord(left, lead'))
        BY <3>1 DEF Folder, AsTold, OnRecord, Of
    <3> QED BY <2>1, <3>1, <3>2, <1>c
  <2>4. CASE step \in {"enter", "ended"} /\ \E st \in {"aborted", "failed"} : lead' = CutShort(st)
    <3>1. PICK st \in {"aborted", "failed"} : lead' = CutShort(st)
        BY <2>4
    <3>2. step \in AttemptMade
        BY <2>4, AtSubtaskSteps
    <3>3. OneChanged(lead, lead', sub, Now, [Attempts[Now] EXCEPT !.status = st, !.side = "none"])
        BY <3>1, <3>2, CutShortIs
    <3> DEFINE a == [Attempts[Now] EXCEPT !.status = st, !.side = "none"]
    <3>4. a.told = Attempts[Now].told /\ a.start = Attempts[Now].start
        BY <3>2, AtAttempt, SameTry
    <3>5. OneChanged(lead, lead', sub, Now, a)
        BY <3>3
    <3> HIDE DEF a
    <3> QED BY <2>1, <3>2, <3>4, <3>5, <1>c, <1>d
  <2> QED BY <1>2, <2>2, <2>4 DEF EndsTheRun, FinishWith
<1>3. CASE SpeaksToLead
  <2>1. /\ before' = before /\ lead'.subs = lead.subs /\ lead' \in Record /\ left' = left
        /\ step' \in Talking /\ step # "over"
      BY <1>3, <1>a, CountedIs DEF SpeaksToLead, outside, Talking
  <2>2. WillBeSo'
      BY <2>1 DEF WillBeSo, Talking
  <2> QED BY <2>1, <2>2, <1>b DEF Talking
<1>4. CASE Presses
  <2>1. Now' = Now /\ Attempts' = Attempts
      BY <1>4, WorkStays DEF Presses
  <2>2. WillBeSo'
      BY <1>4, <2>1 DEF Presses, Folder, WillBeSo
  <2> QED BY <1>4, <2>2 DEF Presses, Folder
<1>5. CASE Kill
  <2>1. before'.sub = 0 /\ step' = "over" /\ left' = left /\ lead' = lead
      BY <1>5, NothingYet DEF Kill, Forgets
  <2> QED BY <2>1, <1>c DEF Folder
<1>6. CASE CarryOn
    BY <1>6, <1>e, NothingYet DEF CarryOn
<1>7. CASE chatRetrySubtask
  <2>1. PICK n \in DOMAIN lead.subs : NewRun([lead |-> lead, sub |-> n]) /\ left' = left
      BY <1>7 DEF chatRetrySubtask
  <2>2. n \in 1..Len(lead.subs) /\ Len(lead.subs) # 0 /\ n # 0
      BY <2>1, <1>a, InRecord
  <2> QED BY <2>1, <2>2, <1>e
<1>8. CASE CarriesOnSubtask
  <2> DEFINE n == before.sub
             old == Of(before.lead, n)
             had == IF old = <<>> THEN <<HadNone>> ELSE old
  <2>1. /\ n \in 1..Len(before.lead.subs)
        /\ lead' \in Record /\ Len(lead'.subs) = Len(before.lead.subs)
        /\ Of(lead', n) = had
        /\ \A m \in 1..Len(before.lead.subs) : m # n => Of(lead', m) = Of(before.lead, m)
    <3>1. PICK s : OnePut(before.lead, lead', n, s) /\ s.attempts = had
        BY <1>8, TakenUpIs DEF Of
    <3>2. n \in 1..Len(before.lead.subs)
        BY <1>8, TakenUpIs
    <3> HIDE DEF had
    <3> QED BY <3>1, <3>2 DEF OnePut, Of
  <2>2. /\ n # 0 /\ before'.sub = 0 /\ left' = left /\ step' = "open"
        /\ how' = [continued |-> TRUE, restored |-> FALSE, by |-> "after-stop"]
      BY <1>8, NothingYet DEF CarriesOnSubtask
  <2>3. AsTold(before.lead) /\ OnRecord(left, before.lead)
      BY <2>2 DEF Folder
  <2>4. /\ Len(<<HadNone>>) = 1 /\ <<HadNone>>[1].told = "nothing" /\ <<HadNone>>[1].start = {}
        /\ Len(<<>>) = 0
      BY DEF HadNone
  <2>5. \A m \in 1..Len(before.lead.subs) : Len(Of(before.lead, m)) <= Len(Of(lead', m))
    <3> SUFFICES ASSUME NEW m \in 1..Len(before.lead.subs) PROVE Len(Of(before.lead, m)) <= Len(Of(lead', m))
        OBVIOUS
    <3>1. Len(Of(before.lead, m)) \in Nat
        BY <1>a, InRecord
    <3> QED BY <2>1, <2>4, <3>1
  <2>6. \A changes : OnRecord(changes, before.lead) => OnRecord(changes, lead')
    <3>1. Len(before.lead.subs) <= Len(lead'.subs)
        BY <2>1, <1>a, InRecord
    <3> QED BY <1>a, <2>1, <2>5, <3>1, RecordGrows
  <2>7. AsTold(lead')
    <3> SUFFICES ASSUME NEW m \in 1..Len(before.lead.subs), NEW k \in 1..Len(Of(lead', m))
                 PROVE  ToldSo(Of(lead', m), m, k) /\ OnRecord(Of(lead', m)[k].start, lead')
        BY <2>1 DEF AsTold
    <3>1. CASE Of(lead', m) = Of(before.lead, m)
        BY <2>3, <2>6, <3>1 DEF AsTold
    <3>2. CASE Of(lead', m) = <<HadNone>>
      <4>1. k = 1
          BY <2>4, <3>2
      <4> QED BY <2>4, <3>2, <4>1 DEF ToldSo, OnRecord
    <3> QED BY <2>1, <3>1, <3>2
  <2>8. WillBeSo'
      BY <2>2 DEF WillBeSo
  <2> QED BY <2>2, <2>3, <2>6, <2>7, <2>8 DEF Folder
<1>9. CASE Delegates
  <2> DEFINE n == Len(lead.subs)
  <2>1. /\ step = "read" /\ step' = "open" /\ n \in Nat /\ Len(lead'.subs) = n + 1
        /\ \A m \in 1..n : Of(lead', m) = Of(lead, m)
        /\ Of(lead', n + 1) = <<>> /\ sub' = n + 1 /\ before' = before /\ left' = left
      BY <1>9, DelegatesIs DEF outside, Of
  <2>2. lead' \in Record
      BY <1>9, ShapeOpens DEF Shape
  <2>3. before.sub = 0 /\ OnRecord(left, lead) /\ AsTold(lead)
      BY <2>1 DEF Folder, Shape
  <2>4. \A m \in 1..n : Len(Of(lead, m)) <= Len(Of(lead', m))
      BY <2>1, <1>a, InRecord
  <2>5. n <= Len(lead'.subs)
      BY <2>1
  <2>6. \A changes : OnRecord(changes, lead) => OnRecord(changes, lead')
      BY <1>a, <2>2, <2>4, <2>5, RecordGrows
  <2>7. AsTold(lead')
    <3> SUFFICES ASSUME NEW m \in 1..(n + 1), NEW k \in 1..Len(Of(lead', m))
                 PROVE  ToldSo(Of(lead', m), m, k) /\ OnRecord(Of(lead', m)[k].start, lead')
        BY <2>1 DEF AsTold
    <3>1. m # n + 1
        BY <2>1
    <3>2. m \in 1..n
        BY <2>1, <3>1
    <3> QED BY <2>1, <2>3, <2>6, <3>2 DEF AsTold
  <2>8. Now' = 0
      BY <2>1 DEF Now, Attempts, Of
  <2>9. WillBeSo'
      BY <2>1, <2>8 DEF WillBeSo
  <2> QED BY <2>1, <2>3, <2>6, <2>7, <2>9 DEF Folder
<1>10. CASE OpensAttempt
  <2>1. PICK a \in Attempt : OneMore(lead, lead', sub, a) /\ a.told = Told(Now + 1) /\ a.start = left
      BY <1>10, OpensIs
  <2>2. /\ step = "open" /\ step' = "enter" /\ sub \in 1..Len(lead.subs)
        /\ Now = Len(Of(lead, sub)) /\ Now \in Nat /\ Now' = Now + 1
        /\ UNCHANGED <<sub, before, left>>
      BY <1>10, OpensIs DEF outside
  <2>3. Attempts = Of(lead, sub)
      BY DEF Attempts, Of
  <2>4. before.sub = 0 /\ OnRecord(left, lead) /\ AsTold(lead)
      BY <2>2 DEF Folder, Shape
  <2>5. lead' \in Record /\ Len(lead'.subs) = Len(lead.subs)
      BY <2>1, <2>2 DEF OneMore
  <2>6. \A changes : OnRecord(changes, lead) => OnRecord(changes, lead')
    <3>1. \A m \in 1..Len(lead.subs) : Len(Of(lead, m)) <= Len(Of(lead', m))
      <4> SUFFICES ASSUME NEW m \in 1..Len(lead.subs) PROVE Len(Of(lead, m)) <= Len(Of(lead', m))
          OBVIOUS
      <4>1. Len(Of(lead, m)) \in Nat
          BY <1>a, InRecord
      <4>2. Len(Of(lead', m)) = IF m = sub THEN Len(Of(lead, m)) + 1 ELSE Len(Of(lead, m))
          BY <2>1 DEF OneMore
      <4> QED BY <4>1, <4>2
    <3>2. Len(lead.subs) <= Len(lead'.subs)
        BY <2>5, <1>a, InRecord
    <3> QED BY <1>a, <2>5, <3>1, <3>2, RecordGrows
  <2>7. /\ Now # 0 => (how.restored => left = Attempts[1].start)
        /\ Now # 0 => (~how.restored /\ ~how.continued => <<sub, Now>> \notin left)
      BY <2>2 DEF Folder, WillBeSo
  <2>8. ToldSo(Of(lead', sub), sub, Now + 1)
    <3>1. Of(lead', sub)[Now + 1] = a /\ (Now # 0 => Of(lead', sub)[1] = Attempts[1])
        BY <2>1, <2>2, <2>3 DEF OneMore
    <3>2. /\ (Now + 1) - 1 = Now
          /\ Told(Now + 1) = "put back" => Now # 0 /\ how.restored
          /\ Told(Now + 1) = "nothing changed" => Now # 0 /\ ~how.restored /\ ~how.continued
        BY <2>2 DEF Told
    <3>3. a.told = "put back" => a.start = Of(lead', sub)[1].start
        BY <2>1, <2>7, <3>1, <3>2
    <3>4. a.told = "nothing changed" => <<sub, (Now + 1) - 1>> \notin a.start
        BY <2>1, <2>7, <3>2
    <3> QED BY <3>1, <3>3, <3>4 DEF ToldSo
  <2>9. AsTold(lead')
    <3> SUFFICES ASSUME NEW m \in 1..Len(lead.subs), NEW k \in 1..Len(Of(lead', m))
                 PROVE  ToldSo(Of(lead', m), m, k) /\ OnRecord(Of(lead', m)[k].start, lead')
        BY <2>5 DEF AsTold
    <3>0. Len(Of(lead, m)) \in Nat
        BY <1>a, InRecord
    <3>1. CASE k \in 1..Len(Of(lead, m))
      <4>1. ToldSo(Of(lead, m), m, k) /\ OnRecord(Of(lead, m)[k].start, lead)
          BY <2>4, <3>1 DEF AsTold
      <4>2. Of(lead', m)[k] = Of(lead, m)[k] /\ Of(lead', m)[1] = Of(lead, m)[1]
          BY <2>1, <3>0, <3>1 DEF OneMore
      <4> QED BY <2>6, <4>1, <4>2 DEF ToldSo
    <3>2. CASE k \notin 1..Len(Of(lead, m))
      <4>1. m = sub /\ k = Now + 1
          BY <2>1, <2>2, <3>0, <3>2 DEF OneMore
      <4>2. Of(lead', sub)[Now + 1].start = left
          BY <2>1, <2>2 DEF OneMore
      <4> QED BY <2>4, <2>6, <2>8, <4>1, <4>2
    <3> QED BY <3>1, <3>2
  <2>10. WillBeSo'
    <3>1. <<sub, Now + 1>> \notin left
        BY <2>2, <2>4 DEF OnRecord
    <3> QED BY <2>2, <3>1 DEF WillBeSo
  <2> QED BY <2>2, <2>4, <2>6, <2>9, <2>10 DEF Folder
<1>11. CASE EntersWorker \/ RetryAnswered \/ CannotRestore \/ WaitOver
  <2>1. lead' = lead /\ before' = before /\ left' = left
      BY <1>11 DEF EntersWorker, RetryAnswered, CannotRestore, WaitOver, GoTo, outside
  <2>2. step \notin {"over", "begin"} /\ step' \notin {"over", "begin"}
      BY <1>11 DEF EntersWorker, RetryAnswered, CannotRestore, WaitOver, GoTo
  <2> QED BY <1>11, <2>1, <2>2, <1>a, <1>b, WillBeSoWorks
<1>12. CASE Restores
  <2>1. step = "restore" /\ step' = "wait" /\ lead' = lead /\ before' = before /\ left' = Attempts[1].start
      BY <1>12 DEF Restores, outside
  <2>2. before.sub = 0 /\ AsTold(lead)
      BY <2>1 DEF Shape, Folder
  <2>3. OnRecord(Attempts[1].start, lead)
    <3>1. sub \in 1..Len(lead.subs) /\ Attempts = Of(lead, sub) /\ Now \in Nat /\ Now = Len(Of(lead, sub)) /\ Now # 0
        BY <2>1, AtAttempt, AtSubtaskSteps DEF Shape
    <3> QED BY <2>2, <3>1 DEF AsTold
  <2> QED BY <1>12, <2>1, <2>2, <2>3, WillBeSoWorks DEF Folder
<1>13. CASE WorkerEnds
  <2>1. PICK end \in Endings, side \in {"none", "changed", "unknown"} :
           /\ step = "worker" /\ step' = "ended"
           /\ OneChanged(lead, lead', sub, Now, [Attempts[Now] EXCEPT !.end = end, !.side = side])
           /\ left' = left \/ left' = left \cup {<<sub, Now>>}
           /\ UNCHANGED outside
      BY <1>13, WorkerLeaves
  <2>2. step \in AttemptMade
      BY <2>1, AtSubtaskSteps
  <2> DEFINE a == [Attempts[Now] EXCEPT !.end = end, !.side = side]
  <2>3. a.told = Attempts[Now].told /\ a.start = Attempts[Now].start
      BY <2>2, AtAttempt, SameTry
  <2>4. OneChanged(lead, lead', sub, Now, a)
      BY <2>1
  <2> HIDE DEF a
  <2>5. AsTold(lead') /\ (\A changes : OnRecord(changes, lead) => OnRecord(changes, lead'))
      BY <2>2, <2>3, <2>4, <1>d
  <2>6. before.sub = 0 /\ before' = before /\ OnRecord(left, lead)
      BY <2>1 DEF Shape, Folder, outside
  <2>7. OnRecord(left', lead)
    <3>1. sub \in 1..Len(lead.subs) /\ Now \in 1..Len(Of(lead, sub))
        BY <2>2, AtAttempt
    <3>2. OnRecord({<<sub, Now>>}, lead)
        BY <3>1 DEF OnRecord
    <3> QED BY <2>1, <2>6, <3>2 DEF OnRecord
  <2> QED BY <1>13, <2>1, <2>5, <2>6, <2>7, WillBeSoWorks DEF Folder
<1>14. CASE Judges
  <2>1. /\ step = "ended" /\ step' \in {"back", "retryCard", "wait"}
        /\ OneChanged(lead, lead', sub, Now, [Attempts[Now] EXCEPT !.status = EndsAs(Attempts[Now].end)])
        /\ left' = left /\ UNCHANGED outside
      BY <1>14, JudgedIs
  <2>2. step \in AttemptMade
      BY <2>1, AtSubtaskSteps
  <2>3. AsTold(lead') /\ (\A changes : OnRecord(changes, lead) => OnRecord(changes, lead'))
      BY <2>1, <2>2, <1>d, AtAttempt, SameTry
  <2>4. before.sub = 0 /\ before' = before /\ OnRecord(left, lead)
      BY <2>1 DEF Shape, Folder, outside
  <2> QED BY <1>14, <2>1, <2>3, <2>4, WillBeSoWorks DEF Folder
<1> QED BY <1>1, <1>2, <1>3, <1>4, <1>5, <1>6, <1>7, <1>8, <1>9, <1>10, <1>11, <1>12, <1>13, <1>14, StepKinds

-----------------------------------------------------------------------------
(***************************************************************************)
(* Once Stop is pressed, only what already waits at the pace, or on a      *)
(* reply to the contract, goes to the lead still.                          *)
(***************************************************************************)
AfterStop ==
    /\ afterStop \in Nat
    /\ ~stop \/ step \notin {"tell", "reply", "read"} => afterStop = 0
    /\ step = "tell" => afterStop <= (IF message = "contract" THEN 0 ELSE 1)
    /\ step = "reply" => afterStop <= (IF message = "contract" THEN 1 ELSE 2)
    /\ step = "read" => afterStop <= 2

LEMMA AfterStopStep ==
    ASSUME Shape, AfterStop, [Next]_vars
    PROVE  AfterStop'
<1>a. /\ message \in {"contract", "work"} /\ afterStop \in Nat /\ stop \in BOOLEAN
      /\ step \in Steps
    BY DEF Shape, Messages, AfterStop
<1>b. ASSUME step' = "over" /\ afterStop' = 0
      PROVE  AfterStop'
    BY <1>b DEF AfterStop
<1>c. ASSUME afterStop' = 0
      PROVE  AfterStop'
    BY <1>c DEF AfterStop
<1>d. ASSUME NEW what \in {"contract", "work"}, Tell(what), afterStop = 0
      PROVE  AfterStop'
    BY <1>d, <1>c DEF Tell
<1>1. CASE UNCHANGED vars
    BY <1>1 DEF vars, AfterStop
<1>2. CASE EndsTheRun \/ Kill
    BY <1>2, <1>b DEF EndsTheRun, FinishWith, Forgets, Kill
<1>3. CASE PressStop \/ PressPause \/ PressContinue
    BY <1>3, <1>a DEF PressStop, PressPause, PressContinue, run, AfterStop
<1>4. CASE CarryOn \/ chatRetrySubtask
    BY <1>4, <1>c DEF CarryOn, chatRetrySubtask, NewRun, AfterStop
<1>5. CASE Begins
    BY <1>5, <1>b, <1>d DEF Begins, AfterStop, Finish, FinishWith, Forgets
<1>6. CASE HoldsMessage
    BY <1>6 DEF HoldsMessage, GoTo, AfterStop, outside
<1>7. CASE Sends
  <2>1. /\ step' = "reply" /\ message' = message /\ stop' = stop
        /\ afterStop' = IF stop THEN afterStop + 1 ELSE afterStop
        /\ step = "tell" \/ (step = "held" /\ ~stop)
      BY <1>7 DEF Sends, outside
  <2>2. stop => afterStop <= (IF message = "contract" THEN 0 ELSE 1)
      BY <2>1 DEF AfterStop
  <2>3. ~stop => afterStop = 0
      BY DEF AfterStop
  <2> QED BY <1>a, <2>1, <2>2, <2>3 DEF AfterStop
<1>8. CASE GetsReply
  <2>1. step = "reply" /\ afterStop' = afterStop /\ stop' = stop
      BY <1>8 DEF GetsReply, Tell, GoTo, outside
  <2>2. \/ message = "contract" /\ step' = "tell" /\ message' = "work"
        \/ message # "contract" /\ step' = "read" /\ message' = message
      BY <1>8 DEF GetsReply, Tell, GoTo
  <2> QED BY <1>a, <2>1, <2>2 DEF AfterStop
<1>9. CASE BadReply \/ AnsweredAtOnce \/ PutsACard \/ Delegates
  <2>1. ~stop
      BY <1>9 DEF BadReply, AnsweredAtOnce, PutsACard, Delegates, MayRead
  <2>2. afterStop = 0
      BY <2>1 DEF AfterStop
  <2>3. afterStop' = 0
      BY <1>9, <2>2 DEF BadReply, AnsweredAtOnce, PutsACard, Delegates, Tell, Finish, FinishWith, Forgets
  <2> QED BY <2>3, <1>c
<1>10. CASE CardAnswered \/ BackToLead
    BY <1>10, <1>c DEF CardAnswered, BackToLead, Tell, Finish, FinishWith, Forgets, AfterStop
<1>11. CASE \/ CarriesOnSubtask \/ OpensAttempt \/ EntersWorker \/ WorkerEnds \/ Judges
            \/ RetryAnswered \/ Restores \/ CannotRestore \/ WaitOver
    BY <1>11, <1>c DEF CarriesOnSubtask, OpensAttempt, EntersWorker, WorkerEnds, Judges,
       RetryAnswered, Restores, CannotRestore, WaitOver, GoTo, AfterStop
<1> QED BY <1>1, <1>2, <1>3, <1>4, <1>5, <1>6, <1>7, <1>8, <1>9, <1>10, <1>11, FinishKinds DEF Next, Runner

-----------------------------------------------------------------------------
(***************************************************************************)
(* The theorems.                                                           *)
(***************************************************************************)
IInv == Shape /\ Bounds /\ Closes /\ Reasons /\ Folder /\ AfterStop

LEMMA IInvInit == Init => IInv
<1> SUFFICES ASSUME Init PROVE IInv
    OBVIOUS
<1>1. Bounds
  <2>1. before.sub = 0 /\ runs = 1 /\ lead = EmptyLead /\ Len(lead.subs) = 0
      BY EmptyRecord, NothingYet DEF Init
  <2>2. lead.rounds = 0 /\ lead.limit = maxSubtasks
      BY <2>1 DEF EmptyLead
  <2> QED BY <2>1, <2>2, LeadAssumption DEF Bounds
<1>2. AfterStop
    BY DEF Init, AfterStop
<1> QED BY <1>1, <1>2, ShapeInit, ClosesInit, ReasonsInit, FolderInit DEF IInv

(***************************************************************************)
(* What holds of a message of two chats at every moment: where its run is  *)
(* and what is on its record go together, no attempt is open but the one   *)
(* at work, each try again had its reason and its room, the folder's       *)
(* changes are all of attempts on record, and Stop is near its end.        *)
(***************************************************************************)
THEOREM Inductive == Spec => []IInv
<1>1. IInv /\ [Next]_vars => IInv'
    BY ShapeStep, BoundsStep, ClosesStep, ReasonsStep, FolderStep, AfterStopStep DEF IInv
<1> QED BY <1>1, IInvInit, PTL DEF Spec

(* The window shows whoever is spoken to, and the counts stay within their limits. *)
THEOREM TypeCorrect == Spec => []TypeOK
<1>1. IInv => TypeOK
    BY TypeOKHolds DEF IInv
<1> QED BY <1>1, Inductive, PTL

(* However a message ends, its record has no attempt that still runs, but of a run the program's end cut. *)
THEOREM NoneLeftRunning == Spec => []NoAttemptLeftRunning
<1>1. IInv => NoAttemptLeftRunning
    BY ClosesMeans DEF IInv
<1> QED BY <1>1, Inductive, PTL

(***************************************************************************)
(* subtaskRetry.ts: tried again by itself only after a fault of the chat   *)
(* that left nothing unknown, at the operator's word never after the       *)
(* work's own end, and within Settings' attempts.                          *)
(***************************************************************************)
THEOREM RetriedOnlyAsAsked == Spec => []NotRetriedUnasked
<1>1. IInv => NotRetriedUnasked
    BY ReasonsMean DEF IInv
<1> QED BY <1>1, Inductive, PTL

(* What the worker is told of the folder when a subtask is tried again is how the folder is. *)
THEOREM ToldAsItIs == Spec => []FolderIsAsTold
<1>1. IInv => FolderIsAsTold
    BY FolderMeans DEF IInv
<1> QED BY <1>1, Inductive, PTL

(* After Stop the lead is sent the contract and the assignment at most. *)
THEOREM TwoAfterStop == Spec => []AtMostTwoAfterStop
<1>1. IInv => AtMostTwoAfterStop
  <2> SUFFICES ASSUME Shape, AfterStop PROVE afterStop <= 2
      BY DEF IInv, AtMostTwoAfterStop
  <2>1. message \in {"contract", "work"}
      BY DEF Shape, Messages
  <2> QED BY <2>1 DEF AfterStop
<1> QED BY <1>1, Inductive, PTL
=============================================================================
