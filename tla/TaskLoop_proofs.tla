--------------------------- MODULE TaskLoop_proofs ---------------------------
(***************************************************************************)
(* Proofs about TaskLoop, for any number of tasks and any limits.          *)
(*                                                                         *)
(* The invariant IInv is a conjunction of parts, and each part has a lemma *)
(* that says a step keeps it: most parts need one other part only, and so  *)
(* most steps are seen to keep a part without unfolding the rest.          *)
(***************************************************************************)
EXTENDS TaskLoop, TLAPS

(* The limits the code is given are numbers, and its settings booleans. *)
LEMMA ConstantTypes ==
  /\ N \in Nat /\ RetryBlocked \in Nat /\ AutoContinue \in Nat /\ MaxSteps \in Nat
  /\ {Checked, ReviewWanted, ContinueOnFailure, Gap} \subseteq BOOLEAN
BY TaskLoopConstants DEF Limits

(* A reply proposes at least one command. *)
LEMMA StepsOfAReply == \A k \in 1 .. MaxSteps : k \in Nat /\ k > 0
<1>1. MaxSteps \in Nat
    BY ConstantTypes
<1> QED BY <1>1

----------------------------------------------------------------------------
(* The counters of an attempt. *)

(* Each counter is a number. *)
LEMMA CountersAre ==
  ASSUME NEW m \in Counters
  PROVE  /\ m.iterations \in Nat /\ m.format \in Nat /\ m.early \in Nat /\ m.checks \in Nat
         /\ m.reviews \in Nat /\ m.looks \in Nat /\ m.tries \in Nat
         /\ m.opens \in Nat /\ m.steps \in Nat
BY DEF Counters

(* A counter may be given any number. *)
LEMMA NumberSet ==
  ASSUME NEW m \in Counters, NEW k \in Nat
  PROVE  /\ [m EXCEPT !.iterations = k] \in Counters /\ [m EXCEPT !.format = k] \in Counters
         /\ [m EXCEPT !.early = k] \in Counters /\ [m EXCEPT !.checks = k] \in Counters
         /\ [m EXCEPT !.reviews = k] \in Counters /\ [m EXCEPT !.looks = k] \in Counters
         /\ [m EXCEPT !.tries = k] \in Counters /\ [m EXCEPT !.steps = k] \in Counters
BY DEF Counters

(* What the code counts is still a number when it has counted one more. *)
LEMMA OneMore ==
  ASSUME NEW m \in Counters
  PROVE  /\ [m EXCEPT !.format = m.format + 1] \in Counters
         /\ [m EXCEPT !.early = m.early + 1] \in Counters
         /\ [m EXCEPT !.checks = m.checks + 1] \in Counters
         /\ [m EXCEPT !.looks = m.looks + 1] \in Counters
         /\ [m EXCEPT !.iterations = m.iterations + 1, !.format = 0] \in Counters
         /\ [m EXCEPT !.reviews = m.reviews + 1, !.looks = 0] \in Counters
<1>1. /\ m.iterations + 1 \in Nat /\ m.format + 1 \in Nat /\ m.early + 1 \in Nat
      /\ m.checks + 1 \in Nat /\ m.reviews + 1 \in Nat /\ m.looks + 1 \in Nat /\ 0 \in Nat
    BY CountersAre
<1> QED BY <1>1, NumberSet, Zenon

(* Of the commands of a reply, one less is left. *)
LEMMA OneLess ==
  ASSUME NEW m \in Counters, m.steps > 0
  PROVE  /\ [m EXCEPT !.steps = m.steps - 1] \in Counters
         /\ [m EXCEPT !.ran = TRUE, !.steps = m.steps - 1] \in Counters
         /\ m.steps > 1 => /\ [m EXCEPT !.steps = m.steps - 1].steps > 0
                           /\ [m EXCEPT !.ran = TRUE, !.steps = m.steps - 1].steps > 0
<1> DEFINE k == m.steps - 1
           a == [m EXCEPT !.ran = TRUE]
<1>1. k \in Nat /\ (m.steps > 1 => k > 0)
    BY CountersAre
<1>2. a \in Counters
    BY DEF Counters
<1> HIDE DEF k, a
<1>3. /\ [m EXCEPT !.steps = k] \in Counters /\ [m EXCEPT !.steps = k].steps = k
      /\ [a EXCEPT !.steps = k] \in Counters /\ [a EXCEPT !.steps = k].steps = k
    BY <1>1, <1>2 DEF Counters
<1> QED BY <1>1, <1>3 DEF k, a

(* The counters at the start of a reply's commands. *)
LEMMA StepsSet ==
  ASSUME NEW m \in Counters, NEW k \in Nat, NEW d \in BOOLEAN
  PROVE  /\ [m EXCEPT !.steps = k, !.early = 0, !.stopped = FALSE] \in Counters
         /\ [m EXCEPT !.steps = k, !.early = 0, !.stopped = FALSE].steps = k
         /\ [m EXCEPT !.steps = k, !.done = d, !.early = 0, !.stopped = FALSE] \in Counters
         /\ [m EXCEPT !.steps = k, !.done = d, !.early = 0, !.stopped = FALSE].steps = k
<1>1. ASSUME NEW a \in Counters, a.steps = k
      PROVE  /\ [a EXCEPT !.early = 0, !.stopped = FALSE] \in Counters
             /\ [a EXCEPT !.early = 0, !.stopped = FALSE].steps = k
  <2> DEFINE b == [a EXCEPT !.early = 0]
  <2>1. b \in Counters /\ b.steps = k
    BY <1>1 DEF Counters
  <2> HIDE DEF b
  <2>2. [b EXCEPT !.stopped = FALSE] \in Counters /\ [b EXCEPT !.stopped = FALSE].steps = k
    BY <2>1 DEF Counters
  <2> QED BY <2>2 DEF b
<1> DEFINE a == [m EXCEPT !.steps = k]
           b == [a EXCEPT !.done = d]
<1>2. a \in Counters /\ a.steps = k
    BY DEF Counters
<1> HIDE DEF a
<1>3. b \in Counters /\ b.steps = k
    BY <1>2 DEF Counters
<1> HIDE DEF b
<1>4. /\ [a EXCEPT !.early = 0, !.stopped = FALSE] \in Counters
      /\ [a EXCEPT !.early = 0, !.stopped = FALSE].steps = k
    BY <1>1, <1>2
<1>5. /\ [b EXCEPT !.early = 0, !.stopped = FALSE] \in Counters
      /\ [b EXCEPT !.early = 0, !.stopped = FALSE].steps = k
    BY <1>1, <1>3
<1> QED BY <1>4, <1>5 DEF a, b

(* The same when an answer to a question is the one command. *)
LEMMA OneStepSet ==
  ASSUME NEW m \in Counters
  PROVE  /\ [m EXCEPT !.steps = 1, !.early = 0, !.stopped = FALSE] \in Counters
         /\ [m EXCEPT !.steps = 1, !.early = 0, !.stopped = FALSE].steps > 0
<1> DEFINE a == [m EXCEPT !.steps = 1, !.early = 0, !.stopped = FALSE]
<1>1. a \in Counters /\ a.steps = 1
    BY StepsSet
<1> HIDE DEF a
<1>2. a.steps > 0
    BY <1>1
<1> QED BY <1>1, <1>2 DEF a

(* The counters after a command, when Stop came. *)
LEMMA StoppedSet ==
  ASSUME NEW m \in Counters
  PROVE  /\ [m EXCEPT !.ran = TRUE] \in Counters
         /\ [m EXCEPT !.stopped = TRUE] \in Counters /\ [m EXCEPT !.stopped = TRUE].stopped
         /\ [m EXCEPT !.ran = TRUE, !.stopped = TRUE] \in Counters
         /\ [m EXCEPT !.ran = TRUE, !.stopped = TRUE].stopped
<1> DEFINE a == [m EXCEPT !.ran = TRUE]
<1>1. /\ a \in Counters /\ [m EXCEPT !.stopped = TRUE] \in Counters
      /\ [m EXCEPT !.stopped = TRUE].stopped
    BY DEF Counters
<1> HIDE DEF a
<1>2. [a EXCEPT !.stopped = TRUE] \in Counters /\ [a EXCEPT !.stopped = TRUE].stopped
    BY <1>1 DEF Counters
<1> QED BY <1>1, <1>2 DEF a

(* A reply is counted. *)
LEMMA CountedIs == ASSUME n \in Counters PROVE Counted \in Counters
BY OneMore DEF Counted

----------------------------------------------------------------------------
(* The endings of an attempt. *)

(* Every ending the code makes is an ending, of the status it was made for. *)
LEMMA EndingsMade ==
  \A s \in Over : /\ Ended(s) \in Endings /\ AtLimit(s) \in Endings /\ NotTheChats(s) \in Endings
                  /\ Ended(s).st = s /\ AtLimit(s).st = s /\ NotTheChats(s).st = s
BY DEF Ended, AtLimit, NotTheChats, Endings

(* No error of a message ends an attempt as done. *)
LEMMA ErrorsEnd ==
  \A e : EndingOf(e) \in Endings /\ EndingOf(e).st \in Over /\ EndingOf(e).st # "done"
<1>1. {"aborted", "limit-reached", "failed"} \subseteq Over
    BY DEF Over
<1>2. /\ [Ended("failed") EXCEPT !.failure = TRUE] \in Endings
      /\ [Ended("failed") EXCEPT !.failure = TRUE].st = "failed"
    BY <1>1 DEF Ended, Endings
<1>3. /\ Ended("aborted") \in Endings /\ AtLimit("limit-reached") \in Endings
      /\ Ended("aborted").st = "aborted" /\ AtLimit("limit-reached").st = "limit-reached"
    BY <1>1, EndingsMade
<1>4. \A e : EndingOf(e) \in {Ended("aborted"), AtLimit("limit-reached"),
                              [Ended("failed") EXCEPT !.failure = TRUE]}
    BY DEF EndingOf
<1> QED BY <1>1, <1>2, <1>3, <1>4

----------------------------------------------------------------------------
(* The parts of the invariant. *)

Sending == {"pace", "hold", "held", "send", "answer", "backoff"}
Opening == pc = "opening" \/ (msg = "opening" /\ pc \in Sending)
Stepping == pc \in {"step", "step held", "card", "command"}
Reviewing ==
  \/ pc \in {"review opens", "review", "review card", "review command", "pass", "fail", "error"}
  \/ msg = "review" /\ pc \in Sending
MaySend ==
  \/ pc \in {"pace", "hold", "held", "send", "backoff"}
  \/ pc \in {"report", "written"} /\ ~n.stopped

Switches ==
  /\ live \in BOOLEAN /\ signal \in BOOLEAN /\ paused \in BOOLEAN
  /\ open \in BOOLEAN /\ caught \in BOOLEAN
Control ==
  pc \in Places /\ msg \in Messages /\ work \in {"new", "checked", "accepted"}
Notes == note \in [Task -> {"none", "unsent", "taken", "out"}]

(* While an opening message is under way one is left to send, and while a *)
(* command is at hand one is left to run.                                 *)
Counting ==
  /\ n \in Counters
  /\ Opening => n.opens > 0
  /\ Stepping => n.steps > 0

(* Each fresh chat and each continuation pays for one attempt. *)
AttemptsCounted ==
  /\ again \in [runs : Nat, retried : 0 .. RetryBlocked, continued : 0 .. AutoContinue]
  /\ again.runs <= 1 + again.retried + again.continued
  /\ pc \in {"begin", "fresh"} => again.runs <= again.retried + again.continued

(* The run is live while it is anywhere, and at a task of the session. *)
Numbered == cur \in 0 .. N
Living == pc # "off" => live
AtItsTask == pc \in AtATask \cup {"begin", "after", "fresh"} => cur \in Task

(* The task the run is at is the one task marked as at work. *)
Marked ==
  /\ task \in [Task -> Statuses]
  /\ pc \in AtATask => task[cur] \in Active
  /\ \A t \in Task : task[t] \in Active => t = cur /\ pc \in AtATask
  /\ \A t \in Task : task[t] = "waiting-approval" => pc \in {"card", "question"}

(* An attempt over has an ending. *)
EndKnown ==
  /\ end \in Endings
  /\ pc \in {"finish", "after"} => end.st \in Over

(* An attempt ends as done only with what the gate asks of it, and the gate *)
(* goes to a review only where one is wanted.                               *)
Earned == IF ReviewWanted THEN "accepted" ELSE "checked"
Verdict ==
  /\ pc = "finish" /\ end.st = "done" => work = Earned
  /\ Reviewing => ReviewWanted

(* After Stop the message that may still go is paid for already. *)
Quiet ==
  /\ late \in Nat /\ faults \in Nat /\ pauses \in Nat
  /\ ~signal => late = 0
  /\ late <= 1 + faults
  /\ MaySend => late <= faults

IInv ==
  /\ Switches /\ Control /\ Notes /\ Counting /\ AttemptsCounted
  /\ Numbered /\ Living /\ AtItsTask /\ Marked /\ EndKnown /\ Verdict /\ DoneIsEarned /\ Quiet

----------------------------------------------------------------------------
(* Each part is kept. *)

(* From the moment a task is begun to its finish the run is at that task, and *)
(* what the operator and the window do is no step of its loop.               *)
LEMMA AtWork ==
  Sends \/ Begins \/ Looks \/ Steps \/ Settles
    => /\ UNCHANGED <<cur, live, signal, paused, open, caught>>
       /\ pc \in AtATask \cup {"begin"} /\ pc' \in AtATask \cup {"after"}
<1>1. CASE Sends
  <2>1. UNCHANGED <<cur, live, signal, paused, open, caught>>
    BY <1>1 DEF Sends, Paced, StoppedAtThePace, ReviewNotSent, NotHeld, Held, HeldStopped, Sent,
       ChatFails, ChatDoesNotAnswer, Answered, BacksOff, Throw, Finish, Send, Only, Inside,
       Outside, hands, chat, told
  <2>2. pc \in AtATask \cup {"begin"} /\ pc' \in AtATask \cup {"after"}
    BY <1>1 DEF Sends, Paced, StoppedAtThePace, ReviewNotSent, NotHeld, Held, HeldStopped, Sent,
       ChatFails, ChatDoesNotAnswer, Answered, BacksOff, Throw, Finish, Send, Only, Inside,
       Outside, AtATask, Places
  <2> QED BY <2>1, <2>2
<1>2. CASE Begins
  <2>1. UNCHANGED <<cur, live, signal, paused, open, caught>>
    BY <1>2 DEF Begins, TaskBegins, CannotBegin, Composes, Opens, Finish, Send, Only, Inside,
       Outside, hands, chat, told
  <2>2. pc \in AtATask \cup {"begin"} /\ pc' \in AtATask \cup {"after"}
    BY <1>2 DEF Begins, TaskBegins, CannotBegin, Composes, Opens, Finish, Send, Only, Inside,
       Outside, AtATask, Places
  <2> QED BY <2>1, <2>2
<1>3. CASE Looks
  <2>1. UNCHANGED <<cur, live, signal, paused, open, caught>>
    BY <1>3 DEF Looks, LookEnds, BadReply, Asks, QuestionAnswered, QuestionStopped, Blocked,
       SaysDone, Proposes, GoesOn, Finish, Send, Only, Inside, Outside, hands, chat, told
  <2>2. pc \in AtATask \cup {"begin"} /\ pc' \in AtATask \cup {"after"}
    BY <1>3 DEF Looks, LookEnds, BadReply, Asks, QuestionAnswered, QuestionStopped, Blocked,
       SaysDone, Proposes, GoesOn, Finish, Send, Only, Inside, Outside, AtATask, Places
  <2> QED BY <2>1, <2>2
<1>4. CASE Steps
  <2>1. UNCHANGED <<cur, live, signal, paused, open, caught>>
    BY <1>4 DEF Steps, StepHeld, StepStopped, StepRefused, StepAsks, Decided, CommandEnds,
       Reports, ReportGoes, Finish, Send, Only, Inside, Outside, hands, chat, told
  <2>2. pc \in AtATask \cup {"begin"} /\ pc' \in AtATask \cup {"after"}
    BY <1>4 DEF Steps, StepHeld, StepStopped, StepRefused, StepAsks, Decided, CommandEnds,
       Reports, ReportGoes, Finish, Send, Only, Inside, Outside, AtATask, Places
  <2> QED BY <2>1, <2>2
<1>5. CASE Settles
  <2>1. UNCHANGED <<cur, live, signal, paused, open, caught>>
    BY <1>5 DEF Settles, NoChecks, ChecksStopped, ChecksPass, ChecksCannotRun, ChecksFail,
       ReviewOpens, Reviews, ReviewDecided, ReviewCommandEnds, Accepts, Rejects, Finishes,
       ChecksRun, GoesToReview, Finish, Send, Only, Inside, Outside, hands, chat, told
  <2>2. pc \in AtATask \cup {"begin"} /\ pc' \in AtATask \cup {"after"}
    BY <1>5 DEF Settles, NoChecks, ChecksStopped, ChecksPass, ChecksCannotRun, ChecksFail,
       ReviewOpens, Reviews, ReviewDecided, ReviewCommandEnds, Accepts, Rejects, Finishes,
       ChecksRun, GoesToReview, Finish, Send, Only, Inside, Outside, AtATask, Places
  <2> QED BY <2>1, <2>2
<1> QED BY <1>1, <1>2, <1>3, <1>4, <1>5

(* What is on or off stays one of the two. *)
LEMMA SwitchesKept == Switches /\ [Next]_vars => Switches'
<1> SUFFICES ASSUME Switches, [Next]_vars
             PROVE  Switches'
    OBVIOUS
<1> USE DEF Switches
<1>1. CASE Sends \/ Begins \/ Looks \/ Steps \/ Settles
    BY <1>1, AtWork
<1>2. CASE Session
    BY <1>2 DEF Session, Opened, CannotOpen, TakesNext, NoneIsNext, WindowEndsRun, RetriesFresh,
       FreshOpens, FreshFails, Continues, TaskOver, Closes, Runs, hands, chat, told
<1>3. CASE Operator
    BY <1>3 DEF Operator, Start, Stop, Pause, Resume, ClosesWindow, AddNote, hands, chat, told
<1>4. CASE UNCHANGED vars
    BY <1>4 DEF vars, hands, chat, told
<1> QED BY <1>1, <1>2, <1>3, <1>4 DEF Next, Program

(* The run goes from a place of its loop to a place of its loop. *)
LEMMA ControlKept == Control /\ [Next]_vars => Control'
<1> SUFFICES ASSUME Control, [Next]_vars
             PROVE  Control'
    OBVIOUS
<1> USE DEF Control
<1>1. CASE Sends
    BY <1>1 DEF Sends, Paced, StoppedAtThePace, ReviewNotSent, NotHeld, Held, HeldStopped, Sent,
       ChatFails, ChatDoesNotAnswer, Answered, BacksOff, Throw, Finish, Send, Only, Inside,
       Outside, Places, Messages
<1>2. CASE Begins
    BY <1>2 DEF Begins, TaskBegins, CannotBegin, Composes, Opens, Finish, Send, Only, Inside,
       Outside, Places, Messages
<1>3. CASE Looks
    BY <1>3 DEF Looks, LookEnds, BadReply, Asks, QuestionAnswered, QuestionStopped, Blocked,
       SaysDone, Proposes, GoesOn, Finish, Send, Only, Inside, Outside, Places, Messages
<1>4. CASE Steps
    BY <1>4 DEF Steps, StepHeld, StepStopped, StepRefused, StepAsks, Decided, CommandEnds,
       Reports, ReportGoes, Finish, Send, Only, Inside, Outside, Places, Messages
<1>5. CASE Settles
    BY <1>5 DEF Settles, NoChecks, ChecksStopped, ChecksPass, ChecksCannotRun, ChecksFail,
       ReviewOpens, Reviews, ReviewDecided, ReviewCommandEnds, Accepts, Rejects, Finishes,
       ChecksRun, GoesToReview, Finish, Send, Only, Inside, Outside, Places, Messages
<1>6. CASE Session
    BY <1>6 DEF Session, Opened, CannotOpen, TakesNext, NoneIsNext, WindowEndsRun, RetriesFresh,
       FreshOpens, FreshFails, Continues, TaskOver, Closes, Runs, Places, Messages
<1>7. CASE Operator
    BY <1>7 DEF Operator, Start, Stop, Pause, Resume, ClosesWindow, AddNote, Places, Messages
<1>8. CASE UNCHANGED vars
    BY <1>8 DEF vars
<1> QED BY <1>1, <1>2, <1>3, <1>4, <1>5, <1>6, <1>7, <1>8 DEF Next, Program

(* A note is marked, never lost from the list of notes. *)
LEMMA TakenNotes == ASSUME Notes, TakeNote PROVE Notes'
BY DEF Notes, TakeNote

(* A note is as the task store keeps it. *)
LEMMA NotesKept == Notes /\ [Next]_vars => Notes'
<1> SUFFICES ASSUME Notes, [Next]_vars
             PROVE  Notes'
    OBVIOUS
<1> USE DEF Notes
<1>1. CASE Sends
    BY <1>1 DEF Sends, Paced, StoppedAtThePace, ReviewNotSent, NotHeld, Held, HeldStopped, Sent,
       ChatFails, ChatDoesNotAnswer, Answered, BacksOff, Throw, Finish, Send, Only, Inside,
       Outside, Carries
<1>2. CASE Begins
    BY <1>2, TakenNotes DEF Begins, TaskBegins, CannotBegin, Composes, Opens, Finish, Send, Only,
       Inside, Outside
<1>3. CASE Looks
    BY <1>3 DEF Looks, LookEnds, BadReply, Asks, QuestionAnswered, QuestionStopped, Blocked,
       SaysDone, Proposes, GoesOn, Finish, Send, Only, Inside, Outside
<1>4. CASE Steps
    BY <1>4, TakenNotes DEF Steps, StepHeld, StepStopped, StepRefused, StepAsks, Decided,
       CommandEnds, Reports, ReportGoes, Finish, Send, Only, Inside, Outside
<1>5. CASE Settles
    BY <1>5 DEF Settles, NoChecks, ChecksStopped, ChecksPass, ChecksCannotRun, ChecksFail,
       ReviewOpens, Reviews, ReviewDecided, ReviewCommandEnds, Accepts, Rejects, Finishes,
       ChecksRun, GoesToReview, Finish, Send, Only, Inside, Outside
<1>6. CASE Session
    BY <1>6 DEF Session, Opened, CannotOpen, TakesNext, NoneIsNext, WindowEndsRun, RetriesFresh,
       FreshOpens, FreshFails, Continues, TaskOver, Closes, Runs
<1>7. CASE Operator
    BY <1>7 DEF Operator, Start, Stop, Pause, Resume, ClosesWindow, AddNote
<1>8. CASE UNCHANGED vars
    BY <1>8 DEF vars, hands, chat, told
<1> QED BY <1>1, <1>2, <1>3, <1>4, <1>5, <1>6, <1>7, <1>8 DEF Next, Program

(* The counters stay numbers, and count down no further than they may. *)
LEMMA CountingKept == Counting /\ [Next]_vars => Counting'
<1> SUFFICES ASSUME Counting, [Next]_vars
             PROVE  Counting'
    OBVIOUS
<1> USE DEF Counting
<1>0. n' = n /\ ~Opening' /\ ~Stepping' => Counting'
    OBVIOUS
<1>1. CASE Sends
  <2>1. ASSUME NEW m \in Counters, NEW e, Opening => m.opens > 0, pc \in Sending, Throw(e, m)
        PROVE  Counting'
    <3>1. /\ [m EXCEPT !.tries = m.tries + 1] \in Counters
          /\ [m EXCEPT !.tries = m.tries + 1].opens = m.opens
      BY <2>1 DEF Counters
    <3> QED BY <2>1, <3>1 DEF Throw, Send, Finish, Opening, Stepping, Sending
  <2>2. CASE Paced \/ NotHeld \/ Held \/ Sent \/ BacksOff
    BY <2>2 DEF Paced, NotHeld, Held, Sent, BacksOff, Only, Opening, Stepping, Sending
  <2>3. CASE StoppedAtThePace
    BY <2>3, <2>1 DEF StoppedAtThePace, Sending
  <2>4. CASE ReviewNotSent
    BY <2>4, <2>1 DEF ReviewNotSent, Sending
  <2>5. CASE HeldStopped
    BY <2>5, <2>1 DEF HeldStopped, Sending
  <2>6. CASE ChatFails
    <3> DEFINE m == [n EXCEPT !.broke = TRUE]
    <3>1. m \in Counters /\ m.opens = n.opens
      BY DEF Counters
    <3> HIDE DEF m
    <3>2. Throw("failed", m) /\ pc \in Sending
      BY <2>6 DEF ChatFails, Sending, m
    <3> QED BY <2>1, <3>1, <3>2
  <2>7. CASE ChatDoesNotAnswer
    BY <2>7, <2>1 DEF ChatDoesNotAnswer, Sending
  <2>8. CASE Answered
    <3>1. [n EXCEPT !.done = FALSE] \in Counters
      BY DEF Counters
    <3>2. CASE msg = "opening"
      <4>1. n.opens \in Nat /\ n.opens > 0
        BY <2>8, <3>2, CountersAre DEF Answered, Opening, Sending
      <4> DEFINE k == n.opens - 1
      <4>2. k \in Nat /\ (n.opens # 1 => k > 0)
        BY <4>1
      <4>3. /\ n' = [n EXCEPT !.opens = k]
            /\ pc' = IF n.opens = 1 THEN "look" ELSE "opening"
        BY <2>8, <3>2 DEF Answered
      <4> HIDE DEF k
      <4>4. [n EXCEPT !.opens = k] \in Counters /\ [n EXCEPT !.opens = k].opens = k
        BY <4>2 DEF Counters
      <4> QED BY <4>2, <4>3, <4>4 DEF Opening, Stepping, Sending
    <3>3. CASE msg # "opening"
      BY <2>8, <3>1, <3>3 DEF Answered, Opening, Stepping, Sending
    <3> QED BY <3>2, <3>3
  <2> QED BY <1>1, <2>2, <2>3, <2>4, <2>5, <2>6, <2>7, <2>8 DEF Sends
<1>2. CASE Begins
  <2>1. CASE TaskBegins
    BY <2>1 DEF TaskBegins, Fresh, Counters, Opening, Stepping, Sending
  <2>2. CASE CannotBegin
    BY <2>2 DEF CannotBegin, Finish, Only, Opening, Stepping, Sending
  <2>3. CASE Composes
    <3>1. PICK k \in 1 .. 2 : n' = [n EXCEPT !.opens = k]
      BY <2>3 DEF Composes
    <3>2. n' \in Counters /\ n'.opens = k /\ k > 0
      BY <3>1 DEF Counters
    <3> QED BY <2>3, <3>2 DEF Composes, Opening, Stepping, Sending
  <2>4. CASE Opens
    BY <2>4 DEF Opens, Finish, Send, Only, Opening, Stepping, Sending
  <2> QED BY <1>2, <2>1, <2>2, <2>3, <2>4 DEF Begins
<1>3. CASE Looks
  <2> USE DEF Opening, Stepping, Sending, Finish, Send
  <2>1. Counted \in Counters
    BY CountedIs
  <2>2. CASE LookEnds \/ QuestionStopped
    BY <2>2 DEF LookEnds, QuestionStopped, Only
  <2>3. CASE BadReply
    <3>1. [n EXCEPT !.format = n.format + 1] \in Counters
      BY OneMore
    <3> QED BY <2>3, <3>1 DEF BadReply
  <2>4. CASE Asks
    <3> HIDE DEF Finish
    <3> DEFINE m == [Counted EXCEPT !.steps = 1, !.early = 0, !.stopped = FALSE]
    <3>1. m \in Counters /\ m.steps > 0
      BY <2>1, OneStepSet
    <3>2. \/ n' = Counted /\ (pc' = "question" \/ (pc' = "pace" /\ msg' = "answer"))
          \/ n' = m /\ pc' = "step"
      BY <2>4 DEF Asks
    <3> HIDE DEF m
    <3>3. n' \in Counters /\ (pc' = "step" => n'.steps > 0)
      BY <3>1, <3>2, <2>1
    <3> QED BY <3>2, <3>3
  <2>5. CASE QuestionAnswered
    <3> DEFINE m == [n EXCEPT !.steps = 1, !.early = 0, !.stopped = FALSE]
    <3>1. m \in Counters /\ m.steps > 0
      BY OneStepSet
    <3>2. \/ n' = n /\ (pc' = "finish" \/ (pc' = "pace" /\ msg' = "answer"))
          \/ n' = m /\ pc' = "step"
      BY <2>5 DEF QuestionAnswered
    <3> HIDE DEF m
    <3>3. n' \in Counters /\ (pc' = "step" => n'.steps > 0)
      BY <3>1, <3>2
    <3> QED BY <3>2, <3>3
  <2>6. CASE Blocked
    <3>1. [Counted EXCEPT !.early = Counted.early + 1] \in Counters
      <4> HIDE DEF Counted
      <4> QED BY <2>1, OneMore
    <3> QED BY <2>6, <2>1, <3>1 DEF Blocked
  <2>7. CASE SaysDone
    BY <2>7, <2>1 DEF SaysDone
  <2>8. CASE Proposes
    <3>1. PICK k \in 1 .. MaxSteps, d \in BOOLEAN :
             n' = [Counted EXCEPT !.steps = k, !.done = d, !.early = 0, !.stopped = FALSE]
      BY <2>8 DEF Proposes
    <3>2. k \in Nat /\ k > 0
      BY <3>1, StepsOfAReply
    <3>3. n' \in Counters /\ n'.steps = k
      BY <2>1, <3>1, <3>2, StepsSet
    <3> QED BY <2>8, <3>2, <3>3 DEF Proposes
  <2> QED BY <1>3, <2>2, <2>3, <2>4, <2>5, <2>6, <2>7, <2>8 DEF Looks
<1>4. CASE Steps
  <2> USE DEF Opening, Stepping, Sending, Finish, Send
  <2>1. CASE StepHeld \/ StepAsks \/ Reports
    BY <2>1 DEF StepHeld, StepAsks, Reports, Only
  <2>2. CASE StepStopped
    BY <2>2 DEF StepStopped, Counters
  <2>3. CASE StepRefused
    <3>1. ASSUME n.steps > 1
          PROVE  /\ [n EXCEPT !.steps = n.steps - 1] \in Counters
                 /\ [n EXCEPT !.steps = n.steps - 1].steps > 0
      BY <2>3, <3>1, OneLess DEF StepRefused
    <3> QED BY <2>3, <3>1 DEF StepRefused
  <2>4. CASE Decided
    <3>1. [n EXCEPT !.stopped = TRUE] \in Counters
      BY DEF Counters
    <3> QED BY <2>4, <3>1 DEF Decided
  <2>5. CASE CommandEnds
    <3> DEFINE m == [n EXCEPT !.ran = TRUE, !.steps = n.steps - 1]
    <3>1. m \in Counters /\ (n.steps > 1 => m.steps > 0)
      BY <2>5, OneLess DEF CommandEnds
    <3>2. n' \in {[n EXCEPT !.ran = TRUE, !.stopped = TRUE], [n EXCEPT !.ran = TRUE], m}
      BY <2>5 DEF CommandEnds
    <3>3. pc' = "step" => n.steps > 1 /\ n' = m
      BY <2>5 DEF CommandEnds
    <3>4. pc' \in {"report", "finish", "step"}
      BY <2>5 DEF CommandEnds
    <3> HIDE DEF m
    <3>5. n' \in Counters
      BY <3>1, <3>2, StoppedSet
    <3> QED BY <3>1, <3>3, <3>4, <3>5
  <2>6. CASE ReportGoes
    <3>1. [n EXCEPT !.tries = 0] \in Counters
      BY DEF Counters
    <3> QED BY <2>6, <3>1 DEF ReportGoes
  <2> QED BY <1>4, <2>1, <2>2, <2>3, <2>4, <2>5, <2>6 DEF Steps
<1>5. CASE Settles
  <2> USE DEF Opening, Stepping, Sending, Finish, Send, GoesToReview
  <2>1. CASE NoChecks \/ ChecksStopped \/ ChecksCannotRun \/ ReviewDecided \/ ReviewCommandEnds
             \/ Accepts \/ Rejects \/ Finishes
    BY <2>1, <1>0 DEF NoChecks, ChecksStopped, ChecksCannotRun, ReviewDecided, ReviewCommandEnds,
                Accepts, Rejects, Finishes, Only
  <2>2. CASE ChecksPass
    <3>1. [n EXCEPT !.checks = n.checks + 1] \in Counters
      BY OneMore
    <3> QED BY <2>2, <3>1 DEF ChecksPass
  <2>3. CASE ChecksFail
    <3>1. [n EXCEPT !.checks = n.checks + 1] \in Counters
      BY OneMore
    <3> QED BY <2>3, <3>1 DEF ChecksFail
  <2>4. CASE ReviewOpens
    <3>1. [n EXCEPT !.reviews = n.reviews + 1, !.looks = 0] \in Counters
      BY OneMore
    <3> QED BY <2>4, <3>1 DEF ReviewOpens, Only
  <2>5. CASE Reviews
    <3>1. [n EXCEPT !.looks = n.looks + 1] \in Counters
      BY OneMore
    <3> QED BY <2>5, <3>1 DEF Reviews
  <2> QED BY <1>5, <2>1, <2>2, <2>3, <2>4, <2>5 DEF Settles
<1>6. CASE Session
  BY <1>6 DEF Session, Opened, CannotOpen, TakesNext, NoneIsNext, WindowEndsRun, RetriesFresh,
     FreshOpens, FreshFails, Continues, TaskOver, Closes, Runs, Opening, Stepping, Sending
<1>7. CASE Operator
  BY <1>7 DEF Operator, Start, Stop, Pause, Resume, ClosesWindow, AddNote, Opening, Stepping,
     Sending
<1>8. CASE UNCHANGED vars
  BY <1>8 DEF vars, Opening, Stepping
<1> QED BY <1>1, <1>2, <1>3, <1>4, <1>5, <1>6, <1>7, <1>8 DEF Next, Program

(* An attempt begins only when the last one has paid for it. *)
LEMMA AttemptsKept == AttemptsCounted /\ [Next]_vars => AttemptsCounted'
<1> SUFFICES ASSUME AttemptsCounted, [Next]_vars
             PROVE  AttemptsCounted'
    OBVIOUS
<1> USE DEF AttemptsCounted
<1> DEFINE Kept == again' = again /\ pc' \notin {"begin", "fresh"}
<1>0. Kept => AttemptsCounted'
    OBVIOUS
<1>1. CASE Sends
    <2>1. Kept
      BY <1>1 DEF Sends, Paced, StoppedAtThePace, ReviewNotSent, NotHeld, Held, HeldStopped, Sent,
         ChatFails, ChatDoesNotAnswer, Answered, BacksOff, Throw, Finish, Send, Only, Inside,
         Outside
    <2> QED BY <2>1, <1>0
<1>2. CASE Begins
    <2>1. CASE TaskBegins
      BY <2>1, ConstantTypes DEF TaskBegins
    <2>2. CASE ~TaskBegins
      BY <1>2, <2>2, <1>0 DEF Begins, CannotBegin, Composes, Opens, Finish, Send, Only, Inside,
         Outside
    <2> QED BY <2>1, <2>2
<1>3. CASE Looks
    BY <1>3, <1>0 DEF Looks, LookEnds, BadReply, Asks, QuestionAnswered, QuestionStopped, Blocked,
       SaysDone, Proposes, Finish, Send, Only, Inside, Outside
<1>4. CASE Steps
    BY <1>4, <1>0 DEF Steps, StepHeld, StepStopped, StepRefused, StepAsks, Decided, CommandEnds,
       Reports, ReportGoes, Finish, Send, Only, Inside, Outside
<1>5. CASE Settles
    BY <1>5, <1>0 DEF Settles, NoChecks, ChecksStopped, ChecksPass, ChecksCannotRun, ChecksFail,
       ReviewOpens, Reviews, ReviewDecided, ReviewCommandEnds, Accepts, Rejects, Finishes,
       GoesToReview, Finish, Send, Only, Inside, Outside
<1>6. CASE Session
    <2>1. CASE TakesNext
      BY <2>1, ConstantTypes DEF TakesNext, NoneYet, Runs
    <2>2. CASE RetriesFresh
      BY <2>2, ConstantTypes DEF RetriesFresh, GoesFresh, Runs
    <2>3. CASE FreshOpens
      BY <2>3 DEF FreshOpens, Runs
    <2>4. CASE Continues
      BY <2>4, ConstantTypes DEF Continues, MayContinue, Runs
    <2>5. CASE Opened \/ CannotOpen \/ NoneIsNext \/ WindowEndsRun \/ FreshFails \/ TaskOver \/ Closes
      BY <2>5, <1>0 DEF Opened, CannotOpen, NoneIsNext, WindowEndsRun, FreshFails, TaskOver,
         Closes, Runs
    <2> QED BY <1>6, <2>1, <2>2, <2>3, <2>4, <2>5 DEF Session
<1>7. CASE Operator
    BY <1>7 DEF Operator, Start, Stop, Pause, Resume, ClosesWindow, AddNote
<1>8. CASE UNCHANGED vars
    BY <1>8 DEF vars
<1> QED BY <1>1, <1>2, <1>3, <1>4, <1>5, <1>6, <1>7, <1>8 DEF Next, Program

(* The run is at a task, or before the first. *)
LEMMA NumberedKept == Numbered /\ [Next]_vars => Numbered'
<1> SUFFICES ASSUME Numbered, [Next]_vars
             PROVE  Numbered'
    OBVIOUS
<1> USE DEF Numbered
<1>1. CASE Sends \/ Begins \/ Looks \/ Steps \/ Settles
    BY <1>1, AtWork
<1>2. CASE Session
    BY <1>2, ConstantTypes DEF Session, Opened, CannotOpen, TakesNext, NoneIsNext, WindowEndsRun,
       RetriesFresh, FreshOpens, FreshFails, Continues, TaskOver, Closes, Runs, Task
<1>3. CASE Operator
    <2>1. CASE Start
      <3>1. N \in Nat
        BY ConstantTypes
      <3> QED BY <2>1, <3>1 DEF Start
    <2>2. CASE ~Start
      BY <1>3, <2>2 DEF Operator, Stop, Pause, Resume, ClosesWindow, AddNote
    <2> QED BY <2>1, <2>2
<1>4. CASE UNCHANGED vars
    BY <1>4 DEF vars, hands, chat, told
<1> QED BY <1>1, <1>2, <1>3, <1>4 DEF Next, Program

(* The service forgets the run last of all. *)
LEMMA LivingKept == Living /\ [Next]_vars => Living'
<1> SUFFICES ASSUME Living, [Next]_vars
             PROVE  Living'
    OBVIOUS
<1> USE DEF Living
<1>1. CASE Sends \/ Begins \/ Looks \/ Steps \/ Settles
    BY <1>1, AtWork DEF AtATask
<1>2. CASE Session
    BY <1>2 DEF Session, Opened, CannotOpen, TakesNext, NoneIsNext, WindowEndsRun, RetriesFresh,
       FreshOpens, FreshFails, Continues, TaskOver, Closes, Runs, hands
<1>3. CASE Operator
    BY <1>3 DEF Operator, Start, Stop, Pause, Resume, ClosesWindow, AddNote, hands
<1>4. CASE UNCHANGED vars
    BY <1>4 DEF vars, hands, chat, told
<1> QED BY <1>1, <1>2, <1>3, <1>4 DEF Next, Program

(* The run is at one of its tasks. *)
LEMMA AtItsTaskKept == AtItsTask /\ [Next]_vars => AtItsTask'
<1> SUFFICES ASSUME AtItsTask, [Next]_vars
             PROVE  AtItsTask'
    OBVIOUS
<1> USE DEF AtItsTask
<1>1. CASE Sends \/ Begins \/ Looks \/ Steps \/ Settles
    BY <1>1, AtWork
<1>2. CASE Session
    BY <1>2 DEF Session, Opened, CannotOpen, TakesNext, NoneIsNext, WindowEndsRun, RetriesFresh,
       FreshOpens, FreshFails, Continues, TaskOver, Closes, Runs, AtATask, Places
<1>3. CASE Operator
    BY <1>3 DEF Operator, Start, Stop, Pause, Resume, ClosesWindow, AddNote, AtATask, Places
<1>4. CASE UNCHANGED vars
    BY <1>4 DEF vars, hands, chat, told
<1> QED BY <1>1, <1>2, <1>3, <1>4 DEF Next, Program

(* A turn of the task's status, while the run is at it. *)
LEMMA Turns ==
  ASSUME Marked, AtItsTask, pc \in AtATask, NEW s \in Active, Status(s), cur' = cur,
         pc' \in AtATask, s = "waiting-approval" => pc' \in {"card", "question"}
  PROVE  Marked'
BY DEF Marked, AtItsTask, Active, Statuses, Status

(* A task is marked when the run takes it up, turned at its cards, and    *)
(* unmarked by finish alone, whatever the ending.                        *)
LEMMA MarkedKept == Marked /\ AtItsTask /\ EndKnown /\ [Next]_vars => Marked'
<1> SUFFICES ASSUME Marked, AtItsTask, EndKnown, [Next]_vars
             PROVE  Marked'
    OBVIOUS
<1> USE DEF Marked
<1>1. CASE Sends
    BY <1>1 DEF Sends, Paced, StoppedAtThePace, ReviewNotSent, NotHeld, Held, HeldStopped, Sent,
       ChatFails, ChatDoesNotAnswer, Answered, BacksOff, Throw, Finish, Send, Only, Inside,
       Outside, AtATask, Places
<1>2. CASE Begins
    BY <1>2 DEF Begins, TaskBegins, CannotBegin, Composes, Opens, Finish, Send, Only, Inside,
       Outside, AtItsTask, Status, Active, Statuses, AtATask, Places
<1>3. CASE Looks
    BY <1>3 DEF Looks, LookEnds, BadReply, Asks, QuestionAnswered, QuestionStopped, Blocked,
       SaysDone, Proposes, GoesOn, Finish, Send, Only, Inside, Outside, AtItsTask, Status, Active,
       Statuses, AtATask, Places
<1>4. CASE Steps
    <2>1. CASE StepHeld \/ StepRefused \/ CommandEnds \/ Reports \/ ReportGoes
      BY <2>1 DEF StepHeld, StepRefused, CommandEnds, Reports, ReportGoes, Finish, Send, Only,
         Inside, Outside, AtATask, Places
    <2>2. CASE StepStopped \/ StepAsks \/ Decided
      BY <2>2, Turns DEF StepStopped, StepAsks, Decided, Outside, AtATask, Places, Active
    <2> QED BY <1>4, <2>1, <2>2 DEF Steps
<1>5. CASE Settles
    <2>1. CASE Finishes
      <3>1. PICK s \in Over : Status(s)
        BY <2>1 DEF Finishes, EndKnown, Over
      <3>2. cur \in Task /\ cur' = cur /\ pc' = "after"
        BY <2>1 DEF Finishes, Outside, AtItsTask, AtATask, Places
      <3>3. task' \in [Task -> Statuses]
        BY <3>1 DEF Status, Statuses
      <3>4. s \notin Active
        BY DEF Over, Active
      <3>5. \A t \in Task : task'[t] \notin Active
        BY <3>1, <3>2, <3>4 DEF Status
      <3> QED BY <3>2, <3>3, <3>5 DEF AtATask, Active
    <2>2. CASE ~Finishes
      BY <1>5, <2>2 DEF Settles, NoChecks, ChecksStopped, ChecksPass, ChecksCannotRun, ChecksFail,
         ReviewOpens, Reviews, ReviewDecided, ReviewCommandEnds, Accepts, Rejects, ChecksRun,
         GoesToReview, Finish, Send, Only, Inside, Outside, AtATask, Places
    <2> QED BY <2>1, <2>2
<1>6. CASE Session
    BY <1>6 DEF Session, Opened, CannotOpen, TakesNext, NoneIsNext, WindowEndsRun, RetriesFresh,
       FreshOpens, FreshFails, Continues, TaskOver, Closes, Runs, AtItsTask, Status, Queued,
       Active, Statuses, AtATask, Places
<1>7. CASE Operator
    <2>1. CASE Start
      BY <2>1 DEF Start, AtATask, Places
    <2>2. CASE Resume
      BY <2>2 DEF Resume, AtATask, Places
    <2>3. CASE Stop \/ Pause \/ ClosesWindow \/ \E t \in Task : AddNote(t)
      BY <2>3 DEF Stop, Pause, ClosesWindow, AddNote
    <2> QED BY <1>7, <2>1, <2>2, <2>3 DEF Operator
<1>8. CASE UNCHANGED vars
    BY <1>8 DEF vars, hands, chat, told
<1> QED BY <1>1, <1>2, <1>3, <1>4, <1>5, <1>6, <1>7, <1>8 DEF Next, Program

(* No attempt comes to its end without an ending. *)
LEMMA EndKnownKept == EndKnown /\ [Next]_vars => EndKnown'
<1> SUFFICES ASSUME EndKnown, [Next]_vars
             PROVE  EndKnown'
    OBVIOUS
<1> USE DEF EndKnown
<1>1. CASE Sends
    <2>1. end' \in Endings
      BY <1>1, ErrorsEnd DEF Sends, Paced, StoppedAtThePace, ReviewNotSent, NotHeld, Held,
         HeldStopped, Sent, ChatFails, ChatDoesNotAnswer, Answered, BacksOff, Throw, Finish, Send,
         Only, Inside, Outside
    <2>2. pc' \in {"finish", "after"} => end'.st \in Over
      BY <1>1, ErrorsEnd DEF Sends, Paced, StoppedAtThePace, ReviewNotSent, NotHeld, Held,
         HeldStopped, Sent, ChatFails, ChatDoesNotAnswer, Answered, BacksOff, Throw, Finish, Send,
         Only, Inside, Outside
    <2> QED BY <2>1, <2>2
<1>2. CASE Begins
    <2>1. end' \in Endings
      BY <1>2, EndingsMade DEF Begins, TaskBegins, CannotBegin, Composes, Opens, Finish, Send,
         Only, Inside, Outside, Over
    <2>2. pc' \in {"finish", "after"} => end'.st \in Over
      BY <1>2, EndingsMade DEF Begins, TaskBegins, CannotBegin, Composes, Opens, Finish, Send,
         Only, Inside, Outside, Over
    <2> QED BY <2>1, <2>2
<1>3. CASE Looks
    <2>1. end' \in Endings
      BY <1>3, EndingsMade DEF Looks, LookEnds, BadReply, Asks, QuestionAnswered, QuestionStopped,
         Blocked, SaysDone, Proposes, GoesOn, Finish, Send, Only, Inside, Outside, Over
    <2>2. pc' \in {"finish", "after"} => end'.st \in Over
      BY <1>3, EndingsMade DEF Looks, LookEnds, BadReply, Asks, QuestionAnswered, QuestionStopped,
         Blocked, SaysDone, Proposes, GoesOn, Finish, Send, Only, Inside, Outside, Over
    <2> QED BY <2>1, <2>2
<1>4. CASE Steps
    <2>1. end' \in Endings
      BY <1>4, EndingsMade DEF Steps, StepHeld, StepStopped, StepRefused, StepAsks, Decided,
         CommandEnds, Reports, ReportGoes, Finish, Send, Only, Inside, Outside, Over
    <2>2. pc' \in {"finish", "after"} => end'.st \in Over
      BY <1>4, EndingsMade DEF Steps, StepHeld, StepStopped, StepRefused, StepAsks, Decided,
         CommandEnds, Reports, ReportGoes, Finish, Send, Only, Inside, Outside, Over
    <2> QED BY <2>1, <2>2
<1>5. CASE Settles
    <2>1. CASE Finishes
      <3>1. PICK s \in Over : end' = [end EXCEPT !.st = s]
        BY <2>1 DEF Finishes, Over
      <3>2. [end EXCEPT !.st = s] \in Endings /\ [end EXCEPT !.st = s].st = s
        BY DEF Endings
      <3> QED BY <3>1, <3>2
    <2>2. CASE ~Finishes
      <3>1. end' \in Endings
        BY <1>5, <2>2, EndingsMade DEF Settles, NoChecks, ChecksStopped, ChecksPass,
           ChecksCannotRun, ChecksFail, ReviewOpens, Reviews, ReviewDecided, ReviewCommandEnds,
           Accepts, Rejects, ChecksRun, GoesToReview, Finish, Send, Only, Inside, Outside, Over
      <3>2. pc' \in {"finish", "after"} => end'.st \in Over
        BY <1>5, <2>2, EndingsMade DEF Settles, NoChecks, ChecksStopped, ChecksPass,
           ChecksCannotRun, ChecksFail, ReviewOpens, Reviews, ReviewDecided, ReviewCommandEnds,
           Accepts, Rejects, ChecksRun, GoesToReview, Finish, Send, Only, Inside, Outside, Over
      <3> QED BY <3>1, <3>2
    <2> QED BY <2>1, <2>2
<1>6. CASE Session
    BY <1>6 DEF Session, Opened, CannotOpen, TakesNext, NoneIsNext, WindowEndsRun, RetriesFresh,
       FreshOpens, FreshFails, Continues, TaskOver, Closes, Runs
<1>7. CASE Operator
    BY <1>7 DEF Operator, Start, Stop, Pause, Resume, ClosesWindow, AddNote
<1>8. CASE UNCHANGED vars
    BY <1>8 DEF vars, hands, chat, told
<1> QED BY <1>1, <1>2, <1>3, <1>4, <1>5, <1>6, <1>7, <1>8 DEF Next, Program

(* A command makes the work new; only the checks, or the review they go   *)
(* to, end an attempt as done.                                           *)
LEMMA VerdictKept == Verdict /\ [Next]_vars => Verdict'
<1> SUFFICES ASSUME Verdict, [Next]_vars
             PROVE  Verdict'
    OBVIOUS
<1> USE DEF Verdict
<1>1. CASE Sends
    BY <1>1, ErrorsEnd DEF Sends, Paced, StoppedAtThePace, ReviewNotSent, NotHeld, Held,
       HeldStopped, Sent, ChatFails, ChatDoesNotAnswer, Answered, BacksOff, Throw, Finish, Send,
       Only, Inside, Outside, Earned, Reviewing, Sending
<1>2. CASE Begins
    BY <1>2, EndingsMade DEF Begins, TaskBegins, CannotBegin, Composes, Opens, Finish, Send, Only,
       Inside, Outside, Over, Earned, Reviewing, Sending
<1>3. CASE Looks
    BY <1>3, EndingsMade DEF Looks, LookEnds, BadReply, Asks, QuestionAnswered, QuestionStopped,
       Blocked, SaysDone, Proposes, GoesOn, Finish, Send, Only, Inside, Outside, Over, Earned,
       Reviewing, Sending
<1>4. CASE Steps
    <2>1. CASE CommandEnds \/ ReportGoes
      <3>1. /\ NotTheChats("failed").st # "done"
            /\ Ended("aborted").st # "done" /\ Ended("blocked").st # "done"
        BY EndingsMade DEF Over
      <3>2. ~Reviewing'
        BY <2>1 DEF CommandEnds, ReportGoes, Finish, Send, Only, Reviewing, Sending
      <3>3. pc' = "finish" => end'.st # "done"
        BY <2>1, <3>1 DEF CommandEnds, ReportGoes, Finish, Send, Only
      <3> QED BY <3>2, <3>3
    <2>2. CASE StepHeld \/ StepStopped \/ StepRefused \/ StepAsks \/ Decided \/ Reports
      BY <2>2 DEF StepHeld, StepStopped, StepRefused, StepAsks, Decided, Reports, Only,
                  Reviewing, Sending
    <2> QED BY <1>4, <2>1, <2>2 DEF Steps
<1>5. CASE Settles
    BY <1>5, EndingsMade DEF Settles, NoChecks, ChecksStopped, ChecksPass, ChecksCannotRun,
       ChecksFail, ReviewOpens, Reviews, ReviewDecided, ReviewCommandEnds, Accepts, Rejects,
       Finishes, ChecksRun, GoesToReview, Finish, Send, Only, Inside, Outside, Over, Earned,
       Reviewing, Sending
<1>6. CASE Session
    BY <1>6 DEF Session, Opened, CannotOpen, TakesNext, NoneIsNext, WindowEndsRun, RetriesFresh,
       FreshOpens, FreshFails, Continues, TaskOver, Closes, Runs, Earned, Reviewing, Sending
<1>7. CASE Operator
    BY <1>7 DEF Operator, Start, Stop, Pause, Resume, ClosesWindow, AddNote, Earned, Reviewing,
       Sending
<1>8. CASE UNCHANGED vars
    BY <1>8 DEF vars, hands, chat, told, Earned, Reviewing, Sending
<1> QED BY <1>1, <1>2, <1>3, <1>4, <1>5, <1>6, <1>7, <1>8 DEF Next, Program

(* What is done stays as its last checks and review left it: the run is at *)
(* another task before a command runs again.                              *)
LEMMA EarnedKept ==
  DoneIsEarned /\ Marked /\ AtItsTask /\ EndKnown /\ Verdict /\ [Next]_vars => DoneIsEarned'
<1> SUFFICES ASSUME DoneIsEarned, Marked, AtItsTask, EndKnown, Verdict, [Next]_vars
             PROVE  DoneIsEarned'
    OBVIOUS
<1> USE DEF DoneIsEarned
<1>1. CASE Sends
    BY <1>1 DEF Sends, Paced, StoppedAtThePace, ReviewNotSent, NotHeld, Held, HeldStopped, Sent,
       ChatFails, ChatDoesNotAnswer, Answered, BacksOff, Throw, Finish, Send, Only, Inside,
       Outside, Marked, AtItsTask, Verdict, Earned, AtATask, Places, Active, Status, Queued, Task
<1>2. CASE Begins
    BY <1>2 DEF Begins, TaskBegins, CannotBegin, Composes, Opens, Finish, Send, Only, Inside,
       Outside, Marked, AtItsTask, Verdict, Earned, AtATask, Places, Active, Status, Queued, Task
<1>3. CASE Looks
    BY <1>3 DEF Looks, LookEnds, BadReply, Asks, QuestionAnswered, QuestionStopped, Blocked,
       SaysDone, Proposes, GoesOn, Finish, Send, Only, Inside, Outside, Marked, AtItsTask,
       Verdict, Earned, AtATask, Places, Active, Status, Queued, Task
<1>4. CASE Steps
    BY <1>4 DEF Steps, StepHeld, StepStopped, StepRefused, StepAsks, Decided, CommandEnds,
       Reports, ReportGoes, Finish, Send, Only, Inside, Outside, Marked, AtItsTask, Verdict,
       Earned, AtATask, Places, Active, Status, Queued, Task
<1>5. CASE Settles
    BY <1>5 DEF Settles, NoChecks, ChecksStopped, ChecksPass, ChecksCannotRun, ChecksFail,
       ReviewOpens, Reviews, ReviewDecided, ReviewCommandEnds, Accepts, Rejects, Finishes,
       ChecksRun, GoesToReview, Finish, Send, Only, Inside, Outside, Marked, AtItsTask, Verdict,
       Earned, AtATask, Places, Active, Status, Queued, Task
<1>6. CASE Session
    BY <1>6 DEF Session, Opened, CannotOpen, TakesNext, NoneIsNext, WindowEndsRun, RetriesFresh,
       FreshOpens, FreshFails, Continues, TaskOver, Closes, Runs, Marked, AtItsTask, Verdict,
       Earned, AtATask, Places, Active, Status, Queued, Task
<1>7. CASE Operator
    BY <1>7 DEF Operator, Start, Stop, Pause, Resume, ClosesWindow, AddNote, Task
<1>8. CASE UNCHANGED vars
    BY <1>8 DEF vars, hands, chat, told
<1> QED BY <1>1, <1>2, <1>3, <1>4, <1>5, <1>6, <1>7, <1>8 DEF Next, Program

(* Nothing sent, and nothing new to send once Stop is pressed: all is quiet. *)
LEMMA NothingSent ==
  ASSUME Quiet, late' = late, faults' = faults, pauses' = pauses, signal' = signal,
         MaySend' => MaySend \/ ~signal
  PROVE  Quiet'
BY DEF Quiet

(* Each way to the next message looks for Stop first, but for the message *)
(* under way, and the report sent again after a failure of the chat.     *)
LEMMA QuietKept == Quiet /\ Counting /\ [Next]_vars => Quiet'
<1> SUFFICES ASSUME Quiet, Counting, [Next]_vars
             PROVE  Quiet'
    OBVIOUS
<1> USE DEF Quiet
<1>1. CASE Sends
    <2>1. CASE Paced \/ StoppedAtThePace \/ ReviewNotSent \/ NotHeld \/ Held \/ HeldStopped
               \/ Answered \/ BacksOff
      <3>1. late' = late /\ faults' = faults /\ pauses' = pauses /\ signal' = signal
        BY <2>1 DEF Paced, StoppedAtThePace, ReviewNotSent, NotHeld, Held, HeldStopped, Answered,
           BacksOff, Throw, Finish, Send, Only, Inside, Outside, hands, chat, told
      <3>2. MaySend' => MaySend
        BY <2>1 DEF Paced, StoppedAtThePace, ReviewNotSent, NotHeld, Held, HeldStopped, Answered,
           BacksOff, Throw, Finish, Send, Only, Inside, Outside, MaySend
      <3> QED BY <3>1, <3>2, NothingSent
    <2>2. CASE Sent
      BY <2>2 DEF Sent, MaySend, hands, chat
    <2>3. CASE ChatFails
      BY <2>3 DEF ChatFails, Throw, Finish, Send, MaySend, hands, told
    <2>4. CASE ChatDoesNotAnswer
      BY <2>4 DEF ChatDoesNotAnswer, Throw, Finish, Send, MaySend, hands, told
    <2> QED BY <1>1, <2>1, <2>2, <2>3, <2>4 DEF Sends
<1>2. CASE Begins
    <2>1. late' = late /\ faults' = faults /\ pauses' = pauses /\ signal' = signal
      BY <1>2 DEF Begins, TaskBegins, CannotBegin, Composes, Opens, Finish, Send, Only, Inside,
         Outside, hands, chat, told
    <2>2. MaySend' => MaySend \/ ~signal
      BY <1>2 DEF Begins, TaskBegins, CannotBegin, Composes, Opens, Finish, Send, Only, Inside,
         Outside, MaySend
    <2> QED BY <2>1, <2>2, NothingSent
<1>3. CASE Looks
    <2>1. late' = late /\ faults' = faults /\ pauses' = pauses /\ signal' = signal
      BY <1>3 DEF Looks, LookEnds, BadReply, Asks, QuestionAnswered, QuestionStopped, Blocked,
         SaysDone, Proposes, GoesOn, Finish, Send, Only, Inside, Outside, hands, chat, told
    <2>2. MaySend' => MaySend \/ ~signal
      BY <1>3 DEF Looks, LookEnds, BadReply, Asks, QuestionAnswered, QuestionStopped, Blocked,
         SaysDone, Proposes, GoesOn, Finish, Send, Only, Inside, Outside, MaySend
    <2> QED BY <2>1, <2>2, NothingSent
<1>4. CASE Steps
    <2>1. late' = late /\ faults' = faults /\ pauses' = pauses /\ signal' = signal
      BY <1>4 DEF Steps, StepHeld, StepStopped, StepRefused, StepAsks, Decided, CommandEnds,
         Reports, ReportGoes, Finish, Send, Only, Inside, Outside, hands, chat, told
    <2>2. MaySend' => MaySend \/ ~signal
      BY <1>4, StoppedSet DEF Steps, StepHeld, StepStopped, StepRefused, StepAsks, Decided,
         CommandEnds, Reports, ReportGoes, Finish, Send, Only, Inside, Outside, MaySend, Counting
    <2> QED BY <2>1, <2>2, NothingSent
<1>5. CASE Settles
    <2>1. late' = late /\ faults' = faults /\ pauses' = pauses /\ signal' = signal
      BY <1>5 DEF Settles, NoChecks, ChecksStopped, ChecksPass, ChecksCannotRun, ChecksFail,
         ReviewOpens, Reviews, ReviewDecided, ReviewCommandEnds, Accepts, Rejects, Finishes,
         ChecksRun, GoesToReview, Finish, Send, Only, Inside, Outside, hands, chat, told
    <2>2. MaySend' => MaySend \/ ~signal
      BY <1>5 DEF Settles, NoChecks, ChecksStopped, ChecksPass, ChecksCannotRun, ChecksFail,
         ReviewOpens, Reviews, ReviewDecided, ReviewCommandEnds, Accepts, Rejects, Finishes,
         ChecksRun, GoesToReview, Finish, Send, Only, Inside, Outside, MaySend
    <2> QED BY <2>1, <2>2, NothingSent
<1>6. CASE Session
    <2>1. late' = late /\ faults' = faults /\ pauses' = pauses /\ signal' = signal
      BY <1>6 DEF Session, Opened, CannotOpen, TakesNext, NoneIsNext, WindowEndsRun, RetriesFresh,
         FreshOpens, FreshFails, Continues, TaskOver, Closes, Runs, hands, chat, told
    <2>2. MaySend' => MaySend \/ ~signal
      BY <1>6 DEF Session, Opened, CannotOpen, TakesNext, NoneIsNext, WindowEndsRun, RetriesFresh,
         FreshOpens, FreshFails, Continues, TaskOver, Closes, Runs, MaySend
    <2> QED BY <2>1, <2>2, NothingSent
<1>7. CASE Operator
    <2>1. CASE Start
      BY <2>1 DEF Start, MaySend, chat
    <2>2. CASE Stop
      BY <2>2 DEF Stop, MaySend, chat
    <2>3. CASE Pause
      BY <2>3 DEF Pause, MaySend, chat, told
    <2>4. CASE Resume
      <3>1. late' = late /\ faults' = faults /\ pauses' = pauses /\ signal' = signal
        BY <2>4 DEF Resume, chat, told
      <3>2. MaySend' => MaySend
        BY <2>4 DEF Resume, MaySend
      <3> QED BY <3>1, <3>2, NothingSent
    <2>5. CASE ClosesWindow
      BY <2>5 DEF ClosesWindow, MaySend, hands, told
    <2>6. CASE \E t \in Task : AddNote(t)
      BY <2>6 DEF AddNote, MaySend, hands, chat, told
    <2> QED BY <1>7, <2>1, <2>2, <2>3, <2>4, <2>5, <2>6 DEF Operator
<1>8. CASE UNCHANGED vars
    BY <1>8 DEF vars, hands, chat, told, MaySend
<1> QED BY <1>1, <1>2, <1>3, <1>4, <1>5, <1>6, <1>7, <1>8 DEF Next, Program

----------------------------------------------------------------------------
(* The invariant, and what follows from it. *)

(* It holds before the first run. *)
LEMMA IInvInit == Init => IInv
<1> SUFFICES ASSUME Init
             PROVE  IInv
    OBVIOUS
<1> USE DEF Init
<1>1. Switches
    BY DEF Switches
<1>2. Control /\ Notes
    BY DEF Control, Notes, Places, Messages
<1>3. Counting
    BY DEF Counting, Counters, Fresh, Opening, Stepping, Sending
<1>4. AttemptsCounted
    BY ConstantTypes DEF AttemptsCounted, NoneYet
<1>5. Numbered
  <2>1. N \in Nat
    BY ConstantTypes
  <2> QED BY <2>1 DEF Numbered
<1>6. Living /\ AtItsTask
    BY DEF Living, AtItsTask, AtATask
<1>7. Marked
    BY DEF Marked, AtATask, Statuses, Active
<1>8. EndKnown
    BY DEF EndKnown, Ended, Endings
<1>9. Verdict
    BY DEF Verdict, Reviewing, Sending
<1>10. DoneIsEarned
    BY DEF DoneIsEarned
<1>11. Quiet
    BY DEF Quiet, MaySend
<1> QED BY <1>1, <1>2, <1>3, <1>4, <1>5, <1>6, <1>7, <1>8, <1>9, <1>10, <1>11 DEF IInv

(* Every step of the program and of the operator keeps it. *)
THEOREM Inductive == IInv /\ [Next]_vars => IInv'
BY SwitchesKept, ControlKept, NotesKept, CountingKept, AttemptsKept, NumberedKept, LivingKept,
   AtItsTaskKept, MarkedKept, EndKnownKept, VerdictKept, EarnedKept, QuietKept DEF IInv

(* It holds in every state of every behaviour. *)
THEOREM Invariant == Spec => []IInv
BY IInvInit, Inductive, PTL DEF Spec

(* Every variable has its shape: the counters stay numbers, no run leaves its *)
(* loop's places, no attempt ends without an ending.                          *)
THEOREM TypeCorrect == Spec => []TypeOK
<1>1. IInv => TypeOK
  <2> SUFFICES ASSUME IInv
               PROVE  TypeOK
    OBVIOUS
  <2>1. again \in [runs : Nat, retried : Nat, continued : Nat]
    BY ConstantTypes DEF IInv, AttemptsCounted
  <2> QED BY <2>1 DEF IInv, Switches, Control, Notes, Counting, Numbered, Marked, EndKnown, Quiet,
     TypeOK
<1> QED BY <1>1, Invariant, PTL

(* However an attempt or a run ends, no task is left as at work or waiting. *)
THEOREM NoneLeftAtWork == Spec => []ActiveIsAtWork
<1>1. IInv => ActiveIsAtWork
    BY DEF IInv, Marked, Living, AtATask, ActiveIsAtWork
<1> QED BY <1>1, Invariant, PTL

(* The attempts at a task are bounded by the fresh chats and continuations   *)
(* its limits allow, in whichever order they are used.                       *)
THEOREM AttemptsAreBounded == Spec => []AttemptsBounded
<1>1. IInv => AttemptsBounded
    BY ConstantTypes DEF IInv, AttemptsCounted, AttemptsBounded
<1> QED BY <1>1, Invariant, PTL

(* Done is said only of work as its last checks and its last review left it. *)
THEOREM DoneOnlyWhenEarned == Spec => []DoneIsEarned
<1>1. IInv => DoneIsEarned
    BY DEF IInv
<1> QED BY <1>1, Invariant, PTL

(* After Stop at most one message goes, and one more for each failure of the *)
(* chat or window closed.                                                    *)
THEOREM QuietAfterStop == Spec => []AtMostOneAfterStop
<1>1. IInv => AtMostOneAfterStop
    BY DEF IInv, Quiet, AtMostOneAfterStop
<1> QED BY <1>1, Invariant, PTL

=============================================================================
