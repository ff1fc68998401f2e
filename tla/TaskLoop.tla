------------------------------ MODULE TaskLoop ------------------------------
(***************************************************************************)
(* A session's run (runSession, src/orchestrator/taskRunner.ts) and, for   *)
(* each of its tasks, the loop of runTask: the opening messages, the look  *)
(* at each reply, the commands and their cards, the report, the checks a   *)
(* task reported done must pass, the review by a conversation of its own,  *)
(* and how the attempt ends; the retries and continuations that follow;    *)
(* with the operator's Stop, Pause, Continue and notes at any await, and a *)
(* chat that fails, does not answer, or whose window is closed.            *)
(*                                                                         *)
(* What a reply, a command or a check says is one of the few outcomes the  *)
(* code tells apart.  Left out: plan mode, the lead's sessions, a handoff  *)
(* (it goes as a question does), version control (its refusals are here).  *)
(***************************************************************************)
EXTENDS Naturals

CONSTANTS
  N,                \* the session's tasks are 1..N, run in this order
  Checked,          \* the tasks have checks of their own
  ReviewWanted,     \* work reported done is reviewed
  ContinueOnFailure,\* the next task runs when one did not end done
  Gap,              \* a message may have to wait for the pause or the hourly cap
  MaxIterations, MaxFormatRetries, MaxEarlyBlocks, MaxCheckRounds,
  MaxReviewRounds, MaxReviewIterations, UploadRetries,
  RetryBlocked,     \* limits.retryBlockedInFreshChat
  AutoContinue,     \* limits.autoContinue
  MaxSteps,         \* bound: commands in one reply
  MaxFaults,        \* bound: failures of the chat, or the window closed
  MaxPauses,        \* bound: presses of Pause
  MaxNotes          \* bound: notes, one for each task at most

Task == 1 .. N
Limits == {MaxIterations, MaxFormatRetries, MaxEarlyBlocks, MaxCheckRounds,
           MaxReviewRounds, MaxReviewIterations, UploadRetries, RetryBlocked, AutoContinue,
           MaxSteps, MaxFaults, MaxPauses, MaxNotes}

ASSUME TaskLoopConstants ==
  /\ N \in Nat /\ Limits \subseteq Nat /\ MaxSteps > 0
  /\ {Checked, ReviewWanted, ContinueOnFailure, Gap} \subseteq BOOLEAN

VARIABLES
  task,     \* the tasks' status, as the store keeps it
  note,     \* the operator's note on each task
  pc, cur,  \* where the run is, and the task it is at
  n,        \* runTask's counters and flags, new in each attempt
  msg,      \* the message it sends, or waits for the answer to
  work,     \* what the gate has said of the work as it stands
  end,      \* how the attempt ends
  again,    \* runSession's counters for the task it is at
  live,     \* OperatorService.running has the session
  signal,   \* the run's AbortSignal: Stop was pressed
  paused,   \* Hold
  open,     \* the browser's window is open
  faults, pauses,
  late,     \* messages gone since Stop
  caught    \* a message was held by Pause when Stop was pressed

hands == <<live, signal, paused, pauses>>
chat == <<open, faults>>
told == <<late, caught>>
vars == <<task, note, pc, cur, n, msg, work, end, again, hands, chat, told>>

Over == {"done", "failed", "blocked", "aborted", "limit-reached"}
Active == {"running", "waiting-approval"}

Fresh == [iterations |-> 0, format |-> 0, early |-> 0, checks |-> 0, reviews |-> 0,
          looks |-> 0, tries |-> 0, opens |-> 0, steps |-> 0,
          ran |-> FALSE, stopped |-> FALSE, done |-> FALSE, broke |-> FALSE]
Ended(s) == [st |-> s, limit |-> FALSE, notTheChats |-> FALSE, failure |-> FALSE]
AtLimit(s) == [Ended(s) EXCEPT !.limit = TRUE]
NotTheChats(s) == [Ended(s) EXCEPT !.notTheChats = TRUE]

NoneYet == [runs |-> 0, retried |-> 0, continued |-> 0]

Init ==
  /\ task = [t \in Task |-> "queued"]
  /\ note = [t \in Task |-> "none"]
  /\ pc = "off" /\ cur = 0 /\ n = Fresh /\ msg = "none" /\ work = "new"
  /\ end = Ended("none") /\ again = NoneYet
  /\ live = FALSE /\ signal = FALSE /\ paused = FALSE /\ pauses = 0
  /\ open = TRUE /\ faults = 0
  /\ late = 0 /\ caught = FALSE

----------------------------------------------------------------------------
(* The parts of a step: what it leaves as it was is said by the last ones. *)

Status(s) == task' = [task EXCEPT ![cur] = s]
Finish(e) == pc' = "finish" /\ end' = e
Send(m) == pc' = "pace" /\ msg' = m
Outside == UNCHANGED <<cur, again, hands, chat, told>>
Inside == Outside /\ UNCHANGED <<task, note>>
Only(v) == Inside /\ UNCHANGED v

(* runTask's catch: which ending an error is. *)
EndingOf(e) ==
  CASE e = "stopped send" -> Ended("aborted")
    [] e = "timeout" -> AtLimit("limit-reached")
    [] e \notin {"stopped send", "timeout"} /\ ~open -> Ended("aborted")
    [] OTHER -> [Ended("failed") EXCEPT !.failure = TRUE]

(* An error while msg is sent or its answer waited for.  A report is tried  *)
(* again, the last time as text; an error of the review is its verdict.     *)
Throw(e, m) ==
  \/ /\ msg = "report" /\ e # "timeout" /\ open /\ m.tries < UploadRetries
     /\ pc' = "backoff" /\ n' = [m EXCEPT !.tries = @ + 1]
     /\ UNCHANGED <<msg, end, work>>
  \/ /\ msg = "report" /\ e # "timeout" /\ open /\ m.tries = UploadRetries
     /\ Send("text") /\ n' = m /\ UNCHANGED <<end, work>>
  \/ /\ msg = "review"
     /\ pc' = "error" /\ n' = m /\ UNCHANGED <<msg, end, work>>
  \/ /\ msg # "review" /\ (msg # "report" \/ e = "timeout" \/ ~open)
     /\ Finish(EndingOf(e)) /\ n' = m /\ UNCHANGED <<msg, work>>

----------------------------------------------------------------------------
(* A message: the pacer's wait, the hold, the sending, the answer. *)

Paced ==
  /\ pc = "pace" /\ pc' = "hold"
  /\ Only(<<n, msg, work, end>>)

(* The pacer's sleep is rejected by Stop. *)
StoppedAtThePace ==
  /\ pc = "pace" /\ Gap /\ signal
  /\ Throw("aborted", n)
  /\ Inside

(* sendsUntilStopped: the review's messages, before the hold. *)
ReviewNotSent ==
  /\ pc = "hold" /\ msg = "review" /\ signal
  /\ Throw("stopped send", n)
  /\ Inside

(* holdHere: nothing holds once the run is stopped. *)
NotHeld ==
  /\ pc = "hold" /\ (~paused \/ signal) /\ ~(msg = "review" /\ signal)
  /\ pc' = "send"
  /\ Only(<<n, msg, work, end>>)

Held ==
  /\ pc = "hold" /\ paused /\ ~signal
  /\ pc' = "held"
  /\ Only(<<n, msg, work, end>>)

(* Mutant: what is held waits for Continue alone. *)
HeldStays == pc = "held" /\ signal /\ UNCHANGED vars

(* Stopped while held: nothing is sent. *)
HeldStopped ==
  /\ pc = "held" /\ signal
  /\ Throw("stopped send", n)
  /\ Inside

Carries == msg \in {"report", "text"} \/ (msg = "opening" /\ n.opens = 1)

Sent ==
  /\ pc = "send" /\ open
  /\ pc' = "answer"
  /\ note' = [note EXCEPT ![cur] = IF Carries /\ @ = "taken" THEN "out" ELSE @]
  /\ late' = IF signal THEN late + 1 ELSE late
  /\ UNCHANGED <<task, cur, n, msg, work, end, again, hands, chat, caught>>

(* The chat fails while it sends or answers, or its window is closed. *)
ChatFails ==
  /\ pc \in {"send", "answer"}
  /\ \/ open /\ faults < MaxFaults /\ faults' = faults + 1
     \/ ~open /\ UNCHANGED faults
  /\ UNCHANGED open
  /\ Throw("failed", [n EXCEPT !.broke = TRUE])
  /\ UNCHANGED <<task, note, cur, again, hands, told>>

ChatDoesNotAnswer ==
  /\ pc = "answer" /\ open /\ faults < MaxFaults /\ faults' = faults + 1
  /\ UNCHANGED open
  /\ Throw("timeout", n)
  /\ UNCHANGED <<task, note, cur, again, hands, told>>

Answered ==
  /\ pc = "answer" /\ open
  /\ \/ /\ msg = "opening" /\ n' = [n EXCEPT !.opens = @ - 1]
        /\ pc' = IF n.opens = 1 THEN "look" ELSE "opening"
     \/ /\ msg \in {"report", "text"} /\ n' = [n EXCEPT !.done = FALSE]
        /\ pc' = IF n.done THEN "gate" ELSE "look"
     \/ /\ msg \in {"repair", "answer", "checks", "findings"} /\ pc' = "look" /\ UNCHANGED n
     \/ /\ msg = "review" /\ pc' = "review" /\ UNCHANGED n
  /\ Only(<<msg, work, end>>)

BacksOff ==
  /\ pc = "backoff" /\ pc' = "pace"
  /\ Only(<<n, msg, work, end>>)

----------------------------------------------------------------------------
(* runTask: what comes before its loop. *)

TaskBegins ==
  /\ pc = "begin" /\ pc' = "prepare"
  /\ Status("running") /\ again' = [again EXCEPT !.runs = @ + 1]
  /\ n' = Fresh /\ work' = "new"
  /\ UNCHANGED <<note, cur, msg, end, hands, chat, told>>

(* No branch, a check that can never run; a task that contradicts itself, *)
(* no model for the conversation it is carried on in.                     *)
CannotBegin ==
  /\ pc = "prepare"
  /\ \/ Finish(Ended("failed")) \/ Finish(NotTheChats("failed"))
     \/ Finish(NotTheChats("blocked"))
  /\ Only(<<n, msg, work>>)

(* takeUnsentNotes: marked as sent. *)
TakeNote == note' = [note EXCEPT ![cur] = IF @ = "unsent" THEN "taken" ELSE @]

Composes ==
  /\ pc = "prepare" /\ pc' = "opening"
  /\ TakeNote
  /\ \E k \in 1 .. 2 : n' = [n EXCEPT !.opens = k]
  /\ UNCHANGED <<task, msg, work, end>> /\ Outside

Opens ==
  /\ pc = "opening"
  /\ IF signal THEN Finish(Ended("aborted")) /\ UNCHANGED msg
               ELSE Send("opening") /\ UNCHANGED end
  /\ Only(<<n, work>>)

----------------------------------------------------------------------------
(* runTask's loop: each reply. *)

(* Mutant: Stop is not looked for between two replies. *)
GoesOnAnyway == pc = "look" /\ n.iterations < MaxIterations
GoesOn == pc = "look" /\ ~signal /\ n.iterations < MaxIterations
Counted == [n EXCEPT !.iterations = @ + 1, !.format = 0]

LookEnds ==
  /\ pc = "look"
  /\ \/ signal /\ Finish(Ended("aborted"))
     \/ ~signal /\ Finish(AtLimit("limit-reached"))  \* out of minutes, or of iterations
  /\ Only(<<n, msg, work>>)

(* Mutant: a reply in the wrong shape is sent back uncounted. *)
BadReplyUncounted ==
  /\ GoesOn /\ Send("repair")
  /\ Only(<<n, end, work>>)

BadReply ==
  /\ GoesOn
  /\ n' = [n EXCEPT !.format = @ + 1]
  /\ IF n.format < MaxFormatRetries THEN Send("repair") /\ UNCHANGED end
     ELSE Finish(AtLimit("limit-reached")) /\ UNCHANGED msg
  /\ Only(work)

(* A question, or commands handed over: put to the operator, or answered as *)
(* the chat recommends.                                                     *)
Asks ==
  /\ GoesOn
  /\ \/ /\ pc' = "question" /\ Status("waiting-approval")
        /\ n' = Counted /\ UNCHANGED msg
     \/ Send("answer") /\ n' = Counted /\ UNCHANGED task
     \/ /\ pc' = "step" /\ n' = [Counted EXCEPT !.steps = 1, !.early = 0, !.stopped = FALSE]
        /\ UNCHANGED <<task, msg>>
  /\ UNCHANGED <<note, work, end>> /\ Outside

(* An answer may carry a command, which is then the reply's only step. *)
QuestionAnswered ==
  /\ pc = "question" /\ ~signal /\ Status("running")
  /\ \/ Send("answer") /\ UNCHANGED <<n, end>>
     \/ pc' = "step" /\ n' = [n EXCEPT !.steps = 1, !.early = 0, !.stopped = FALSE] /\ UNCHANGED <<msg, end>>
     \/ Finish(Ended("aborted")) /\ UNCHANGED <<n, msg>>
  /\ UNCHANGED <<note, work>> /\ Outside

(* Mutant: the task's status is left as it was at the card. *)
QuestionLeft ==
  /\ pc = "question" /\ signal
  /\ UNCHANGED task /\ Finish(Ended("aborted"))
  /\ UNCHANGED <<note, n, msg, work>> /\ Outside

QuestionStopped ==
  /\ pc = "question" /\ signal
  /\ Status("running") /\ Finish(Ended("aborted"))
  /\ UNCHANGED <<note, n, msg, work>> /\ Outside

(* "blocked" before any command ran, or after too few approaches, is sent  *)
(* back, at most MaxEarlyBlocks times in a row.                            *)
Blocked ==
  /\ GoesOn
  /\ \/ /\ n.early < MaxEarlyBlocks
        /\ n' = [Counted EXCEPT !.early = @ + 1]
        /\ Send("repair") /\ UNCHANGED end
     \/ /\ n.ran \/ n.early = MaxEarlyBlocks
        /\ n' = Counted
        /\ Finish(Ended("blocked")) /\ UNCHANGED msg
  /\ Only(work)

SaysDone ==
  /\ GoesOn /\ n' = Counted /\ pc' = "gate"
  /\ Only(<<msg, work, end>>)

Proposes ==
  /\ GoesOn /\ pc' = "step"
  /\ \E k \in 1 .. MaxSteps, d \in BOOLEAN :
       n' = [Counted EXCEPT !.steps = k, !.done = d, !.early = 0, !.stopped = FALSE]
  /\ Only(<<msg, work, end>>)

----------------------------------------------------------------------------
(* The commands of a reply: the hold, the card, the command. *)

StepHeld ==
  /\ pc = "step" /\ paused /\ ~signal
  /\ pc' = "step held"
  /\ Only(<<n, msg, work, end>>)

StepStopped ==
  /\ pc \in {"step", "step held", "card"} /\ signal
  /\ pc' = "report" /\ n' = [n EXCEPT !.stopped = TRUE] /\ Status("running")
  /\ UNCHANGED <<note, msg, work, end>> /\ Outside

(* Refused unseen: damaged, a shell this machine has not got, a repeat. *)
StepRefused ==
  /\ pc = "step" /\ ~paused /\ ~signal
  /\ \/ pc' = "report" /\ UNCHANGED n
     \/ n.steps > 1 /\ pc' = "step" /\ n' = [n EXCEPT !.steps = @ - 1]
  /\ Only(<<msg, work, end>>)

StepAsks ==
  /\ pc = "step" /\ ~paused /\ ~signal
  /\ pc' = "card" /\ Status("waiting-approval")
  /\ UNCHANGED <<note, n, msg, work, end>> /\ Outside

(* authorize: run, whoever said so; skipped, with the rest of the reply;    *)
(* or the attempt given up at the card.                                     *)
Decided ==
  /\ pc = "card" /\ ~signal /\ Status("running")
  /\ \/ pc' = "command" /\ UNCHANGED n
     \/ pc' = "report" /\ UNCHANGED n
     \/ pc' = "report" /\ n' = [n EXCEPT !.stopped = TRUE]
  /\ UNCHANGED <<note, msg, work, end>> /\ Outside

(* runStep has a time limit, and Stop cuts it off. *)
CommandEnds ==
  /\ pc = "command" /\ work' = "new"
  /\ \/ /\ signal /\ pc' = "report"
        /\ n' = [n EXCEPT !.ran = TRUE, !.stopped = TRUE] /\ UNCHANGED end
     \/ /\ ~signal /\ n' = [n EXCEPT !.ran = TRUE]
        /\ Finish(NotTheChats("failed"))
     \/ /\ ~signal /\ n' = [n EXCEPT !.ran = TRUE, !.steps = @ - 1] /\ UNCHANGED end
        /\ \/ pc' = "report"
           \/ n.steps > 1 /\ pc' = "step"
  /\ Only(msg)

(* The operator's notes are marked as sent before the report is written. *)
Reports ==
  /\ pc = "report" /\ pc' = "written"
  /\ TakeNote
  /\ UNCHANGED <<task, n, msg, work, end>> /\ Outside

(* Stopped; or nothing new in several rounds; or the report goes. *)
ReportGoes ==
  /\ pc = "written"
  /\ \/ n.stopped /\ Finish(Ended("aborted")) /\ UNCHANGED <<n, msg>>
     \/ ~n.stopped /\ Finish(Ended("blocked")) /\ UNCHANGED <<n, msg>>
     \/ ~n.stopped /\ Send("report") /\ n' = [n EXCEPT !.tries = 0] /\ UNCHANGED end
  /\ Only(work)

----------------------------------------------------------------------------
(* settleDone: the checks, then the review. *)

GoesToReview == IF ReviewWanted THEN pc' = "review opens" /\ UNCHANGED end
                                ELSE Finish(Ended("done"))

NoChecks ==
  /\ pc = "gate" /\ ~Checked
  /\ GoesToReview /\ work' = "checked"
  /\ Only(<<n, msg>>)

(* Checks of the task's own, or left by an earlier review. *)
ChecksRun == pc = "gate" /\ (Checked \/ n.reviews > 0)

ChecksStopped ==
  /\ ChecksRun /\ signal
  /\ Finish(Ended("aborted"))
  /\ Only(<<n, msg, work>>)

ChecksPass ==
  /\ ChecksRun /\ ~signal
  /\ n' = [n EXCEPT !.checks = @ + 1] /\ work' = "checked"
  /\ GoesToReview
  /\ Only(msg)

(* A shell that is not there, or a check refused for good. *)
ChecksCannotRun ==
  /\ ChecksRun /\ ~signal
  /\ Finish(NotTheChats("failed"))
  /\ Only(<<n, msg, work>>)

(* Sent back; no progress since the last round; or the rounds run out: then *)
(* a task fails, unless only a review's checks still fail, and the next     *)
(* review decides.                                                          *)
ChecksFail ==
  /\ ChecksRun /\ ~signal
  /\ n' = [n EXCEPT !.checks = @ + 1]
  /\ \/ n.checks > 0 /\ Finish(Ended("blocked")) /\ UNCHANGED <<msg, work>>
     \/ n.checks < MaxCheckRounds /\ Send("checks") /\ UNCHANGED <<end, work>>
     \/ n.checks >= MaxCheckRounds /\ Finish(AtLimit("failed")) /\ UNCHANGED <<msg, work>>
     \/ /\ n.checks >= MaxCheckRounds /\ n.reviews > 0 /\ ReviewWanted
        /\ work' = "checked" /\ GoesToReview /\ UNCHANGED msg
  /\ Inside

(* The review opens a conversation of its own, or is in error. *)
ReviewOpens ==
  /\ pc = "review opens"
  /\ \/ signal /\ Finish(Ended("aborted")) /\ UNCHANGED <<n, msg>>
     \/ /\ ~signal /\ n' = [n EXCEPT !.reviews = @ + 1, !.looks = 0] /\ UNCHANGED end
        /\ \/ open /\ Send("review")
           \/ pc' = "error" /\ UNCHANGED msg
  /\ Only(work)

(* The reviewer's answer: another message to it, a command, or a verdict. *)
Reviews ==
  /\ pc = "review"
  /\ n' = [n EXCEPT !.looks = @ + 1]
  /\ \/ /\ (signal \/ n.looks = MaxReviewIterations)
        /\ pc' = "error" /\ UNCHANGED msg
     \/ /\ ~signal /\ n.looks < MaxReviewIterations
        /\ \/ Send("review")
           \/ pc' \in {"review card", "pass", "fail", "error"} /\ UNCHANGED msg
  /\ Only(<<work, end>>)

ReviewDecided ==
  /\ pc = "review card"
  /\ \/ signal /\ pc' = "error" /\ UNCHANGED msg
     \/ ~signal /\ pc' = "review command" /\ UNCHANGED msg
     \/ ~signal /\ Send("review")
  /\ Only(<<n, work, end>>)

ReviewCommandEnds ==
  /\ pc = "review command"
  /\ IF signal THEN pc' = "error" /\ UNCHANGED msg ELSE Send("review")
  /\ Only(<<n, work, end>>)

(* A review in error accepts the work unreviewed; Stop accepts nothing. *)
Accepts ==
  /\ pc \in {"pass", "error"}
  /\ IF signal THEN Finish(Ended("aborted")) /\ UNCHANGED work
               ELSE Finish(Ended("done")) /\ work' = "accepted"
  /\ Only(<<n, msg>>)

(* Mutant: the rounds of review run out, and the work is let through. *)
RejectsNoMore ==
  /\ pc = "fail"
  /\ \/ signal /\ Finish(Ended("aborted")) /\ UNCHANGED msg
     \/ ~signal /\ n.reviews > MaxReviewRounds /\ Finish(Ended("done")) /\ UNCHANGED msg
     \/ ~signal /\ n.reviews <= MaxReviewRounds /\ Send("findings") /\ UNCHANGED end
  /\ Only(<<n, work>>)

(* The findings are the task's own fault, or are sent back to be fixed. *)
Rejects ==
  /\ pc = "fail"
  /\ \/ signal /\ Finish(Ended("aborted")) /\ UNCHANGED msg
     \/ ~signal /\ Finish(Ended("blocked")) /\ UNCHANGED msg
     \/ ~signal /\ n.reviews > MaxReviewRounds /\ Finish(AtLimit("blocked")) /\ UNCHANGED msg
     \/ ~signal /\ n.reviews <= MaxReviewRounds /\ Send("findings") /\ UNCHANGED end
  /\ Only(<<n, work>>)

(* finish: what ended done may still fail, at the input files, a read-only  *)
(* task's changes, the commit or the checks after it; those last decide     *)
(* nothing once stopped.                                                    *)
Finishes ==
  /\ pc = "finish" /\ pc' = "after"
  /\ \E s \in IF end.st # "done" THEN {end.st}
              ELSE {"done", "failed"} \cup (IF signal THEN {"aborted"} ELSE {}) :
       Status(s) /\ end' = [end EXCEPT !.st = s]
  /\ UNCHANGED <<note, n, msg, work>> /\ Outside

----------------------------------------------------------------------------
(* runSession. *)

Runs(v) == UNCHANGED <<note, n, msg, work, end, hands, told>> /\ UNCHANGED v
Queued(t) == task[t] = "queued"

Start ==
  /\ ~live /\ pc = "off" /\ \E t \in Task : Queued(t)
  /\ pc' = "window" /\ live' = TRUE /\ signal' = FALSE
  /\ late' = 0 /\ caught' = FALSE /\ cur' = 0
  /\ UNCHANGED <<task, note, n, msg, work, end, again, paused, pauses, chat>>

Opened ==
  /\ pc = "window" /\ pc' = "next" /\ open' = TRUE
  /\ Runs(<<task, cur, again, faults>>)

(* The window, the sign-in, the conversation or the model; or Stop. *)
CannotOpen ==
  /\ pc = "window" /\ pc' = "closing"
  /\ Runs(<<task, cur, again, chat>>)

TakesNext ==
  /\ pc = "next" /\ ~signal
  /\ \E t \in Task :
       /\ t > cur /\ Queued(t) /\ \A u \in Task : u > cur /\ Queued(u) => t <= u
       /\ cur' = t
  /\ again' = NoneYet /\ pc' = "begin"
  /\ Runs(<<task, chat>>)

NoneIsNext ==
  /\ pc = "next" /\ (signal \/ \A t \in Task : t > cur => ~Queued(t))
  /\ pc' = "closing"
  /\ Runs(<<task, cur, again, chat>>)

(* The window is looked at after a task's first attempt, not after a further one. *)
WindowGone == again.runs = 1 /\ ~open

WindowEndsRun ==
  /\ pc = "after" /\ WindowGone /\ pc' = "closing"
  /\ Runs(<<task, cur, again, chat>>)

MayContinue == again.continued < AutoContinue /\ end.limit

(* Blocked, and not for a cause no chat can cure: the task starts over in a *)
(* fresh conversation.                                                      *)
GoesFresh ==
  /\ end.st = "blocked" /\ again.retried < RetryBlocked /\ ~signal
  /\ ~end.notTheChats /\ ~MayContinue

RetriesFresh ==
  /\ pc = "after" /\ ~WindowGone /\ GoesFresh
  /\ Status("queued") /\ again' = [again EXCEPT !.retried = @ + 1]
  /\ pc' = "fresh"
  /\ Runs(<<cur, chat>>)

FreshOpens ==
  /\ pc = "fresh" /\ open /\ pc' = "begin"
  /\ Runs(<<task, cur, again, chat>>)

(* An error here ends the run, the task still queued. *)
FreshFails ==
  /\ pc = "fresh" /\ pc' = "closing"
  /\ Runs(<<task, cur, again, chat>>)

(* Stopped by a limit: carried on in its own chat. *)
(* Mutant: carried on, the task has its fresh chats again. *)
ContinuesAnew ==
  /\ pc = "after" /\ ~WindowGone /\ ~GoesFresh /\ MayContinue /\ ~signal
  /\ Status("queued") /\ pc' = "begin"
  /\ again' = [again EXCEPT !.continued = @ + 1, !.retried = 0]
  /\ Runs(<<cur, chat>>)

Continues ==
  /\ pc = "after" /\ ~WindowGone /\ ~GoesFresh /\ MayContinue /\ ~signal
  /\ Status("queued") /\ pc' = "begin"
  /\ again' = [again EXCEPT !.continued = @ + 1]
  /\ Runs(<<cur, chat>>)

TaskOver ==
  /\ pc = "after" /\ ~WindowGone /\ ~GoesFresh /\ ~(MayContinue /\ ~signal)
  /\ pc' = IF end.st = "done" \/ ContinueOnFailure THEN "next" ELSE "closing"
  /\ Runs(<<task, cur, again, chat>>)

(* The window closed, and the run forgotten by the service. *)
Closes ==
  /\ pc = "closing" /\ pc' = "off" /\ live' = FALSE /\ paused' = FALSE
  /\ UNCHANGED <<task, note, cur, n, msg, work, end, again, signal, pauses, chat, told>>

----------------------------------------------------------------------------
(* The operator, at any moment. *)

Stop ==
  /\ live /\ ~signal /\ signal' = TRUE
  /\ caught' = (pc = "held")
  /\ UNCHANGED <<task, note, pc, cur, n, msg, work, end, again, live, paused, pauses, chat, late>>

Pause ==
  /\ live /\ ~paused /\ pauses < MaxPauses
  /\ paused' = TRUE /\ pauses' = pauses + 1
  /\ UNCHANGED <<task, note, pc, cur, n, msg, work, end, again, live, signal, chat, told>>

(* What is held goes on, unless Stop has let go of it first. *)
Resume ==
  /\ live /\ paused /\ paused' = FALSE
  /\ pc' = IF signal THEN pc
           ELSE CASE pc = "held" -> "send" [] pc = "step held" -> "step" [] OTHER -> pc
  /\ UNCHANGED <<task, note, cur, n, msg, work, end, again, live, signal, pauses, chat, told>>

AddNote(t) ==
  /\ note[t] = "none" /\ note' = [note EXCEPT ![t] = "unsent"]
  /\ t <= MaxNotes
  /\ UNCHANGED <<task, pc, cur, n, msg, work, end, again, hands, chat, told>>

ClosesWindow ==
  /\ live /\ open /\ pc # "window" /\ faults < MaxFaults
  /\ open' = FALSE /\ faults' = faults + 1
  /\ UNCHANGED <<task, note, pc, cur, n, msg, work, end, again, hands, told>>

----------------------------------------------------------------------------
Sends ==
  \/ Paced \/ StoppedAtThePace \/ ReviewNotSent \/ NotHeld \/ Held \/ HeldStopped \/ Sent
  \/ ChatFails \/ ChatDoesNotAnswer \/ Answered \/ BacksOff
Begins == TaskBegins \/ CannotBegin \/ Composes \/ Opens
Looks ==
  \/ LookEnds \/ BadReply \/ Asks \/ QuestionAnswered \/ QuestionStopped \/ Blocked
  \/ SaysDone \/ Proposes
Steps ==
  \/ StepHeld \/ StepStopped \/ StepRefused \/ StepAsks \/ Decided \/ CommandEnds
  \/ Reports \/ ReportGoes
Settles ==
  \/ NoChecks \/ ChecksStopped \/ ChecksPass \/ ChecksCannotRun \/ ChecksFail
  \/ ReviewOpens \/ Reviews \/ ReviewDecided \/ ReviewCommandEnds \/ Accepts \/ Rejects
  \/ Finishes
Session ==
  \/ Opened \/ CannotOpen \/ TakesNext \/ NoneIsNext \/ WindowEndsRun \/ RetriesFresh
  \/ FreshOpens \/ FreshFails \/ Continues \/ TaskOver \/ Closes
Program == Sends \/ Begins \/ Looks \/ Steps \/ Settles \/ Session
Operator == Start \/ Stop \/ Pause \/ Resume \/ ClosesWindow \/ \E t \in Task : AddNote(t)

Next == Program \/ Operator

Spec == Init /\ [][Next]_vars

(* The program's own steps: every wait of it has a time limit, is cut off   *)
(* by Stop, or is for the operator.  Nothing is assumed of the operator.    *)
Unattended == Program /\ ~(pc \in {"card", "question", "review card"} /\ ~signal)
FairSpec == Spec /\ WF_vars(Unattended)

----------------------------------------------------------------------------
(* Properties. *)

Places ==
  {"off", "window", "next", "after", "fresh", "closing", "begin", "prepare", "opening", "pace",
   "hold", "held", "send", "answer", "backoff", "look", "question", "step", "step held",
   "card", "command", "report", "written", "gate", "review opens", "review", "review card",
   "review command", "pass", "fail", "error", "finish"}
Messages == {"none", "opening", "report", "text", "repair", "answer", "checks", "findings", "review"}
Statuses == Over \cup Active \cup {"queued"}

Counters ==
  [iterations : Nat, format : Nat, early : Nat, checks : Nat, reviews : Nat,
   looks : Nat, tries : Nat, opens : Nat, steps : Nat,
   ran : BOOLEAN, stopped : BOOLEAN, done : BOOLEAN, broke : BOOLEAN]
Endings == [st : Over \cup {"none"}, limit : BOOLEAN, notTheChats : BOOLEAN, failure : BOOLEAN]

(* Every variable has its shape. *)
TypeOK ==
  /\ task \in [Task -> Statuses] /\ note \in [Task -> {"none", "unsent", "taken", "out"}]
  /\ pc \in Places /\ cur \in 0 .. N /\ msg \in Messages
  /\ n \in Counters /\ end \in Endings
  /\ work \in {"new", "checked", "accepted"}
  /\ again \in [runs : Nat, retried : Nat, continued : Nat]
  /\ live \in BOOLEAN /\ signal \in BOOLEAN /\ paused \in BOOLEAN
  /\ open \in BOOLEAN /\ caught \in BOOLEAN
  /\ pauses \in Nat /\ faults \in Nat /\ late \in Nat

(* "stopping now: nothing more is sent" (operator.service.ts): after Stop at *)
(* most the one message already past the runner's looks at it goes, and one  *)
(* more for each failure of the chat, whose report is sent again.            *)
AtMostOneAfterStop == late <= 1 + faults

(* A task reads as at work only while the run is at it, and as waiting for   *)
(* the operator only while its card is open: whichever way an attempt, or    *)
(* the run, comes to its end, no task is left running.                       *)
AtATask == Places \ {"off", "window", "next", "after", "fresh", "closing", "begin"}
ActiveIsAtWork ==
  \A t \in Task :
    /\ task[t] \in Active => t = cur /\ live /\ pc \in AtATask
    /\ task[t] = "waiting-approval" => pc \in {"card", "question"}

(* However blocks, limits, fresh chats and continuations alternate, a task  *)
(* has at most one attempt, one for each fresh chat and one for each        *)
(* continuation ("that count is the bound on the whole", runSession).       *)
AttemptsBounded == again.runs <= 1 + RetryBlocked + AutoContinue

(* A task is done only with work as its last checks and its last review     *)
(* left it: no command after them, no rejection forgotten.                  *)
DoneIsEarned ==
  cur # 0 /\ task[cur] = "done" => work = IF ReviewWanted THEN "accepted" ELSE "checked"

(* A message caught by Pause is not sent once Stop is pressed ("then        *)
(* nothing is sent", taskRunner.ts:448).  It does not hold: a report held   *)
(* and stopped is tried again as an upload that failed.                     *)
HeldIsNotSent == caught => late = 0

(* An attempt ends as failed by the chat or the browser only when they      *)
(* failed: a Stop ends it aborted (taskRunner.ts:106).  It does not hold of *)
(* a Stop that ends the pacer's wait.                                       *)
StopIsNoFailure == end.failure => n.broke

(* A note goes out with the next message its task sends (store.ts:530):     *)
(* none is marked as sent by a task that is over and never sent it.  It     *)
(* does not hold: it is marked when the message is composed.                *)
NoteGoesOut == \A t \in Task : task[t] \in Over => note[t] # "taken"

(* After Stop the run ends, whatever the operator does about its cards and  *)
(* its pause, and whatever the chat does.                                   *)
StopEnds == live /\ signal ~> ~live

(* With its cards answered and the pause let go, every run ends by itself:  *)
(* each way of sending work back is counted.                                *)
RunEnds == WF_vars(Program) /\ WF_vars(Resume) => (live ~> ~live)

=============================================================================
