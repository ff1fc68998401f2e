----------------------------- MODULE LeadRunner -----------------------------
(***************************************************************************)
(* A message of two chats (orchestrator/leadRunner.ts): the lead plans and *)
(* judges, and hands subtasks to a worker in a conversation of its own,    *)
(* both in one window.  A subtask that ends for a technical reason may be  *)
(* tried again (subtaskRetry.ts), by Settings or at the operator's word;   *)
(* a message that was stopped may be carried on, first with a subtask the  *)
(* operator chose.  Stop, Pause, a closed window, a failing chat and the   *)
(* end of the program may come at any await.                               *)
(*                                                                         *)
(* An attempt is a task of the worker's, carried out as TaskLoop says; it  *)
(* is a choice here of how it ended and what it left.  The lead's list of  *)
(* subtasks, its notes and the wording of messages are left out, as is     *)
(* whether an attempt goes to the worker's conversation or a fresh one.    *)
(***************************************************************************)
EXTENDS Naturals, Sequences, FiniteSets

CONSTANTS
    maxIterations,      \* the most replies of the lead that count
    maxFormatRetries,   \* replies in a row it may be asked for again
    maxSubtasks,        \* the most subtasks a run of the message may give
    maxAttempts,        \* attempts at one subtask
    Modes,              \* what Settings may say of a technical failure, as they are saved meanwhile
    CanAsk,             \* whether the operator can be asked about it: {TRUE} with the page
    MaxRuns,            \* bound: runs of the message, the first and the carried on
    MaxPauses           \* bound: presses of Pause, all in the message's first run

ASSUME LeadAssumption ==
    /\ maxIterations \in Nat \ {0} /\ maxFormatRetries \in Nat
    /\ maxSubtasks \in Nat \ {0} /\ maxAttempts \in Nat \ {0}
    /\ Modes \subseteq {"ask", "again", "lead"} /\ Modes # {}
    /\ CanAsk \subseteq BOOLEAN /\ CanAsk # {}
    /\ MaxRuns \in Nat /\ MaxPauses \in Nat

VARIABLES
    step,       \* where the run is
    message,    \* what is told to the lead next, or was last
    status,     \* of the message: running, or how it ended
    lead,       \* its record: the replies counted, the subtasks given, the most it may give
    chat,       \* whether the lead was sent its contract, and its replies in a row that were no use
    sub,        \* the subtask at work, 0 before the first
    how,        \* what its next attempt starts from
    shown,      \* the conversation the window shows
    stop, held, \* Stop pressed; Pause
    left,       \* the attempts whose changes the folder holds
    before,     \* the record and the subtask the operator chose to carry on with
    runs, pauses, killed,   \* runs begun, presses of Pause in this one, and runs the program's end
                            \* cut in an attempt
    afterStop   \* history: messages to the lead since Stop

vars == <<step, message, status, lead, chat, sub, how, shown, stop, held,
          left, before, runs, pauses, killed, afterStop>>
outside == <<stop, held, before, runs, pauses, killed>>

Steps == {"begin", "tell", "held", "reply", "read", "card", "open", "enter", "worker",
          "ended", "retryCard", "restore", "wait", "back", "over"}
Ends == {"done", "blocked", "limit-reached", "aborted", "failed"}
Messages == {"contract", "work"}

\* How an attempt may end, and the category each end is put in.
Endings == {"done", "stopped", "chat", "shell", "work"}

EmptyLead == [rounds |-> 0, subs |-> <<>>, limit |-> maxSubtasks]
FirstHow == [continued |-> FALSE, restored |-> FALSE, by |-> "lead"]
NoChoice == [lead |-> EmptyLead, sub |-> 0]

Init ==
    /\ step = "begin" /\ message = "contract" /\ status = "running"
    /\ lead = EmptyLead
    /\ chat = [contractSent |-> FALSE, format |-> 0]
    /\ sub = 0 /\ how = FirstHow
    /\ shown = "lead"
    /\ stop = FALSE /\ held = FALSE
    /\ left = {}
    /\ before = NoChoice
    /\ runs = 1 /\ pauses = 0 /\ killed = {}
    /\ afterStop = 0

Attempts == lead.subs[sub].attempts
Now == Len(Attempts)

\* The record of the attempt at work, once it is closed.
Closed(end) == [lead EXCEPT !.subs[sub].attempts[Now].status = end]

\* The same for one that is not judged: what it left is not put on record.
CutShort(end) == [Closed(end) EXCEPT !.subs[sub].attempts[Now].side = "none"]

-----------------------------------------------------------------------------
\* A run that is over keeps nothing but the message's record and the conversation's.
Forgets ==
    /\ message' = "contract" /\ sub' = 0 /\ how' = FirstHow
    /\ shown' = "lead"
    /\ chat' = [chat EXCEPT !.format = 0]
    /\ before' = NoChoice /\ afterStop' = 0
    /\ stop' = FALSE /\ held' = FALSE

\* finish, with the lead's record as it is then.
FinishWith(end, record) ==
    /\ step' = "over"
    /\ status' = end
    /\ lead' = record
    /\ Forgets
    /\ UNCHANGED <<left, runs, pauses, killed>>

Finish(end) == FinishWith(end, lead)

\* What the run ends as when something in it throws.
EndOfThrow(what) ==
    CASE stop -> "aborted"
      [] ~stop /\ what = "timeout" -> "limit-reached"
      [] ~stop /\ what = "closed" -> "aborted"
      [] OTHER -> "failed"

\* A chat that does not work, and the window closed by the operator.
Faults == {"fault", "closed"}

\* A throw under an attempt closes its record first.
ThrowInAttempt(what, itsEnd) ==
    FinishWith(EndOfThrow(what), CutShort(IF stop THEN "aborted" ELSE itsEnd))

\* The run goes to `next` with nothing else changed.
GoTo(next) ==
    /\ step' = next
    /\ UNCHANGED <<message, status, lead, chat, sub, how, shown, left, afterStop, outside>>

\* tell: the message goes once the pause between two is over.
Tell(what) ==
    /\ step' = "tell"
    /\ message' = what
    /\ UNCHANGED <<status, sub, how, left, afterStop, outside>>

-----------------------------------------------------------------------------
(***************************************************************************)
(* The lead's conversation.                                                *)
(***************************************************************************)
Begins ==
    /\ step = "begin"
    /\ IF stop THEN Finish("aborted")
       ELSE /\ before.sub = 0
            /\ Tell(IF chat.contractSent THEN "work" ELSE "contract")
            /\ UNCHANGED <<lead, chat, shown>>

\* Stop during the pause between two messages.
StoppedAtThePace == step = "tell" /\ stop /\ Finish("aborted")

HoldsMessage == step = "tell" /\ held /\ ~stop /\ GoTo("held")

(* Mutant: Stop does not end the hold. *)
StoppedOnceLetGo == step = "held" /\ stop /\ ~held /\ Finish("aborted")

\* Stopped while held: not sent.
StoppedWhileHeld == step = "held" /\ stop /\ Finish("aborted")

Sends ==
    /\ \/ step = "tell" /\ (stop \/ ~held)
       \/ step = "held" /\ ~stop /\ ~held
    /\ step' = "reply"
    /\ afterStop' = IF stop THEN afterStop + 1 ELSE afterStop
    /\ UNCHANGED <<message, status, lead, chat, sub, how, shown, left, outside>>

ChatFails ==
    /\ \/ step \in {"tell", "reply"}
       \/ step = "held" /\ ~held /\ ~stop
    /\ \E what \in Faults : Finish(EndOfThrow(what))
ReplyTimesOut == step = "reply" /\ Finish(EndOfThrow("timeout"))

\* The contract's reply is followed by the assignment, every other one is read.
GetsReply ==
    /\ step = "reply"
    /\ IF message = "contract"
         THEN /\ Tell("work")
              /\ chat' = [chat EXCEPT !.contractSent = TRUE]
              /\ UNCHANGED <<lead, shown>>
         ELSE GoTo("read")

ReadsAfterStop == step = "read" /\ stop /\ Finish("aborted")

(* Mutant: Stop is not looked for when a reply is read. *)
MayReadAnyway == step = "read" /\ lead.rounds < maxIterations

MayRead == step = "read" /\ ~stop /\ lead.rounds < maxIterations

RepliesUsed ==
    /\ step = "read" /\ ~stop /\ lead.rounds >= maxIterations
    /\ Finish("limit-reached")

(* Mutant: a reply not in the format is not counted. *)
BadReplyUncounted == MayRead /\ Tell("work") /\ UNCHANGED <<lead, chat, shown>>

\* Not in the lead's format, or the assignment not restated first: asked for again.
BadReply ==
    /\ MayRead
    /\ IF chat.format + 1 > maxFormatRetries
         THEN Finish("limit-reached")
         ELSE /\ Tell("work")
              /\ chat' = [chat EXCEPT !.format = @ + 1]
              /\ UNCHANGED <<lead, shown>>

Counted == [lead EXCEPT !.rounds = @ + 1]
InFormat == [chat EXCEPT !.format = 0]

\* done or blocked, as the lead says.
LeadEnds == \E end \in {"done", "blocked"} :
    /\ MayRead
    /\ FinishWith(end, Counted)

\* A plan or a question nobody is asked about, and a subtask past the limit: answered at once.
AnsweredAtOnce ==
    /\ MayRead
    /\ Tell("work")
    /\ lead' = Counted
    /\ chat' = InFormat
    /\ UNCHANGED shown

\* A plan to approve, or a question: the operator's card.
PutsACard ==
    /\ MayRead
    /\ step' = "card"
    /\ lead' = Counted
    /\ chat' = InFormat
    /\ UNCHANGED <<message, status, sub, how, shown, left, afterStop, outside>>

CardAnswered ==
    /\ step = "card" /\ ~stop
    /\ \/ Tell("work") /\ UNCHANGED <<lead, chat, shown>>
       \/ Finish("aborted")

\* Stop takes every card that waits with it.
CardStopped == step = "card" /\ stop /\ Finish("aborted")

\* A subtask is given: the next number, and no attempt yet.
Delegates ==
    /\ MayRead
    /\ Len(lead.subs) < lead.limit
    /\ lead' = [Counted EXCEPT !.subs = Append(@, [attempts |-> <<>>, max |-> maxAttempts])]
    /\ chat' = InFormat
    /\ sub' = Len(lead.subs) + 1
    /\ how' = FirstHow
    /\ step' = "open"
    /\ UNCHANGED <<message, status, shown, left, afterStop, outside>>

-----------------------------------------------------------------------------
(***************************************************************************)
(* subtaskRetry.ts.                                                        *)
(***************************************************************************)
classifySubtaskEnd(end) ==
    CASE end = "done" -> "none"
      [] end = "stopped" -> "USER_STOPPED"
      [] end = "shell" -> "COMMAND_INFRASTRUCTURE_FAILURE"
      [] end = "chat" -> "TRANSIENT_CHAT_FAILURE"
      [] OTHER -> "TASK_EVIDENCE_FAILURE"

(* Mutant: a folder that could not be compared is taken for one nothing changed in. *)
SideEffectsSeen(e) ==
    CASE e.ran /\ e.cut -> "unknown"
      [] e.changed /\ e.compared /\ ~e.cut -> "changed"
      [] OTHER -> "none"

\* The folder is compared with its photograph from the attempt's start, when there are both;
\* a command cut off in a subtask that only reads leaves nothing unknown by that.
sideEffectsOf(e) ==
    CASE ~e.ran /\ ~(e.changed /\ e.compared) -> "none"
      [] e.ran /\ ((e.cut /\ ~e.readOnly) \/ ~e.compared) -> "unknown"
      [] e.changed /\ e.compared /\ (e.cut => e.readOnly) -> "changed"
      [] OTHER -> "none"

EndsAs(end) == CASE end = "done" -> "done" [] end = "stopped" -> "aborted" [] OTHER -> "failed"

(* Mutant: Settings' way is taken before what is not known is looked at. *)
RetryPlanBySettings(category, side, mode, canAsk, attempt, max) ==
    CASE \/ category \in {"none", "USER_STOPPED", "TASK_EVIDENCE_FAILURE"}
         \/ attempt >= max
         \/ mode = "lead" -> "lead"
      [] OTHER -> IF mode = "ask" \/ category = "COMMAND_INFRASTRUCTURE_FAILURE"
                    THEN IF canAsk THEN "ask" ELSE "lead"
                    ELSE "retry"

\* Who decides what comes after an attempt: the lead, the operator, or Settings.
retryPlan(category, side, mode, canAsk, attempt, max) ==
    CASE \/ category \in {"none", "USER_STOPPED", "TASK_EVIDENCE_FAILURE"}
         \/ attempt >= max
         \/ mode = "lead" -> "lead"
      [] OTHER -> IF \/ side = "unknown"
                     \/ mode = "ask"
                     \/ category = "COMMAND_INFRASTRUCTURE_FAILURE"
                    THEN IF canAsk THEN "ask" ELSE "lead"
                    ELSE "retry"

ChoicesOf(side) == IF side = "unknown" THEN {"continue", "restore", "accept"} ELSE {"again", "accept"}

\* retryMessage: what an attempt's message says of the folder.
Told(attempt) ==
    IF attempt = 1 THEN "given"
    ELSE IF how.restored THEN "put back"
    ELSE IF how.continued THEN "carry on"
    ELSE "nothing changed"

-----------------------------------------------------------------------------
(***************************************************************************)
(* runSubtask and runAttempt.                                              *)
(***************************************************************************)
\* A subtask the record has no attempt of: as one that was stopped, of which no task is left.
HadNone == [status |-> "aborted", side |-> "none", run |-> 0,
            by |-> "lead", told |-> "nothing", start |-> {}, end |-> "none"]

(***************************************************************************)
(* A run carried on with a subtask: first that one, under its own number,  *)
(* on the record of the run before, its attempts kept and one more allowed.*)
(***************************************************************************)
CarriesOnSubtask ==
    LET of == before.lead.subs
        had == IF of[before.sub].attempts = <<>> THEN <<HadNone>> ELSE of[before.sub].attempts
        most == IF Len(had) + 1 > maxAttempts THEN Len(had) + 1 ELSE maxAttempts
    IN  /\ step = "begin" /\ ~stop /\ before.sub # 0
        /\ sub' = before.sub
        /\ lead' = [rounds |-> before.lead.rounds + 1, limit |-> Len(of) + maxSubtasks,
                    subs |-> [of EXCEPT ![before.sub] = [attempts |-> had, max |-> most]]]
        /\ how' = [continued |-> TRUE, restored |-> FALSE, by |-> "after-stop"]
        /\ step' = "open"
        /\ before' = NoChoice
        /\ UNCHANGED <<message, status, chat, shown, left, afterStop,
                       stop, held, runs, pauses, killed>>

OpensAttempt ==
    LET attempt == [status |-> "running", side |-> "none", run |-> runs,
                    by |-> how.by, told |-> Told(Now + 1), start |-> left, end |-> "none"]
    IN  /\ step = "open"
        /\ lead' = [lead EXCEPT !.subs[sub].attempts = Append(@, attempt)]
        /\ step' = "enter"
        /\ UNCHANGED <<message, status, chat, sub, how, shown, left, afterStop, outside>>

EntersWorker ==
    /\ step = "enter"
    /\ step' = "worker"
    /\ shown' = "worker"
    /\ UNCHANGED <<message, status, lead, chat, sub, how, left, afterStop, outside>>

(* Mutant: what throws under an attempt leaves its record as it is. *)
WorkerNotEnteredOpen == step = "enter" /\ \E what \in Faults : Finish(EndOfThrow(what))

\* Its conversation, or its model, cannot be had.
WorkerNotEntered == step = "enter" /\ \E what \in Faults : ThrowInAttempt(what, "failed")

\* The worker's task ends: how, what it ran and changed, whether the folder can be compared, and
\* whether the subtask was given to read only (a choice at each of its attempts, not kept).
WorkerEnds == \E end \in Endings,
                 e \in [ran : BOOLEAN, changed : BOOLEAN, cut : BOOLEAN, compared : BOOLEAN,
                       readOnly : BOOLEAN] :
    /\ step = "worker"
    /\ e.changed \/ e.cut => e.ran
    /\ step' = "ended"
    /\ lead' = [lead EXCEPT !.subs[sub].attempts[Now].end = end,
                            !.subs[sub].attempts[Now].side = sideEffectsOf(e)]
    /\ left' = IF e.changed THEN left \cup {<<sub, Now>>} ELSE left
    /\ UNCHANGED <<message, status, chat, sub, how, shown, afterStop, outside>>

EndedInClosedWindow == step = "ended" /\ ThrowInAttempt("closed", "aborted")

\* Stopped: the attempt is called so, whatever its task ended as.
EndedAfterStop ==
    /\ step = "ended" /\ stop
    /\ FinishWith("aborted", CutShort("aborted"))

Judges == \E mode \in Modes, canAsk \in CanAsk :
    LET category == classifySubtaskEnd(Attempts[Now].end)
        side == Attempts[Now].side
        plan == retryPlan(category, side, mode, canAsk, Now, lead.subs[sub].max)
    IN  /\ step = "ended" /\ ~stop
        /\ lead' = Closed(EndsAs(Attempts[Now].end))
        /\ step' = CASE plan = "lead" -> "back" [] plan = "ask" -> "retryCard" [] OTHER -> "wait"
        /\ how' = IF plan = "retry"
                    THEN [continued |-> side = "changed", restored |-> FALSE, by |-> "settings"]
                    ELSE how
        /\ UNCHANGED <<message, status, chat, sub, shown, left, afterStop, outside>>

\* The operator's word on the retry card.
RetryAnswered ==
    /\ step = "retryCard" /\ ~stop
    /\ LET side == Attempts[Now].side
       IN  \E choice \in ChoicesOf(side) :
        /\ step' = CASE choice = "accept" -> "back" [] choice = "restore" -> "restore" [] OTHER -> "wait"
        /\ how' = IF choice \in {"again", "continue"}
                    THEN [continued |-> choice = "continue" \/ side = "changed",
                          restored |-> FALSE, by |-> "operator"]
                    ELSE how
    /\ UNCHANGED <<message, status, lead, chat, sub, shown, left, afterStop, outside>>

RetryCardStopped == step = "retryCard" /\ stop /\ Finish("aborted")

\* restoreCheckpoint, to how the folder was before the subtask's first attempt.
Restores ==
    /\ step = "restore" /\ Attempts[1] # HadNone
    /\ left' = Attempts[1].start
    /\ how' = [continued |-> FALSE, restored |-> TRUE, by |-> "operator"]
    /\ step' = "wait"
    /\ UNCHANGED <<message, status, lead, chat, sub, shown, afterStop, outside>>

CannotRestore == step = "restore" /\ GoTo("back")

\* The wait before the next attempt, ended by Stop; with none set, Stop is not looked for.
WaitStopped == step = "wait" /\ stop /\ Finish("aborted")
WaitOver == step = "wait" /\ GoTo("open")

BackToLead ==
    /\ step = "back"
    /\ Tell("work")
    /\ shown' = "lead"
    /\ UNCHANGED <<lead, chat>>

LeadNotEntered == step = "back" /\ \E what \in Faults : Finish(EndOfThrow(what))

-----------------------------------------------------------------------------
(***************************************************************************)
(* The operator, and the end of the program.                               *)
(***************************************************************************)
run == <<step, message, status, lead, chat, sub, how, shown, left, afterStop>>

PressStop ==
    /\ step # "over" /\ ~stop
    /\ stop' = TRUE
    /\ UNCHANGED <<run, held, before, runs, pauses, killed>>

PressPause ==
    /\ step # "over" /\ ~stop /\ ~held /\ runs = 1 /\ pauses < MaxPauses
    /\ held' = TRUE
    /\ pauses' = pauses + 1
    /\ UNCHANGED <<run, stop, before, runs, killed>>

PressContinue ==
    /\ held
    /\ held' = FALSE
    /\ UNCHANGED <<run, stop, before, runs, pauses, killed>>

\* The program ends; the next start calls the message aborted, its record as it was.
Kill ==
    /\ step # "over"
    /\ step' = "over" /\ status' = "aborted"
    /\ killed' = IF step \in {"enter", "worker", "ended"} THEN killed \cup {runs} ELSE killed
    /\ Forgets
    /\ UNCHANGED <<lead, left, runs, pauses>>

\* The message is run again: its record is empty until the run has it from `before`.
NewRun(choice) ==
    /\ step = "over" /\ status = "aborted" /\ runs < MaxRuns
    /\ runs' = runs + 1
    /\ step' = "begin" /\ status' = "running"
    /\ before' = choice
    /\ lead' = EmptyLead
    /\ pauses' = 0
    /\ UNCHANGED <<message, shown, chat, sub, how, stop, held, killed, afterStop>>

\* Carried on in its conversation: a new work of the lead's, on the folder as it is.
\* `left` holds what this work's attempts changed, so it begins empty.
CarryOn == NewRun(NoChoice) /\ left' = {}

\* Carried on with a subtask of the record the stopped run left, unless it is called done there.
chatRetrySubtask == \E n \in DOMAIN lead.subs :
    LET had == lead.subs[n].attempts
    IN  /\ had # <<>> => had[Len(had)].status # "done"
        /\ NewRun([lead |-> lead, sub |-> n])
        /\ UNCHANGED left

Runner ==
    \/ Begins \/ CarriesOnSubtask \/ HoldsMessage \/ Sends \/ GetsReply
    \/ StoppedAtThePace \/ StoppedWhileHeld \/ ChatFails \/ ReplyTimesOut
    \/ ReadsAfterStop \/ RepliesUsed \/ BadReply \/ LeadEnds \/ AnsweredAtOnce \/ PutsACard
    \/ CardStopped \/ Delegates
    \/ OpensAttempt \/ EntersWorker \/ WorkerNotEntered \/ WorkerEnds
    \/ EndedInClosedWindow \/ EndedAfterStop \/ Judges
    \/ RetryCardStopped \/ Restores \/ CannotRestore \/ WaitStopped \/ WaitOver
    \/ BackToLead \/ LeadNotEntered

Next ==
    \/ Runner \/ CardAnswered \/ RetryAnswered
    \/ PressStop \/ PressPause \/ PressContinue \/ Kill
    \/ CarryOn \/ chatRetrySubtask

Spec == Init /\ [][Next]_vars

(***************************************************************************)
(* The program's own steps: every await of it ends, the ones on the chat   *)
(* by their time limits, and Stop ends a pause and takes the cards.        *)
(* Nothing is assumed of the operator.                                     *)
(***************************************************************************)
FairSpec == Spec /\ WF_vars(Runner)

-----------------------------------------------------------------------------
\* The window shows the conversation of whoever is spoken to.
TypeOK ==
    /\ step \in Steps /\ message \in Messages /\ status \in Ends \cup {"running"}
    /\ lead.rounds \in 0..(maxIterations + MaxRuns)
    /\ sub \in 0..Len(lead.subs) /\ Len(lead.subs) <= lead.limit
    /\ lead.limit <= runs * maxSubtasks
    /\ chat.format \in 0..maxFormatRetries
    /\ \A n \in DOMAIN lead.subs : \A k \in DOMAIN lead.subs[n].attempts :
          LET a == lead.subs[n].attempts[k]
          IN  a.status \in {"running", "done", "failed", "aborted"}
              /\ a.side \in {"none", "changed", "unknown"}
    /\ shown \in {"lead", "worker"}
    /\ step \in {"tell", "held", "reply", "read", "card"} => shown = "lead"
    /\ step = "worker" => shown = "worker"

(***************************************************************************)
(* No attempt is left running on the record of a message that is over,     *)
(* however it ended - Stop, the window, a chat that failed under the       *)
(* attempt - but for a run that the end of the program cut.                *)
(***************************************************************************)
NoAttemptLeftRunning ==
    \A n \in DOMAIN lead.subs : \A k \in DOMAIN lead.subs[n].attempts :
       LET a == lead.subs[n].attempts[k]
       IN  a.status = "running" =>
              \/ a.run \in killed
              \/ a.run = runs /\ n = sub /\ k = Now /\ step \in {"enter", "worker", "ended"}

(***************************************************************************)
(* subtaskRetry.ts:5: a subtask is tried again by itself only after a      *)
(* fault of the chat that left nothing unknown, and at the operator's word *)
(* never after the work's own end; carried on after a Stop, it is in a     *)
(* later run.  However often it is, Settings' attempts bound the rest.     *)
(***************************************************************************)
NotRetriedUnasked ==
    \A n \in DOMAIN lead.subs :
       LET tries == lead.subs[n].attempts
       IN  /\ \A k \in DOMAIN tries \ {1} :
                CASE tries[k].by = "settings" -> tries[k-1].end = "chat" /\ tries[k-1].side # "unknown"
                  [] tries[k].by = "operator" -> tries[k-1].end \in {"chat", "shell"}
                  [] OTHER -> tries[k].by = "after-stop" /\ tries[k-1].run < tries[k].run
           /\ Cardinality({k \in DOMAIN tries : tries[k].by # "after-stop"}) <= maxAttempts

(***************************************************************************)
(* What an attempt is told of the folder is so: put back means it is as    *)
(* before the subtask's first attempt, and nothing changed means the last  *)
(* attempt left nothing in it.                                             *)
(***************************************************************************)
FolderIsAsTold ==
    \A n \in DOMAIN lead.subs : \A k \in DOMAIN lead.subs[n].attempts :
       LET a == lead.subs[n].attempts[k]
       IN  /\ a.told = "put back" => a.start = lead.subs[n].attempts[1].start
           /\ a.told = "nothing changed" => <<n, k-1>> \notin a.start

(***************************************************************************)
(* subtaskRetry.ts:5, as it stands: no attempt runs again what an attempt  *)
(* already did; with changes of an earlier one in the folder it is never   *)
(* told to do the subtask as it was given.                                 *)
(***************************************************************************)
NeverStartsOver ==
    \A n \in DOMAIN lead.subs : \A k \in DOMAIN lead.subs[n].attempts :
       LET a == lead.subs[n].attempts[k]
       IN  a.told = "nothing changed" => \A j \in 1..(k-1) : <<n, j>> \notin a.start

\* After Stop at most the contract and the assignment still go to the lead.
AtMostTwoAfterStop == afterStop <= 2

\* Stopped, a message ends, whatever the operator does about its cards and its pause.
StopEnds == stop ~> step = "over"

(***************************************************************************)
(* Every message ends, or waits for ever for the operator - a card not     *)
(* answered, a pause not let go: each way of going on is counted.          *)
(***************************************************************************)
WaitsForOperator == step \in {"card", "retryCard", "held"}
MessageEnds == []<>(step = "over") \/ <>[]WaitsForOperator
=============================================================================
