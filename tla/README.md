# Copilot Operator: a TLA+ verification project

Copilot Operator drives the Microsoft 365 Copilot web chat in a real Edge browser: it sends a task,
parses the JSON reply, puts the commands in it to the operator or runs them by rule, uploads a report
of what they printed, and goes round until the task is done, blocked, stopped or out of its limits.
Around that loop there are checks and reviews of the work, retries in a fresh chat, version control, a
lead conversation that hands subtasks to a worker conversation, a queue of tasks, and a local API and
web page by which the operator starts, stops, pauses, answers and edits.

The modules here are translated from the program's source (`src/src/...` of the repository, `src/web` for
the queue page). Line numbers of what each definition stands for are in `PROJECT.json`, under `map`.

Files:

| file | what it is |
|---|---|
| `OperatorQueue.tla` | the queue of tasks: list, loop, browser claim, parked cards, restarts |
| `QueueLife.tla` | the abstract promise of the queue, which `OperatorQueue` implements |
| `MCOperatorQueue.tla` | values for constants of `OperatorQueue` that a `.cfg` cannot write |
| `OperatorQueue_proofs.tla` | theorems about the queue; that it implements `QueueLife` |
| `TaskLoop.tla`, `TaskLoop_proofs.tla` | a session's run and the attempts at each of its tasks; theorems about it |
| `SessionRun.tla`, `SessionRun_proofs.tla` | one run as the service has it: mode, rules, cards, Stop; theorems about it |
| `Pacer.tla`, `ChatSend.tla`, `MCChatSend.tla`, `ChatSend_proofs.tla` | the gap and the cap; sending a message to the page and waiting for its reply; theorems about both |
| `LeadRunner.tla`, `LeadRunner_proofs.tla` | a message of two chats: the lead, the worker's attempts, retries, carrying on; theorems about it |
| `Checkpoint.tla`, `ChatRewind.tla`, `MCChatRewind.tla`, `ChatRewind_proofs.tla` | photographs of the folder; going back to before a message; theorems about it |
| `TaskBranches.tla`, `MCTaskBranches.tla`, `TaskBranches_proofs.tla` | the git branches of the queue's tasks and New branch; theorems about them |
| `StepRun.tla`, `StepRun_proofs.tla` | one step: its clocks, Git's window, Stop, its processes and what they leave behind; theorems about it |
| `*.cfg` | one TLC run each |

## 1. Inventory of the system

### Components, their state and their operations

| component | where | state it keeps | operations |
|---|---|---|---|
| Queue of tasks | `queue/queue.ts`, `api/operator.service.ts` 1727-2252 | `data/queue.json`: `running`, and of each task its status, what it depends on, its session, `resume`, `waitsFor`; in memory `queueLoop`, `queueAtWork`, `queueClosing`, the timers of cards | `setQueue`, `runQueue`, `stopQueue`, the loop, `park`, `answerParked`, `resumeParked`, `recoverQueue` |
| Sessions of the API | `api/operator.service.ts` | `running` (run by session), `browser` (who holds the one window), the kept chat window | `start`, `stop`, `pause`, `resume`, chat messages, reading the models, sign-in |
| Cards and the operator's answers | `api/operator.service.ts`, `orchestrator/hold.ts`, `exec/authorizer.ts` | `waiting` cards, each with a promise; the hold's spans; what was approved ahead; the session's mode | `decide`, run the rest, `setRunMode`, pause, continue, stop |
| Task loop | `orchestrator/taskRunner.ts`, `progress.ts` | the task's record (status, attempts, notes, steps), counters of the attempt, `AbortSignal` | `runSession`, `runTask`, retries and continuations, `finish` |
| Checks and review | `exec/checks.ts`, `orchestrator/review.ts`, `derivedChecks.ts` | rounds counted, kept checks of reviews, findings | `gateOnChecks`, `gateOnReview`, `settleDone`, `runReview` |
| Lead and worker | `orchestrator/leadRunner.ts`, `leadLedger.ts`, `subtaskRetry.ts` | the ledger of subtasks | hand over, retry, take back, reject |
| Pacing | `util/pacing.ts` | when messages went, and the one time of the last, shared | `throttleSend`, `retune` |
| Task branches, photographs | `vcs/*.ts`, `session/checkpoint.ts` | branches, commits and hidden references of the project's folder | prepare, commit, photograph, go back |
| Session store | `session/store.ts`, `model.ts`, `events.ts`, `interruption.ts` | a file for each session | `updateSession`, `rerunTask`, notes, `recoverInterrupted` |
| Profile lock | `transport/profileLock.ts` | a lock file | take, steal when stale, release |
| Chat transport | `transport/*.ts` | the browser's page | open, sign in, send, wait for a reply, attach, download |
| Reply protocol | `protocol/*.ts` | none | parse and validate a reply |
| Runner and policy of commands | `exec/*.ts` | processes | run a command with its time limit, classify it |
| Plans | `plan/*.ts`, `orchestrator/planMode.ts` | plans in sessions | import, validate, write by conversation |
| Settings | `config/*.ts` | the configuration | load, lock, save |
| HTTP controller, command line, exports, web page | `api/operator.controller.ts`, `cli.ts`, `session/exports.ts`, `session/compose.ts`, `web/` | none that the program decides by | pass on, write, show |

### How they interact

* The queue's loop makes a session (`chatSend`), starts it (`start`), then polls once a second whether the
  run is over, and writes what became of it into the list. The run knows nothing of the queue.
* There is one browser. `claimBrowser` looks and takes without an await in between; a run, a message of the
  chat, a reading of the models and the sign-in all go through it. The queue has no place in a line: it
  sleeps and looks again.
* A run waits for the operator at a card: a promise that a request (`decide`), a change of mode, the
  end of the run or Stop resolves. A card of a queued task left unanswered sets the task aside: its card goes
  onto the task's record, the run is stopped, and the queue goes on. Answered later, the task waits to carry on.
* Stop aborts the run's signal, answers its cards and lets go of what Pause held. Pause holds messages and
  commands just before they go. Notes are taken into the next message composed.
* Files are the only thing that outlives the program: `queue.json` and a file for each session. Each is
  changed in turns and replaced atomically, but nothing changes two of them at once.

### What is hard here

The program is one Node process, so what happens between two awaits is atomic and everything else
interleaves: every request of the operator may arrive at any await of a loop. The hard behaviours are
(1) state read before an await and used after it, (2) Stop, Pause, answers and timers at any await,
(3) errors of several origins sorted by one `catch`, (4) the program closed or killed between two files,
(5) loops whose end depends on several counters at once, and (6) one browser, many users. `PROJECT.json`
lists each hazard at its line, with the properties that would show it.

### What makes each component correct

* Queue: no task before the ones it needs; one at a time; a done task stays done; a parked task can be
  answered and its answer survives; a stop ends the loop; an unanswered card does not hold it; nothing is left
  claiming to run.
* Sessions: a run only while it holds the browser; whoever holds it and ends lets go of it.
* Task loop: nothing sent after Stop but what was already on its way; no task left as running; attempts
  bounded; done only by the last verdict; a stopped run ends; every run ends.
* Cards: a command goes by the rules of the run as it is then; a held one goes at the operator's word alone;
  none is left that nobody will answer; a lock is kept whatever is switched.
* Lead and worker: no attempt is left running; none is tried again unasked; what it is told of the folder is so.
* Chat and pacing: a message is sent once and its reply is its own; never two closer than the gap, never more in
  an hour than the cap (which each pacer keeps, and no task: section 4).
* Photographs: what going back removes can be got back, and gone back means the folder is as it was.
* Branches: a task's commit is on its branch and of its own work; a done task's work is committed; nothing is lost.
* Runner: the result of a command says how it ended; it is stopped as hung only when it was; it always ends; what it
  leaves behind is stopped.
* Store: a change is never lost to another; a start settles what was in flight.
* Profile lock: one program at one profile.

## 2. What is modelled

### `OperatorQueue`: the queue of tasks

An action is what happens between two awaits. `changeQueue` gives each change of the list its turn and
replaces the file, so one change is one step; `readQueue` takes no turn, so what a loop read is kept in its
record (`loop[p].item`, `.chat`, `.resume`) and may be old when it is used.

| variable | in the code |
|---|---|
| `items`, `running` | `queue.json` |
| `queueLoop` | `OperatorService.queueLoop` |
| `loop` | each press of Run: where `runQueue`, `runQueueLoop` and `runQueueItem` are, and what they read |
| `chat` | the session made for a task: its task's status, its open card, whether it is being stopped, the parked card and its answer |
| `browser` | `OperatorService.browser` |
| `parker`, `answering` | `park()` and `answerParked()` between their awaits |
| `recovery`, `closing` | `recoverQueue`'s flag, `queueClosing` |
| `edits`, `asks`, `crashes` | counters of the bounds |

`Blocked`, `Ready`, `nextStep`, `checkItems`, `mergeItems`, `statusOfTask` and `setQueueItem` are
`queue.ts`. `LoopSteps(p)` is the loop of one press, from the refusals of
`runQueue` to its `finally`; `ParkSteps(c)` is the timer and `park()`; `AnswerSteps(i)` is `answerParked()`;
`PageSteps` are the page's saves; `Close`, `Crash`, `RecoverReads` and `RecoverWrites` are the end and the
next start of the program.

Abstractions. A task is its number, and its number is its place in the list: moving tasks is left out,
adding, taking out, running again and changing needs are in. A chat is named by its task and the press
that made it. The run of a chat is what the queue sees of it: it opens cards, is stopped, ends. The page saves
the list as it stands, so a page that holds an old list is left out (a hazard with its note). One answer at
a time to a task. Steps that no other step of the model can tell apart are one action: the timer's look
at the card with the read of the task (`ParkFires`), the read and the record of an answer (`AnswerRecords`),
the write of `running` and the filling of `queueLoop` (`StartLoop`), the claim of the browser and the awaits
until the run is registered (`StartsRun`). The chat's other messages, the models and the sign-in are one other
user of the browser (`OtherTakes`, `OtherReleases`).

### `QueueLife`: what the queue promises

Each task's life and nothing else: it begins only while no other is at work and with all it needs done;
it is skipped only while something it needs is not done; it is set aside, answered, put back. `OperatorQueue`
implements it under the mapping `Life`: a task is running while a loop has it, and one the file calls running
with no loop at it was stopped with the program that ran it (`ImplementsQueueLife`).

`Abandoned` is there because of a behaviour that needs two restarts: the queue of a restarted program is recovered
only when first asked for, so a recovery that began may write after a loop has its task again; the task is called stopped,
"Run again" puts it back to wait while the loop is still at it, and if the program dies then, the task waits and was
never stopped. Taking out a task is no step of `QueueLife`: a task about to be skipped may lose the last thing it lacked
between the loop's reading of the list and its writing of the skip, and is skipped all the same.

### `TaskLoop`: a session's run and its attempts

One run of one session: `pc` is where `runSession`, `runTask`, `gateOnChecks`, `gateOnReview` or `runReview`
stands, `cur` the task it is at.

| variable | in the code |
|---|---|
| `task` | the status of each task in the store |
| `note` | the operator's note on each: unsent, taken into a message, or out |
| `n` | the counters and flags of the attempt: iterations, format repairs, blocked too early, rounds of checks and of review, messages of a review, tries of an upload, openings and steps left |
| `msg` | which message is being sent or answered |
| `work` | what the gate has said of the work as it stands: new, passed by the checks, accepted by a review |
| `end` | how the attempt ends: status, at a limit, not the chat's fault, failed by the chat |
| `again` | `runSession`'s counters for a task: attempts, fresh chats, continuations |
| `live`, `signal`, `paused` | the run registered, its `AbortSignal`, the hold |
| `open` | the browser's window |
| `late`, `caught`, `n.broke` | history, for the properties: messages gone since Stop, one held when Stop came, a chat that failed |

A message goes through the pacer's wait, the hold, the sending and the answer (`Sends`), whoever sends it; an
error in it is sorted by `Throw` and `EndingOf` as the code's `catch`es do, a report being tried again
and then sent as text. `Begins`, `Looks`, `Steps`, `Settles` and `Session` are the parts of the attempt and of
the run; `Operator` is Start, Stop, Pause, Continue, a note, and the window closed by hand.

Abstractions. A reply, a command, a check and a review's answer are one of the outcomes the code tells
apart, and any may come. Version control and the working folder are there as what they refuse. Commands
handed over to the operator go as a question does. A reviewer's answer brings one command at most, and all
its answers are counted. Openings are one message or two, notes going with the last. Stop merges the abort
and the cards' resolution where nothing can come between them that the model tells apart (`StepStopped`,
`QuestionStopped`).

### `SessionRun`: one run as the service has it

`TaskLoop` says what the work does; `SessionRun` says by whose leave. A run is started (`start`, `LoadsSettings`,
`Registers`, `Begins`), proposes commands, and ends (`WorkEnds` to `releaseBrowser`), with the operator at every
await: `decide`, `decideRunAll`, `setRunMode`, `stop`, `saveSettings`.

| variable | in the code |
|---|---|
| `phase` | where the run is, from the claim of the browser to its release |
| `status` | the session's status on disk |
| `settings` | the settings as saved, with the machine's lock |
| `run` | the run's mode, the rules it took (`LiveSettings`), its `AbortSignal` |
| `step` | the command or question at hand, and who let it run |

`authorize`, `staticCheck`, `AsJudged`, `ForTheOperator` and `LetRun` are `exec/authorizer.ts`; `take` is
`config/live.ts`. Six kinds of command are told apart: plain, one the rules refuse a run nobody watches, a fetch, one
that reaches a platform (plain where Settings agree to what the bot proposes), one of a program set to read only that
may write, one that runs a script the bot wrote. A question the chat asks goes to the operator, or is answered as the
chat recommends where Settings say so (`AgreesToQuestion`); an answer may carry a command (`ChosenRun`), which is the
next step and needs no plain card, while every hold still applies to it.

Abstractions. One session and one card: the browser takes one run at a time, and a run asks one thing at a time.
Of the reasons to refuse a run without asking the lock stands for all. Left out: what was approved ahead, commands
handed over to the operator, and the clocks of the waits.

### `Pacer` and `ChatSend`: a message and its reply

`Pacer` is `util/pacing.ts`: the gap, from the one time of the program's last message, and the cap, from the times
each pacer keeps for itself. `ChatSend` is `CopilotTransport.sendAndConfirm` with its retries and `waitForReply`,
over a page that is not the program's.

| variable | in the code |
|---|---|
| `now`, `sentAt`, `lastSentAt` | the clock, a pacer's `sentAt`, the module's `lastSentAt` |
| `sender` | where `throttleSend`, `sendAndConfirm`, `waitForReply` are, and what each read of the page |
| `texts`, `turns`, `finished`, `flight`, `counts`, `blocker` | the messages, and the page: its turns, whether the newest answer is finished, clicks on their way, whether it says how many turns it has, what blocks it |
| `passed`, `reply` | history, for the properties |

Every attempt at a task has a pacer of its own (`runTask`): the first, a continuation at a limit, one in a fresh chat,
and the lead's and its workers' likewise. It goes on in the conversation there is or in a new one.

The page (`Land`, `GetLost`, `AnswerFinishes`, `BlockerComesUp`, `BlockerIsCleared`) may show a message late, never, or
not say how many turns it has; texts are compared by their first stretch (`HeadOf`), so two texts may look alike.

Assumptions. A message takes time: between one message let through and the next the clock has moved on (`now >
lastSentAt`). `ClicksLandInTime`: a click that has not landed when the next attempt or message looks at the page does
not land after that. The code waits half a minute for each, and has no other way to know.

Abstractions. A turn appears together with the beginning of its answer. Closing the window, a change of the gap by
Settings while one waits (`retune`), entering a conversation, attachments and the models are left out; Stop during
the pause is in `TaskLoop`.

### `LeadRunner`: the lead and the worker's attempts

One message of two chats: the lead's conversation (`Begins` to `Delegates`), a subtask and its attempts
(`runSubtask`, `runAttempt`: `OpensAttempt` to `BackToLead`), who decides about the next one (`retryPlan`,
`sideEffectsOf`, `Judges`, `RetryAnswered`), and carrying on (`CarryOn`, `chatRetrySubtask`). `CanAsk` says whether
somebody is there to be asked about a retry; without, what would be asked goes to the lead.

| variable | in the code |
|---|---|
| `step`, `message`, `shown` | where the run is, what it tells the lead, which conversation the window shows |
| `lead`, `status` | the message's record: replies counted, subtasks with their attempts; its status |
| `chat` | whether the lead has its contract; replies of no use in a row |
| `sub`, `how` | the subtask at work; what its next attempt starts from |
| `stop`, `held` | the run's signal and Pause |
| `before` | the record and subtask a run is carried on with |
| `left` | the attempts whose changes the folder holds |
| `runs`, `pauses`, `killed`, `afterStop` | bounds and history |

Abstractions. An attempt is a task of the worker's, which `TaskLoop` models: here a choice of how it ended, whether
it was to read only, ran a command, changed files, was cut off, and whether the folder could be compared. The lead's list of subtasks,
its notes, wording, and whether an attempt goes to a fresh conversation are left out.

### `Checkpoint` and `ChatRewind`: going back to before a message

`Checkpoint` is `session/checkpoint.ts` as operators on a repository: the photograph, and what `checkout --force`,
`reset --hard`, `clean` and `restore` do to the folder. `ChatRewind` says when they are used: messages are sent, run and
ended; the folder is photographed before one first runs; the operator goes back.

| variable | in the code |
|---|---|
| `repo` | the folder: working tree, branch checked out, where a detached HEAD is, each branch's commits |
| `records` | the commits kept under `refs/copilot-operator` |
| `tasks`, `rewound` | `Session.tasks`, and the messages taken out by going back |
| `working` | the message a run is at |
| `going` | the going back: which command is next, and what was read before the first |
| `sent`, `changes` | bounds |

Each git command is one step; any may fail (`CommandFails`), and the bot may be killed before any (`Kill`). Each acts
on what is checked out when it runs, which need not be what the command before it left: `reset --hard` moves the
branch HEAD is on, or a detached HEAD.

Assumption. `OperatorWaits`: no message is sent or run, no second going back begins, and nobody edits the folder, while
a going back is under way. The code keeps none of these out (`chatRewind` looks only whether the session works). With
`OperatorWaits = FALSE` messages and edits may come in between, and one message is lost so (section 4); a
second going back during the first is left out also then, since the model has one at a time.

Abstractions. A file holds one of few contents; a directory is a set of files (`DirOf`), since `clean -n` names a
directory as a whole. The index is HEAD's tree: what is staged and not committed is left out. The photographs after
a message and of a review are not modelled.

### `TaskBranches`: the branches of the queue's tasks

A task of the queue works on a branch of its own: the folder must be clean (`onExistingBranch`), the branch is checked
out (`switchTo`), and the task's changes are committed when it ends (`finish`, `commitAll`) or, if the bot was closed
meanwhile, at its next start (`Crash`, `commitInterrupted`). Between runs the operator may make a New branch
(`newBranchCreate` to `takesOutNewFiles`) that takes along, commits or puts aside what is not committed. All the while
the operator works in the same folder with an editor and git of their own.

| variable | in the code |
|---|---|
| `branch`, `head`, `loose` | the repository: each branch's commits since the tasks were added, what is checked out, what is not committed |
| `status` | each task's status in the list |
| `run` | the task at work: where its version control is, `base`, whether its record names a branch, how it ended |
| `new` | the New branch being made: its step, the preview the operator saw, what is done with the changes |
| `count` | the bounds used up |

Each look at the folder and each git command that relies on it is a step of its own; git may fail. A change is one edit
of a file: who made it, which task was at work then, and which file. A file is new on a branch until a commit there
holds it, and what cleans goes by the file, whatever was written to it since it was read (`cleanNewFiles`). How a task
ends is decided by what was read right after its commit (`reread`, the code's `afterCommit`), and is written later.

Assumptions. No task's branch is called main or as the new one. `HandsOff` has three parts, each of which leaves
something alone between a look and the command that relies on it: `"head"`, that neither the operator nor New branch
moves HEAD or its branch between the look at where a commit will land and the commit; `"edits"`, that nobody - the
operator, a task, what a task left running - edits what New branch puts aside between the copy and the switch and
clean that take it out; `"copy"`, that the operator does not give that copy up before then. Without `"head"` TLC finds
`CommitsAreItsOwn` violated, without `"edits"` `NothingIsDropped` (section 4), and so without `"copy"`
once the operator has two moves (`MaxMoves = 2`); `DoneIsCommitted` rests on none.

Abstractions. The queue's tasks with branches (`existing-branch`) only, not the modes of imported plans. Branches exist
from the beginning, and the remote's main is one commit ahead. A task changes tracked files only. The preview is taken
when it is confirmed; a checkout and the reading of where it led are one step; the end of the program and the time
it is down are one step. Detached HEADs, deleted branches, stashes and hooks are left out.

### `StepRun`: one step and its processes

A command goes to a shell (`spawn`), which may start other processes (`Begins`); the step ends when nobody holds its
output any more (`close`), when a clock or Stop has its tree stopped (`stop`, `processTable`, `stopProcesses`,
`treeDown`), or when that takes too long (`ceiling`). While git asks for a password in its own window the idle clock
is held (`lookForPassword`, asked by `idleTimer` and `passwordTimer`). At the task's end what is left is reaped (`reap`).

| variable | in the code |
|---|---|
| `phase`, `why`, `outcome` | `runStep`: where it is, `stopping`, the result's outcome |
| `aborted` | the run's `AbortSignal` |
| `quiet`, `elapsed`, `opened`, `stopFor` | ticks since `lastOutputAt`, `startedAt`, `passwordSince`, and since `stop()` |
| `looking`, `told`, `due` | `probing`, `passwordOpen`; whether `passwordTimer` has yet to fire in this tick |
| `jobs` | `stopTree` and `reapLeftovers`: how far each is, the table it read, its list, what would not go |
| `up`, `begun`, `parent`, `holding` | the machine's processes, who started each, who holds the step's output |
| `late` | the processes the shell started after the end recorded for it, more than the slack (`descendantsOf`: `created <= r.to + SLACK_MS`) |
| `askpass`, `window` | whether git may ask, and its window |
| `silence`, `shown` | history, for `HungIsSilent` |

Assumptions. `LookIsAtOnce`: nothing is printed and no window comes or goes between a look for a window and its answer,
and the list of the processes could be had. `WindowsAreSeen`: a window is looked at before it is answered, and seen to be
gone before the next opens. Both are about seconds in a limit of minutes; section 4 says what happens without them.
An id of a process is not given to another while the task goes on.

Abstractions. One step a task: the shells of several steps differ in nothing the reaping asks. Timers may fire late. A
shell that will not start is an error at once. Asking a process politely to close changes nothing by itself: a process may
exit at any time.

## 3. The runs

| run | instance | distinct states | checks |
|---|---|---|---|
| `queue_safety` | 2 tasks, any needs, the second added while the queue runs; one card, two edits, the program closed or killed twice, at any step | 1,231,992 | `NeedsDone`, `OneTaskAtATime`, `RunningHasItsLoop`, `CardAndAnswerKept`, `RunHoldsTheBrowser`, `ImplementsQueueLife` |
| `queue_live` | 2 tasks, any edit, "Run again" at any end, one card | 158,008 | `ParkedCanBeAnswered`, `StopEndsTheLoop`, `NoCardHoldsTheQueue`, `QueueRunsDry` |
| `task_safety` | 2 tasks, with checks and review, going on past a failure; one pause, one fault of the chat or the window | 3,904,303 | `AtMostOneAfterStop`, `ActiveIsAtWork`, `AttemptsBounded`, `DoneIsEarned` |
| `task_live` | 1 task with review, every limit 1, one note, one pause, one fault | 261,819 | `StopEnds`, `RunEnds` |
| `session_run` | all there is: no bound | 174,460 | `NobodyLeftAsked`, `LockIsKept`, `GoesByItsRules`, `StopEnds` |
| `chat_safety` | 3 messages of two texts that look alike, 1 blocker, 7 ticks; an hour of 5 ticks, a cap of 2, a gap of 2, three clicks a message | 2,675,308 | `SentOnce`, `ReplyIsToTheMessage`, `GapIsKept`, `EachPacerKeepsTheCap` |
| `lead_safety` | 2 replies of the lead counted, 1 subtask a run, 2 attempts, 2 runs, 1 pause in the first, any of Settings' modes, somebody to ask or not | 488,195 | `NoAttemptLeftRunning`, `NotRetriedUnasked`, `FolderIsAsTold`, `AtMostTwoAfterStop`, `StopEnds`, `MessageEnds` |
| `rewind_safety` | 2 files in directories of their own, 2 branches, 2 messages, 4 changes | 1,949,392 | `WorkIsKept`, `BackMeansBack`, `TakenOutOnlyOnceBack` |
| `branch_safety` | 2 tasks, a file on record and a new one; any three of 2 changes, 1 commit, checkout or reset of the operator's, and 1 restart | 1,990,993 | `CommitsAreItsOwn`, `DoneIsCommitted`, `NothingIsDropped` |
| `step_run` | one step, 2 processes below its shell; an idle limit of 2 ticks, a hard one of 3, a ceiling of 1 | 2,777,288 | `ResultIsTrue`, `LeftIsStopped`, `HungIsSilent`, `StepEnds` |

Two runs more find a property violated that the repository states, `queue_two_presses` and `rewind_loses_file`; section 4
says what each shows, and lists the other properties that do not hold.

What the passing runs show:

* Queue. No interleaving of edits, stops, cards, answers, the loop, and the program closed or killed at any await,
  lets a task begin, carry on or be done before what it needs; runs two tasks, with one press of Run; touches a done
  one; loses a card or its answer; or leaves a task as running without a loop. The queue's promise is kept across
  restarts. A parked task can be answered as long as the program is not killed (section 5 says when exactly). A stop
  ends the loop from wherever it finds it. A card nobody answers lets the queue go on. The loop ends when nothing is
  left to take.
* Task loop. After Stop a run sends at most the one message that was past its last look at the signal, and one more
  for each failure of the chat. No task is left as running or waiting for the operator, whichever of the ways out an
  attempt takes. Retries and continuations, in any order, are bounded by the sum of their limits. A task is done only
  with the work as the last checks and the last review left it. A stopped run ends whatever the operator and the chat
  do; a run whose cards are answered and whose pause is let go ends by itself.
* One run. Whatever order the switch to running without asking, an answer, a save of Settings and Stop come in, a
  command is let run by the rules of the run as they then are, by the operator's word on its card, or, where nothing
  holds it, by the answer to the question that carried it; no card is left in a run that asks no more; a run that has
  taken the lock asks; Stop ends the run.
* The chat. Over a page that loses messages, shows them late, blocks and does not count its turns, each message is in
  the chat once, unless it reads as the one before it; what is taken for a reply answers the message it is taken for;
  the gap holds between all messages of the program and the cap for each pacer, that is for each attempt at a task.
* The lead. Whatever throws under an attempt closes its record. A subtask is tried again unasked only after a fault of
  the chat that left nothing unknown. "Put back", and "nothing changed" in the last attempt, are so when an attempt is told them. After Stop
  at most the contract and the assignment go to the lead. A message ends, or waits for the operator.
* Going back. Whichever of its git commands is the last to be made, what the folder held is still there or on record,
  but for an ignored file that is written over; gone back means the branch, its commit and every file are as the
  message found them, also after an earlier going back that broke off; a message leaves the conversation only then.
* Branches. A commit in a task's name is on its branch and holds what was changed while it was at work, also after a
  restart; a task is called done only if nothing that was there when the folder was read after its commit is left
  uncommitted; no step of the program drops a change, while what it puts aside is left alone.
* A step. Whatever order Stop, the clocks and the command's end come in, the result says which it was; a step is
  stopped as hung only after a whole limit without a word or a window; every step ends, also one that prints for ever
  and one whose stop hangs; what the process table shows at the end of the task is stopped or on record, but for what
  was started through a process that had exited.

Each module's `TypeOK` is proved (section 5), and so is `DoneStaysDone`, which also follows from
`ImplementsQueueLife`; they hold in the runs above when they are named there.

Bounds. `N`, `MaxEdits`, `MaxAsks`, `MaxCrashes`, `MaxSteps`, `MaxFaults`, `MaxPauses`, `MaxNotes`, `MaxMessages`,
`MaxBlockers`, `MaxTime`, `MaxRuns`, `MaxChanges` and `MaxMoves` bound the instances; every other constant is a
setting of the program, or a fact of the environment. In the queue two tasks are one and one it needs; for a third
that interferes, and for more restarts, there are the theorems of section 5. One card shows parking and answering, and
a task can be run, parked, answered and run again within it. In `task_safety` each limit is at the least value at
which both sides of its test happen: one repair or round allowed, then none; one fresh chat and one continuation, in
either order; two tasks, so that the run goes on to another after a failure or a closed window. The two limits that
are 0 there (`MaxFormatRetries`, `MaxEarlyBlocks`) are 1 in `task_live`. In `chat_safety` three messages are one given
up on, one that may be taken for it, and one more; the gap of two ticks, the cap and the hour of five each hold a
message back, and seven ticks pass the hour of the first message. `lead_safety` has two runs because a subtask is
carried on in a later one, and two attempts because what is told of the folder and who decides is about the one
before; the pause is in the first run only, as a run carried on takes the same steps from another record. In
`step_run` two processes are one that outlives the shell and one it started, and each limit is the least with which the other clocks may run out first. In `rewind_safety` two messages make a going back to the first over the
second, and four changes an edit before, one between and two goings back, the second over a folder the first left half
done. In `branch_safety` two changes are one of a task's and one of the operator's, or of two tasks; a single
checkout, commit or reset at the wrong moment is the hazard. `AnyThree` leaves out the behaviours with
more than three of these, or more than two where New branch meets two tasks; the theorems of section 5 have no bound. The tasks of `branch_safety` and the files' contents and names of
`rewind_safety` are alike (`SYMMETRY`; no liveness is checked there).

Deadlock is checked in the queue's and the session's runs. The others say `CHECK_DEADLOCK FALSE`: there the system
really stops, when the run or the message is over and nobody presses anything, or the bounds of an instance are used up.

Fairness. `OperatorQueue.Fairness`: each loop goes on when it can (it sleeps and looks again); a run told to stop
ends; an ended run lets go of the browser (`finally`); a timer that is set fires; an answer and a recovery that began
are written; the browser's other users let go of it (each has its own time limit). Nothing is assumed of the operator,
nor that a task ends by itself. `QueueRunsDry` and `StopEndsTheLoop` assume besides, in the formula, that the other
users leave the browser alone in the end (`OthersLeave`), since the queue has no place in a line; the first also that
no task goes on for ever with no card open (`TasksEnd`). `TaskLoop.FairSpec`: the program takes its next step unless
it waits for the operator; every other wait of it has a time limit or is cut off by Stop. `RunEnds` assumes besides
that cards are answered and Continue is pressed. `LeadRunner.FairSpec` and `SessionRun.FairSpec` are weak fairness of
the program's own steps (`Runner`, `Work`), for the same reason; a card, a pause and their answers are no part of
them. `StepRun.FairSpec` is weak fairness of time, of the making of the log's folder, of the hard clock, the ceiling,
and the look for a window (which has limits of its own); nothing is asked of the command, the process table or
`taskkill`. The other modules state no fairness and are checked for safety only. Liveness is checked without symmetry.

## 4. What the runs found

Two places where the program does not do what its comments say, each with a run (`findings` in `PROJECT.json` quotes
them):

1. `queue_two_presses`. `runQueue` looks at `queueLoop` and fills it only after four awaits: two presses that
   come together, from two pages or two callers of the API, start two loops.
2. `rewind_loses_file`. Before going back removes what git does not track, what is on no record is added to one; of
   a directory that goes as a whole, only whether some file of it is on record is asked. A file that was ignored, beside
   one that was not, goes with the directory when the `.gitignore` that named it is put back.

More properties describe what the program should keep and do not hold, or hold only under an assumption a run makes.
They stand in the modules and in no run as they are listed here, and TLC shows each violated when it is named in the
given `.cfg`:

| property | in | what happens |
|---|---|---|
| `NeedsAreListed` | `queue_live.cfg` | A task taken out of the list is taken out of the needs the page sends, but a running task is kept as it was, with the removed one among its needs; every later save of the list is refused. |
| `ParkedCanBeAnswered` | `queue_live.cfg` with `MaxCrashes = 1` | An answer to a parked task is written to the session and then to the list; killed in between, the program leaves a parked task whose card is already answered, and refuses every answer from then on. |
| `StopIsNoFailure` | `task_live.cfg` | Stop during the pause between two messages ends the task as failed by the chat, not as aborted: the pacer's wait ends with an error of its own that the `catch` of `runTask` does not know (`pacing.ts:144`, `taskRunner.ts:3870`). |
| `HeldIsNotSent` | `task_live.cfg` | A report held by Pause when Stop comes is refused as a stopped send, which the retries of the report take for a failed upload; the second try is not held and goes (`taskRunner.ts:3834`). |
| `NoteGoesOut` | `task_live.cfg` | A note is marked as sent when its message is composed; when that message is not sent, the note is lost (`taskRunner.ts:3710`). |
| `CapIsKept` | `chat_safety.cfg` | The cap of messages in an hour is kept by each pacer for itself, and every attempt at a task makes a new one (`taskRunner.ts:1179`): a task that is continued, or tried in a fresh chat, goes over it, and so do the lead and its worker together. |
| `NeverTwice` | `chat_safety.cfg` | A message that reads as the one before it and landed unseen is sent again. |
| `NeverStartsOver` | `lead_safety.cfg` with `maxAttempts = 3` | What an attempt is told of the folder goes by what the last attempt changed, not by all of them (`leadRunner.ts:705`): after one that changed files and one that did not, it is told that nothing changed and to do the subtask as given. |
| `RestsIdle` | `session_run.cfg` | Stop after the run has written its session as idle writes it as stopping, and nothing writes it again. |
| `EveryMessageOnRecord` | `rewind_safety.cfg` with `OperatorWaits = FALSE` | Which messages going back takes out is read before its git commands and the list cut after them (`operator.service.ts:2327`): a message sent meanwhile is cut too, and is not on record among those taken out. |
| `NothingIsDropped` | `branch_safety.cfg` with `HandsOff = {"head", "copy"}` | New branch copies what it puts aside and then discards it by `switch` and by `clean` with the file's name (`newBranch.ts:322`): an edit made in between, of a tracked file or of a new one, is nowhere. |
| `NotMovedUnderATask` | `branch_safety.cfg` | New branch looks once whether a task works (`operator.service.ts:1511`); one that begins during its git commands has the folder moved under it. |
| `ResultWhenDown` | `step_run.cfg` | The result of a stopped step is given once nobody holds its output (`runner.ts:438`), though what it started without its output is still being stopped; and once the shell is gone its children are not looked for at all, until the end of the task. |
| `HungIsSilent` | `step_run.cfg` with `LookIsAtOnce = FALSE` | The look for Git's window takes seconds; a step that prints in that time is stopped as hung all the same, and so is one with a window open when the list of processes could not be had. |
| `HungIsSilent` | `step_run.cfg` with `WindowsAreSeen = FALSE` | A window opened and answered between two looks does not start the idle clock again; one answered and followed by another at once counts as one nobody answered. |

Met while modelling, in the models or next to them: a save of Settings between a run's reading of them and its
registration is not taken by it; one that changes only what the next message takes does not bring the lock with it; an
attempt that was done when Stop was seen is recorded as aborted; carrying on with a subtask and ending the program
right after loses the lead's record; a window nobody answers ends the step after twice the idle limit, since the looks hold the idle clock
until the first is over; a card answered while its task is being set aside is kept as unanswered, and a task added
just as the queue's loop ends waits for the next Run; what the operator edits while a task works goes into the task's
commit; a second end of the program while a task's changes are being settled leaves them uncommitted, and the next
task is refused. Other hazards that no run checks are among `hazards` with a note each.

## 5. What is proved

`OperatorQueue_proofs`, for any number of tasks, presses, edits, cards and crashes:

* without any assumption but the constants': `TypeCorrect` (`TypeOK`), `BrowserIsHeld`
  (`RunHoldsTheBrowser`);
* under `OperatorWaits`: `Inductive`, `NeedsAreDone` (`NeedsDone`), `CardOutlivesTheBot` (`CardAndAnswerKept`),
  `DoneIsForGood` (`DoneStaysDone`), `NoneLeftRunning` (`RunningHasItsLoop`), `OneAtATime` (`OneTaskAtATime`);
* besides, where the program does not die between the two halves of an answer (`NoAnswerIsCutShort`): `ParkedAnswerable`
  (`ParkedCanBeAnswered`). So the restart of section 4 is the only way to a parked task that refuses every answer;
* besides `OperatorWaits`, where no task is taken out: `LivesAsPromised` (`ImplementsQueueLife`), the refinement.

`OperatorWaits` has three parts. One press of Run at a time: without it the first finding above breaks
most of these. The page does not change needs: with that, a parked or answered task may be given a need that is
not done, and carries on all the same, which is the code's meaning, and `NeedsDone` does not hold. "Run again"
is pressed on a task that failed, was skipped or was stopped: pressed on a done one it is run again, which is
what the operator asked, and pressed on a parked one its card is dropped.

The argument. `NeedsDone` is not inductive: a loop takes a task some awaits after it found its needs
done, and a task carries on after an answer written in two steps. `IInv` adds what is true in between.
`LoopAt` says of each loop that the task it has in hand is neither done nor parked, that no answer
to it is on its way, and that its needs are settled from the moment it was chosen; `ChatInv` that a card is open
only while its run goes on and is put on record once, before the run is stopped and before any answer; `ItemInv`
that an answer under way belongs to a parked task whose answer is on record. What makes it inductive is
`SettledStays`: under `OperatorWaits` a task that is done or taken out never stops being so and no task's needs
grow, so needs once settled stay settled.

`LivesAsPromised` maps each step of the queue to a step of one task's life, or to none. `LifeInv` says what the
mapping needs: that what a loop read of its task still holds when it writes, and that a task at work is called
running, or stopped by a late recovery, or waiting after that. `ParkedAnswerable` adds `StillOpen`: the card of a
parked task, and of one a loop is about to park, has no answer unless it is on its way. No answer can slip in between
the collecting and the parking, since only a parked task's card is answered and no loop is at a parked task.

`TaskLoop_proofs`, for any number of tasks and any limits, from the constants' assumption only:
`TypeCorrect` (`TypeOK`), `Inductive`, `NoneLeftAtWork` (`ActiveIsAtWork`), `AttemptsAreBounded` (`AttemptsBounded`),
`DoneOnlyWhenEarned` (`DoneIsEarned`), `QuietAfterStop` (`AtMostOneAfterStop`). `IInv` is a conjunction of
parts, and each part has a lemma saying that a step keeps it with the help of the few others it needs:

* `Counting`: an opening is left to send while one is under way, a command is left to run while one is at hand;
* `AttemptsCounted`: each fresh chat and each continuation pays for one attempt, in advance while the run
  is about to begin one;
* `Marked`: the task the run is at, and no other, is marked as at work, as waiting only at a card or a question;
* `EndKnown` and `Verdict`: an attempt over has an ending, and is over as done only with what the gate asks;
* `Quiet`: after Stop the message that may still go is paid for already, by Stop itself or by a failure.
  This is why `AtMostOneAfterStop` counts failures: a failed report is sent again.

`SessionRun_proofs`, for any rules of Settings and any order of steps, with no assumption: `TypeCorrect`, `Inductive`,
`LockAlwaysKept` (`LockIsKept`, which is about runs that know of the lock: a save may miss a run, see section 4),
`NobodyIsLeftAsked` (`NobodyLeftAsked`), `EveryCommandGoesByItsRules` (`GoesByItsRules`).
`IInv` is `TypeOK`, `NobodyLeftAsked` and `LockKnown`. `LockIsKept` speaks of runs that are registered, and a run's mode
and rules are taken before that: `LockKnown` says the same of a run whose rules are loaded.

`LeadRunner_proofs`, for any Settings and any number of subtasks, attempts and runs, from the constants' assumption
only: `Inductive`, `TypeCorrect`, `NoneLeftRunning` (`NoAttemptLeftRunning`), `RetriedOnlyAsAsked`
(`NotRetriedUnasked`), `ToldAsItIs` (`FolderIsAsTold`), `TwoAfterStop` (`AtMostTwoAfterStop`: of the lead's own
messages, those of its workers' chats being `TaskLoop`'s). `IInv` has six parts.
`Shape` and `Bounds` say where the run is and what its record may hold. The others carry one property each through the
steps at which it does not show:

* `Closes`: an attempt is on record as running only while the run is at it, or if the program died under it;
* `Reasons`: an attempt is judged when it ends and the next is opened after a card, the folder put back or a wait.
  What allowed the next must still be so then, also when Stop, or the end of the program and another run, comes in
  between;
* `Folder`: what the folder holds was left there by attempts on record. Without it a new attempt could be told that
  nothing changed by the one before it, over a change nobody answers for;
* `AfterStop`: how many messages Stop may still let out, by where the run is.

Reasons and closing are said of the record a run is carried on with as well as of the run's own: it was chosen from a
run that is over, and is as good as what that run left.

`TaskBranches_proofs`, for any tasks, changes, moves and restarts, from the names' assumption: `Inductive`,
`TypeCorrect`, `DoneTasksAreCommitted` (`DoneIsCommitted`); with `"head"` in `HandsOff` also `TasksCommitTheirOwn`
(`CommitsAreItsOwn`), with `"edits"` and `"copy"` `ChangesAreKept` (`NothingIsDropped`). `Judged` says of a task between
the reading after its commit and its end that what was uncommitted at the reading is on the record its end is decided by, or is committed. `ItsOwnWork` says that from the look that found the
folder clean on, what is not committed was changed while the task was at work; `PutAside` that what the switch and the
cleaning of New branch take out of the folder is on a branch by then. The branches are typed by commits that are their
makers' own, so that every operation on a branch keeps `CommitsAreItsOwn` by its type.

`StepRun_proofs`, for any processes and limits: `Inductive`, `TypeCorrect`, `ResultsAreTrue` (`ResultIsTrue`),
`LeftoversAreStopped` (`LeftIsStopped`, which excuses what was started through a process that had exited); under `LookIsAtOnce` and `WindowsAreSeen` also `OnlyTheSilentAreHung`
(`HungIsSilent`). `Phases` says what each phase leaves open. `Listed` rests on `Covered`: a process that is up hangs
from the shell through processes that are up, or from one that is gone (for the shell itself: one it started too
late to count as its own); so a list made from the process table misses
only what hangs from one gone. `Clocks` bounds how far the clocks the code keeps may run ahead of what really went by.

`ChatSend_proofs`, for any texts, pauses, cap, hour and attempts: `TypeCorrect`, `Inductive`, `PausesAreKept`
(`GapIsKept`), `EachPacerKeepsIt` (`EachPacerKeepsTheCap`); under `ClicksLandInTime` also `ChatInductive`,
`MessagesAreSentOnce` (`SentOnce`), `RepliesAreToTheMessage` (`ReplyIsToTheMessage`). Two invariants. Of the pacing:
the times a pacer keeps are those of the last messages it let through, what it has forgotten is over an hour old (`IsTheEnd`),
and of what it keeps only the last, at most as many as the cap, are of one hour (`WithinCap`). Of the chat: its turns
are messages in order and at most one click is on its way, the newest message's (`InTurn`); what a look at the page
remembers is the conversation as it was some turns ago, all the later ones being the message itself
(`IsRemembered`); a text not yet seen there was not sent.

`ChatRewind_proofs`, for any files, contents, branches and directories: `TypeCorrect`, whatever the operator does;
under `OperatorWaits`: `Inductive`, `BackIsBack` (`BackMeansBack`), `OutOnlyOnceBack` (`TakenOutOnlyOnceBack`),
`FilesStay`, and where no two files share a directory, `WorkStays` (`WorkIsKept`). `Leaving` says which messages a
going back takes out and that the checkpoint it goes to is that of the first of them that ran; `Coming` where each git
command has brought the folder; `Keeping` what it has kept of the folder gone back from. `WorkIsKept` is not true of
every layout of directories, as `rewind_loses_file` shows. `FilesStay` says of every layout exactly what is lost: an
ignored file that is written over, or one whose whole directory clean named while another file of that was in the
photograph. The proof attempt corrected the model: `ResetHard` had reset the checkpoint's branch whatever was checked
out.

Only model-checked: the liveness properties (`StopEndsTheLoop`, `NoCardHoldsTheQueue`, `QueueRunsDry`; `StopEnds` of
`TaskLoop`, `LeadRunner` and `SessionRun`; `RunEnds`, `MessageEnds`, `StepEnds`), which rest on fairness and
enabledness, out of this prover's reach; and the findings, which are counterexamples. Every other property of a
run has a theorem. No module has a recursive operator.

## 6. What is not modelled

* Of the queue: moves of a task in the list, pages with an old list, two answers at once to one task.
* Of going back: a second one during the first.
* Of the task loop: writing a plan, what `progress.ts` compares (that no progress is found is an outcome), the pause
  between the tasks of a batch, the operator's "Run again" and "Continue" on tasks that are over, which conversation
  the window shows after a review.
* Of the chat: attachments, the choice of a model, entering a conversation, the page's own layout.
* Of a step: what it prints and its log, the heartbeat, ids of processes given twice (what the recorded beginnings are
  for), the operator's own processes, which are only reported, a task in a checkout of its own, which is not reaped,
  and the snapshot before a review.
* Of version control: the modes of imported plans (a branch for each task or session, cut from a base, snapshots,
  carried inputs), the photographs after a message and of a review.
* Not yet: the session store's turns (`updateSession`, `recoverInterrupted`) and the profile lock, which is about two
  programs while every module here is about one.
* Not planned: the web page's text and locators, parsing, the classification of command lines, the reading and
  checking of plans, texts for the model (`plan/systemGuide.ts` is one long text), exports, the validation of
  settings, the HTTP controller and the command line. They keep no state that changes and take their part in no order
  of events: pure conversions, wording, or another vendor's page. A reply, a verdict of the policy and a plan are
  members of small sets in the models. These files are well over half of the source's lines, the web page alone more
  than a third.

## 7. Plan

Done: every module of section 2, and a theorem for each safety property and action property that a run checks, and for
the refinement of `QueueLife`.

Next, most important first:

1. A composition of `OperatorQueue` with `SessionRun`: the chat of the queue refined by a run, so that what the queue
   takes for granted of a run (it opens cards, is stopped, ends, lets go of the browser) is a theorem about one.
2. `Store` and `ProfileLock`: turns of `updateSession`, `recoverInterrupted`, two programs at one profile.
3. An abstract specification of `TaskLoop` and `LeadRunner` together: an attempt of the lead's worker, which
   `LeadRunner` chooses the end of, refined by an attempt of `TaskLoop`.
