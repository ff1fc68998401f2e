--------------------------- MODULE OperatorQueue ---------------------------
(***************************************************************************)
(* The queue of tasks of OperatorService (src/api/operator.service.ts, the *)
(* section "the queue of tasks") with the pure part it calls               *)
(* (src/queue/queue.ts): the list kept in data/queue.json, the presses of  *)
(* Run and Stop, the loop that takes one task after another, the claim of  *)
(* the browser, the cards that park a task, the answers that let it carry  *)
(* on, the edits of the page, and a bot that is closed or killed and       *)
(* started again.                                                          *)
(*                                                                         *)
(* An action is what happens between two awaits.  changeQueue gives every  *)
(* change of the file a turn of its own and replaces the file atomically,  *)
(* so one change is one step; readQueue takes no turn, so what it read may *)
(* be old when it is used.                                                 *)
(***************************************************************************)
EXTENDS Naturals, FiniteSets

CONSTANTS
  N,           \* tasks are 1..N; the number is the place in the list
  Press,       \* presses of Run that may be under way together; each is a loop
  Start,       \* the tasks in the list at the beginning
  Parks,       \* parkAfterMs(q) # null: a card is set aside when unanswered
  EditKinds,   \* what the page's buttons are used for: a subset of Kinds
  AgainFrom,   \* the statuses at which "Run again" is pressed
  MaxEdits,    \* bound: edits of the list
  MaxAsks,     \* bound: cards opened
  MaxCrashes,  \* bound: times the bot dies
  Free, Other, \* the browser held by nobody; by the chat, the models or login
  NoPress, NoChat

Item == 1 .. N
Chat == Item \X Press   \* the chat made for a task by a loop; made again, it replaces one no task names
Kinds == {"add", "take out", "again", "needs"}
Status == {"waiting", "running", "done", "failed", "skipped", "stopped", "parked"}
NotListed == {"absent", "gone"}   \* not added yet; taken out

ASSUME QueueConstants ==
  /\ N \in Nat
  /\ Start \subseteq Item
  /\ Parks \in BOOLEAN
  /\ EditKinds \subseteq Kinds
  /\ AgainFrom \subseteq Status \ {"waiting", "running"}
  /\ {MaxEdits, MaxAsks, MaxCrashes} \subseteq Nat
  /\ Free \notin Chat /\ Other \notin Chat /\ Free # Other
  /\ NoPress \notin Press /\ NoChat \notin Chat

VARIABLES
  items,      \* queue.json: what is kept of each task
  running,    \* queue.json: the queue is being run
  queueLoop,  \* OperatorService.queueLoop: whose loop it is
  loop,       \* each press of Run: where its loop is, and what it read
  chat,       \* the task's record in its session file, and its run
  browser,    \* OperatorService.browser
  parker,     \* park() at work on a chat
  answering,  \* answerParked() at work on a task
  recovery,   \* recoverQueue: "none" before it is first called
  closing,    \* OperatorService.queueClosing
  edits, asks, crashes

rest == <<recovery, closing, edits, asks, crashes>>
vars == <<items, running, queueLoop, loop, chat, browser, parker, answering, rest>>

----------------------------------------------------------------------------
(* queue.ts: the shape, the rules of an edit, and which task is next. *)

Absent(st) == [st |-> st, needs |-> {}, resume |-> FALSE, chat |-> NoChat]
NewTask(n) == [st |-> "waiting", needs |-> n, resume |-> FALSE, chat |-> NoChat]
Listed(q) == {i \in Item : q[i].st \notin NotListed}
Waiting(q) == {i \in Item : q[i].st = "waiting"}
Answered(q) == {i \in Waiting(q) : q[i].resume}
Earlier(q, i) == {j \in Listed(q) : j < i}
First(S) == CHOOSE i \in S : \A j \in S : i <= j

Blocked(q, i) == \E d \in q[i].needs :
                   q[d].st \in NotListed \cup {"failed", "skipped", "stopped"}
(* Mutant: a task set aside is taken for one that is done. *)
ReadyWithParked(q, i) == \A d \in q[i].needs : q[d].st \in {"done", "parked"}
Ready(q, i) == \A d \in q[i].needs : q[d].st = "done"

Nothing == [do |-> "nothing", item |-> 0]
nextStep(q) ==
  LET can == {i \in Waiting(q) : Blocked(q, i) \/ Ready(q, i)}
  IN  IF Answered(q) # {} THEN [do |-> "run", item |-> First(Answered(q))]
      ELSE IF can = {} THEN Nothing
      ELSE [do |-> IF Blocked(q, First(can)) THEN "skip" ELSE "run", item |-> First(can)]

(* checkItems: a task depends only on tasks before it in the list. *)
checkItems(e) == \A i \in e.list : e.needs[i] \subseteq {j \in e.list : j < i}

(* mergeItems: a running task is kept whatever the edit says, a new one and *)
(* one put back wait, and any other keeps what its runs gave it.            *)
mergeItems(q, e) ==
  [i \in Item |->
     CASE i \notin e.list -> Absent(IF q[i].st = "absent" THEN "absent" ELSE "gone")
       [] i \in e.list /\ q[i].st = "running" -> q[i]
       [] i \in e.list /\ ( \/ q[i].st \in NotListed
                            \/ i \in e.again /\ q[i].st # "waiting" )
                       /\ q[i].st # "running" -> NewTask(e.needs[i])
       [] OTHER -> [q[i] EXCEPT !.needs = e.needs[i]]]

statusOfTask(st) == CASE st = "done" -> "done"
                      [] st = "aborted" -> "stopped"
                      [] OTHER -> "failed"

(* setQueueItem: nothing to patch when the task is no longer in the list. *)
setQueueItem(q, i, r) == IF q[i].st \in NotListed THEN q ELSE [q EXCEPT ![i] = r]

----------------------------------------------------------------------------
(* Loops, chats and the browser. *)

Idle == [pc |-> "off", item |-> 0, chat |-> NoChat, resume |-> FALSE, end |-> "none"]
NewChat == [st |-> "queued", card |-> FALSE, stopping |-> FALSE,
            parked |-> FALSE, answer |-> FALSE]
NoTask == [NewChat EXCEPT !.st = "none"]
Over == {"done", "failed", "aborted"}
AtItem == {"take", "begin", "made", "ready", "work", "write"}

(* queueAtWork: the chats of the tasks the queue has at work. *)
AtWork == {loop[p].chat : p \in {x \in Press : loop[x].pc = "work"}}

(* stop(): the run is told to end and its cards are answered with "abort". *)
Stopped(ch, c) ==
  IF c \in Chat /\ ch[c].st = "running"
  THEN [ch EXCEPT ![c].stopping = TRUE, ![c].card = FALSE]
  ELSE ch

Init ==
  /\ \E needs \in [Item -> SUBSET Start] :
       /\ checkItems([list |-> Start, needs |-> needs, again |-> {}])
       /\ \A i \in Item \ Start : needs[i] = {}
       /\ items = [i \in Item |-> IF i \in Start THEN NewTask(needs[i]) ELSE Absent("absent")]
  /\ running = FALSE /\ queueLoop = NoPress
  /\ loop = [p \in Press |-> Idle]
  /\ chat = [c \in Chat |-> NoTask]
  /\ browser = Free
  /\ parker = [c \in Chat |-> "off"]
  /\ answering = {}
  /\ recovery = "done" /\ closing = FALSE
  /\ edits = 0 /\ asks = 0 /\ crashes = 0

----------------------------------------------------------------------------
(* The page's edits: setQueue, one save per button. *)

Save(e) ==
  /\ recovery # "none" /\ edits < MaxEdits
  /\ checkItems(e)
  /\ \A i \in Item : items[i].st = "running" => i \in e.list
  /\ items' = mergeItems(items, e)
  /\ edits' = edits + 1
  /\ UNCHANGED <<running, queueLoop, loop, chat, browser, parker, answering, recovery, closing, asks, crashes>>

AsEdit == [list |-> Listed(items), needs |-> [i \in Item |-> items[i].needs], again |-> {}]

AddTask(i, n) ==
  /\ "add" \in EditKinds /\ items[i].st = "absent"
  /\ n \subseteq Earlier(items, i)
  /\ Save([AsEdit EXCEPT !.list = @ \cup {i}, !.needs[i] = n])

TakeOut(i) ==
  /\ "take out" \in EditKinds /\ i \in Listed(items)
  /\ Save([AsEdit EXCEPT !.list = @ \ {i}, !.needs = [j \in Item |-> @[j] \ {i}]])

RunAgain(i) ==
  /\ "again" \in EditKinds /\ items[i].st \in AgainFrom
  /\ Save([AsEdit EXCEPT !.again = {i}])

ChangeNeeds(i, n) ==
  /\ "needs" \in EditKinds /\ items[i].st = "waiting"
  /\ n \subseteq Earlier(items, i) /\ n # items[i].needs
  /\ Save([AsEdit EXCEPT !.needs[i] = n])

----------------------------------------------------------------------------
(* Run and Stop. *)

(* runQueue as far as its refusals: the loop's slot is looked at here and *)
(* taken only after the awaits that follow.                               *)
PressRun(p) ==
  /\ recovery # "none" /\ ~closing
  /\ loop[p].pc = "off" /\ queueLoop = NoPress
  /\ nextStep(items).do # "nothing"
  /\ loop' = [loop EXCEPT ![p].pc = "asked"]
  /\ UNCHANGED <<items, running, queueLoop, chat, browser, parker, answering, rest>>

StartLoop(p) ==
  /\ loop[p].pc = "asked"
  /\ running' = TRUE /\ queueLoop' = p
  /\ loop' = [loop EXCEPT ![p].pc = "read"]
  /\ UNCHANGED <<items, chat, browser, parker, answering, rest>>

StopQueue ==
  /\ running' = FALSE
  /\ LET at == {i \in Item : items[i].st = "running"}
     IN  chat' = IF at = {} THEN chat ELSE Stopped(chat, items[First(at)].chat)
  /\ UNCHANGED <<items, queueLoop, loop, browser, parker, answering, rest>>

----------------------------------------------------------------------------
(* runQueueLoop. *)

Halted == closing \/ ~running
LoopOnly == UNCHANGED <<items, running, queueLoop, chat, browser, parker, answering, rest>>

LoopSeesTheEnd(p) ==
  /\ loop[p].pc = "read"
  /\ Halted \/ nextStep(items).do = "nothing"
  /\ loop' = [loop EXCEPT ![p] = [Idle EXCEPT !.pc = "ending"]]
  /\ LoopOnly

LoopFindsOneToSkip(p) ==
  /\ loop[p].pc = "read" /\ ~Halted
  /\ nextStep(items).do = "skip"
  /\ loop' = [loop EXCEPT ![p] = [Idle EXCEPT !.pc = "skip", !.item = nextStep(items).item]]
  /\ LoopOnly

LoopFindsOneToRun(p) ==
  /\ loop[p].pc = "read" /\ ~Halted
  /\ nextStep(items).do = "run" /\ browser = Free
  /\ LET i == nextStep(items).item
     IN  loop' = [loop EXCEPT ![p] = [pc |-> "take", item |-> i, chat |-> items[i].chat,
                                      resume |-> items[i].resume, end |-> "none"]]
  /\ LoopOnly

(* Mutant: a skip that is said but not written. *)
SkipsWithoutWriting(p) ==
  /\ loop[p].pc = "skip"
  /\ loop' = [loop EXCEPT ![p] = [Idle EXCEPT !.pc = "read"]]
  /\ LoopOnly

LoopSkips(p) ==
  /\ loop[p].pc = "skip"
  /\ items' = setQueueItem(items, loop[p].item, [items[loop[p].item] EXCEPT !.st = "skipped"])
  /\ loop' = [loop EXCEPT ![p] = [Idle EXCEPT !.pc = "read"]]
  /\ UNCHANGED <<running, queueLoop, chat, browser, parker, answering, rest>>

LoopTakes(p) ==
  /\ loop[p].pc = "take"
  /\ LET i == loop[p].item
     IN  items' = setQueueItem(items, i,
                    [items[i] EXCEPT !.st = "running", !.resume = FALSE,
                                     !.chat = IF loop[p].resume THEN @ ELSE NoChat])
  /\ loop' = [loop EXCEPT ![p].pc = "begin"]
  /\ UNCHANGED <<running, queueLoop, chat, browser, parker, answering, rest>>

(* Mutant: a task set aside is left as running in the list. *)
WritesAllButParked(p) ==
  /\ loop[p].pc = "write"
  /\ LET i == loop[p].item
     IN  items' = IF loop[p].end = "parked" THEN items
                  ELSE setQueueItem(items, i, [items[i] EXCEPT !.st = loop[p].end, !.chat = loop[p].chat])
  /\ loop' = [loop EXCEPT ![p] = [Idle EXCEPT !.pc = "read"]]
  /\ UNCHANGED <<running, queueLoop, chat, browser, parker, answering, rest>>

(* The loop writes how its task ended; a stopped one ends the loop too. *)
LoopWrites(p) ==
  /\ loop[p].pc = "write"
  /\ LET i == loop[p].item
     IN  items' = setQueueItem(items, i,
                    [items[i] EXCEPT !.st = loop[p].end,
                                     !.chat = IF loop[p].chat = NoChat THEN @ ELSE loop[p].chat])
  /\ loop' = [loop EXCEPT ![p] = [Idle EXCEPT !.pc =
                                    IF loop[p].end = "stopped" THEN "ending" ELSE "read"]]
  /\ UNCHANGED <<running, queueLoop, chat, browser, parker, answering, rest>>

(* runQueue's finally: the slot is let go of and the file says not running. *)
LoopEnds(p) ==
  /\ loop[p].pc = "ending"
  /\ queueLoop' = NoPress /\ running' = FALSE
  /\ loop' = [loop EXCEPT ![p] = Idle]
  /\ UNCHANGED <<items, chat, browser, parker, answering, rest>>

----------------------------------------------------------------------------
(* runQueueItem. *)

Ends(p, how, c) == loop' = [loop EXCEPT ![p].pc = "write", ![p].end = how, ![p].chat = c]

(* Stopped, or closed, while it waits for the browser: it never begins. *)
StoppedBeforeItBegan(p) ==
  /\ loop[p].pc \in {"begin", "ready"} /\ browser # Free /\ Halted
  /\ Ends(p, "stopped", loop[p].chat)
  /\ LoopOnly

(* No model, no folder, no branch, a chat or a start refused: it fails. *)
CannotBegin(p) ==
  /\ loop[p].pc \in {"begin", "ready"} /\ browser = Free
  /\ Ends(p, "failed", loop[p].chat)
  /\ LoopOnly

(* chatSend makes a new chat; the queue's record of it follows later. *)
MakesChat(p) ==
  /\ loop[p].pc = "begin" /\ browser = Free
  /\ ~loop[p].resume \/ loop[p].chat = NoChat
  /\ LET c == <<loop[p].item, p>>
     IN  /\ chat' = [chat EXCEPT ![c] = NewChat]
         /\ parker' = [parker EXCEPT ![c] = "off"]
         /\ loop' = [loop EXCEPT ![p].pc = "made", ![p].chat = c]
  /\ UNCHANGED <<items, running, queueLoop, browser, answering, rest>>

NamesChat(p) ==
  /\ loop[p].pc = "made"
  /\ items' = setQueueItem(items, loop[p].item,
                           [items[loop[p].item] EXCEPT !.chat = loop[p].chat])
  /\ loop' = [loop EXCEPT ![p].pc = "ready"]
  /\ UNCHANGED <<running, queueLoop, chat, browser, parker, answering, rest>>

(* resumeParked: the answer on the record is used up by the attempt that   *)
(* carries on; without one, or with the task at work, it cannot.           *)
CarriesOn(p) ==
  /\ loop[p].pc = "begin" /\ browser = Free
  /\ loop[p].resume /\ loop[p].chat # NoChat
  /\ LET c == loop[p].chat
         can == chat[c].parked /\ chat[c].answer /\ chat[c].st \in Over
     IN  \/ /\ can
            /\ chat' = [chat EXCEPT ![c] = NewChat]
            /\ loop' = [loop EXCEPT ![p].pc = "ready"]
         \/ /\ ~can
            /\ Ends(p, "failed", c)
            /\ UNCHANGED chat
  /\ UNCHANGED <<items, running, queueLoop, browser, parker, answering, rest>>

(* start(): the browser is looked at and taken in the same moment. *)
StartsRun(p) ==
  /\ loop[p].pc = "ready" /\ browser = Free
  /\ chat[loop[p].chat].st = "queued"
  /\ browser' = loop[p].chat
  /\ chat' = [chat EXCEPT ![loop[p].chat].st = "running"]
  /\ loop' = [loop EXCEPT ![p].pc = "work"]
  /\ UNCHANGED <<items, running, queueLoop, parker, answering, rest>>

(* Mutant: the poll stops only a task that waits for the operator. *)
PollStopsAtACard(p) ==
  /\ loop[p].pc = "work" /\ ~running /\ ~closing
  /\ chat[loop[p].chat].card
  /\ chat' = Stopped(chat, loop[p].chat)
  /\ UNCHANGED <<items, running, queueLoop, loop, browser, parker, answering, rest>>

(* The poll of the run: the queue stopped is the chat stopped, once. *)
PollStops(p) ==
  /\ loop[p].pc = "work" /\ ~running /\ ~closing
  /\ chat[loop[p].chat].st = "running" /\ ~chat[loop[p].chat].stopping
  /\ chat' = Stopped(chat, loop[p].chat)
  /\ UNCHANGED <<items, running, queueLoop, loop, browser, parker, answering, rest>>

PollSeesClosing(p) ==
  /\ loop[p].pc = "work" /\ closing /\ browser = loop[p].chat
  /\ Ends(p, "stopped", loop[p].chat)
  /\ LoopOnly

(* The run is over and its window let the browser go: what became of it. *)
Collects(p) ==
  /\ loop[p].pc = "work" /\ browser # loop[p].chat
  /\ LET c == chat[loop[p].chat]
     IN  Ends(p, IF c.parked /\ ~c.answer THEN "parked" ELSE statusOfTask(c.st), loop[p].chat)
  /\ LoopOnly

----------------------------------------------------------------------------
(* The run of a chat, as far as the queue sees it, and the browser's other *)
(* users: a message of the chat, a reading of the models, the sign-in.     *)

RunOnly == UNCHANGED <<items, running, queueLoop, loop, parker, answering, rest>>

RunAsks(c) ==
  /\ chat[c].st = "running" /\ ~chat[c].card /\ ~chat[c].stopping
  /\ asks < MaxAsks /\ asks' = asks + 1
  /\ chat' = [chat EXCEPT ![c].card = TRUE]
  /\ UNCHANGED <<items, running, queueLoop, loop, browser, parker, answering,
                 recovery, closing, edits, crashes>>

OperatorAnswers(c) ==
  /\ chat[c].card
  /\ chat' = [chat EXCEPT ![c].card = FALSE]
  /\ UNCHANGED browser /\ RunOnly

OperatorStopsChat(c) ==
  /\ chat[c].st = "running" /\ ~chat[c].stopping
  /\ chat' = Stopped(chat, c)
  /\ UNCHANGED browser /\ RunOnly

RunEnds(c, how) ==
  /\ chat[c].st = "running" /\ ~chat[c].card
  /\ how = "aborted" => chat[c].stopping
  /\ chat' = [chat EXCEPT ![c].st = how, ![c].stopping = FALSE]
  /\ UNCHANGED browser /\ RunOnly

BrowserReleased(c) ==
  /\ browser = c /\ chat[c].st \in Over
  /\ browser' = Free
  /\ UNCHANGED chat /\ RunOnly

(* Mutant: another user of the browser takes it without looking. *)
OtherTakesUnseen == ~closing /\ browser' = Other /\ UNCHANGED chat /\ RunOnly
OtherTakes == browser = Free /\ ~closing /\ browser' = Other /\ UNCHANGED chat /\ RunOnly
OtherReleases == browser = Other /\ browser' = Free /\ UNCHANGED chat /\ RunOnly

----------------------------------------------------------------------------
(* parkLater and park: a card left unanswered sets the task aside. *)

ParkOnly == UNCHANGED <<items, running, queueLoop, loop, browser, answering, rest>>

(* The timer fires with the card still waiting and the queue at the task,  *)
(* and the task is read as running; a run over by then is left alone.      *)
ParkFires(c) ==
  /\ Parks /\ parker[c] = "off"
  /\ chat[c].card /\ c \in AtWork
  /\ parker' = [parker EXCEPT ![c] = "found"]
  /\ UNCHANGED chat /\ ParkOnly

(* The card goes onto the task's record, whatever happened since it was read. *)
ParkKeepsCard(c) ==
  /\ parker[c] = "found"
  /\ chat' = [chat EXCEPT ![c].parked = TRUE, ![c].answer = FALSE]
  /\ parker' = [parker EXCEPT ![c] = "kept"]
  /\ ParkOnly

(* Mutant: the card is kept and the run is not told to stop. *)
ParkStopsNothing(c) ==
  /\ parker[c] = "kept" /\ parker' = [parker EXCEPT ![c] = "off"]
  /\ UNCHANGED chat /\ ParkOnly

ParkStops(c) ==
  /\ parker[c] = "kept"
  /\ chat' = Stopped(chat, c)
  /\ parker' = [parker EXCEPT ![c] = "off"]
  /\ ParkOnly

----------------------------------------------------------------------------
(* answerParked: the answer goes onto the task's record, and only then does *)
(* the queue's list say that it waits to carry on.                          *)

AnswerOnly == UNCHANGED <<running, queueLoop, loop, browser, parker, rest>>

HasOpenCard(i) == items[i].chat # NoChat /\ chat[items[i].chat].parked /\ ~chat[items[i].chat].answer

StopAtCard(i) ==
  /\ recovery # "none" /\ items[i].st = "parked" /\ HasOpenCard(i)
  /\ items' = [items EXCEPT ![i].st = "stopped"]
  /\ UNCHANGED <<chat, answering>> /\ AnswerOnly

(* Mutant: the list is told before the answer is on the task's record. *)
AnswerQueuesFirst(i) ==
  /\ recovery # "none" /\ items[i].st = "parked" /\ HasOpenCard(i)
  /\ items' = [items EXCEPT ![i].st = "waiting", ![i].resume = TRUE]
  /\ answering' = answering \cup {i}
  /\ UNCHANGED chat /\ AnswerOnly

AnswerRecords(i) ==
  /\ recovery # "none" /\ items[i].st = "parked" /\ HasOpenCard(i)
  /\ chat' = [chat EXCEPT ![items[i].chat].answer = TRUE]
  /\ answering' = answering \cup {i}
  /\ UNCHANGED items /\ AnswerOnly

(* Mutant: marked to carry on, and left parked. *)
AnswerLeavesParked(i) ==
  /\ i \in answering /\ answering' = answering \ {i}
  /\ items' = setQueueItem(items, i, [items[i] EXCEPT !.resume = TRUE])
  /\ UNCHANGED chat /\ AnswerOnly

AnswerQueues(i) ==
  /\ i \in answering /\ answering' = answering \ {i}
  /\ items' = setQueueItem(items, i, [items[i] EXCEPT !.st = "waiting", !.resume = TRUE])
  /\ UNCHANGED chat /\ AnswerOnly

----------------------------------------------------------------------------
(* The bot is closed or dies: the files stay, the memory goes.  It is      *)
(* started again, its sessions settled (recoverInterrupted, before any     *)
(* request), and its queue when a request first asks for it.               *)

Close ==
  /\ ~closing /\ crashes < MaxCrashes
  /\ closing' = TRUE
  /\ UNCHANGED <<items, running, queueLoop, loop, chat, browser, parker, answering, recovery, edits, asks, crashes>>

Crash ==
  /\ crashes < MaxCrashes /\ crashes' = crashes + 1
  /\ queueLoop' = NoPress /\ loop' = [p \in Press |-> Idle]
  /\ browser' = Free
  /\ parker' = [c \in Chat |-> "off"]
  /\ answering' = {}
  /\ chat' = [c \in Chat |-> IF chat[c].st = "running"
                             THEN [chat[c] EXCEPT !.st = "aborted", !.card = FALSE, !.stopping = FALSE]
                             ELSE chat[c]]
  /\ recovery' = "none" /\ closing' = FALSE
  /\ UNCHANGED <<items, running, edits, asks>>

RecoverOnly == UNCHANGED <<queueLoop, loop, chat, browser, parker, answering, closing, edits, asks, crashes>>
ToRecover == running \/ \E i \in Item : items[i].st = "running"

RecoverReads ==
  /\ recovery = "none"
  /\ recovery' = IF ToRecover THEN "found" ELSE "done"
  /\ UNCHANGED <<items, running>> /\ RecoverOnly

(* Mutant: the queue is said not to run, and its task in flight left as it was. *)
RecoverLeavesTask ==
  /\ recovery = "found" /\ recovery' = "done"
  /\ running' = FALSE /\ UNCHANGED items
  /\ RecoverOnly

RecoverWrites ==
  /\ recovery = "found" /\ recovery' = "done"
  /\ running' = FALSE
  /\ items' = [i \in Item |-> IF items[i].st = "running"
                              THEN [items[i] EXCEPT !.st = "stopped"] ELSE items[i]]
  /\ RecoverOnly

----------------------------------------------------------------------------
PageSteps == \E i \in Item :
  \/ \E n \in SUBSET Item : AddTask(i, n) \/ ChangeNeeds(i, n)
  \/ TakeOut(i) \/ RunAgain(i)

LoopSteps(p) ==
  \/ StartLoop(p)
  \/ LoopSeesTheEnd(p) \/ LoopFindsOneToSkip(p) \/ LoopFindsOneToRun(p)
  \/ LoopSkips(p) \/ LoopTakes(p) \/ LoopWrites(p) \/ LoopEnds(p)
  \/ StoppedBeforeItBegan(p) \/ CannotBegin(p) \/ MakesChat(p) \/ NamesChat(p)
  \/ CarriesOn(p) \/ StartsRun(p)
  \/ PollStops(p) \/ PollSeesClosing(p) \/ Collects(p)

ParkSteps(c) == ParkFires(c) \/ ParkKeepsCard(c) \/ ParkStops(c)
AnswerSteps(i) == StopAtCard(i) \/ AnswerRecords(i) \/ AnswerQueues(i)

Next ==
  \/ PageSteps
  \/ \E p \in Press : PressRun(p) \/ LoopSteps(p)
  \/ StopQueue
  \/ \E c \in Chat : \/ RunAsks(c) \/ OperatorAnswers(c) \/ OperatorStopsChat(c)
                     \/ \E how \in Over : RunEnds(c, how)
                     \/ BrowserReleased(c) \/ ParkSteps(c)
  \/ OtherTakes \/ OtherReleases
  \/ \E i \in Item : AnswerSteps(i)
  \/ Close \/ Crash \/ RecoverReads \/ RecoverWrites

Spec == Init /\ [][Next]_vars

(* What the code's scheduling gives: a loop that can go on does, a run told *)
(* to stop ends, an ended run closes its window, the other users let go of  *)
(* the browser, a timer that is set fires, an answer and a recovery that    *)
(* began are written.  Nothing is assumed of the operator, nor that a task  *)
(* ends by itself.                                                          *)
Fairness ==
  /\ \A p \in Press : WF_vars(LoopSteps(p))
  /\ \A c \in Chat : /\ WF_vars(chat[c].stopping /\ \E how \in Over : RunEnds(c, how))
                      /\ WF_vars(BrowserReleased(c))
                      /\ WF_vars(ParkSteps(c))
  /\ \A i \in Item : WF_vars(AnswerQueues(i))
  /\ WF_vars(OtherReleases)
  /\ WF_vars(RecoverWrites)

FairSpec == Spec /\ Fairness

----------------------------------------------------------------------------
(* Properties. *)

ItemRecord == [st : Status \cup NotListed, needs : SUBSET Item,
               resume : BOOLEAN, chat : Chat \cup {NoChat}]
LoopRecord == [pc : {"off", "asked", "read", "skip", "ending"} \cup AtItem,
               item : 0 .. N, chat : Chat \cup {NoChat}, resume : BOOLEAN,
               end : {"none"} \cup Status]
ChatRecord == [st : {"none", "queued", "running"} \cup Over, card : BOOLEAN,
               stopping : BOOLEAN, parked : BOOLEAN, answer : BOOLEAN]

(* Each variable keeps the shape the code gives it. *)
TypeOK ==
  /\ items \in [Item -> ItemRecord]
  /\ running \in BOOLEAN /\ queueLoop \in Press \cup {NoPress}
  /\ loop \in [Press -> LoopRecord]
  /\ \A p \in Press : loop[p].pc \in AtItem \cup {"skip"} => loop[p].item \in Item
  /\ \A p \in Press : loop[p].pc \in {"made", "ready", "work"} => loop[p].chat \in Chat
  /\ \A p \in Press : loop[p].pc = "write" => loop[p].end \in {"done", "failed", "stopped", "parked"}
  /\ chat \in [Chat -> ChatRecord]
  /\ browser \in Chat \cup {Free, Other}
  /\ parker \in [Chat -> {"off", "found", "kept"}]
  /\ answering \subseteq Item
  /\ recovery \in {"none", "found", "done"} /\ closing \in BOOLEAN
  /\ edits \in Nat /\ asks \in Nat /\ crashes \in Nat

(* "A task may depend on earlier ones": whatever was parked, answered,      *)
(* stopped, crashed or skipped meanwhile, a task that runs, is set aside,   *)
(* waits to carry on or is done has every task it needs done, unless that   *)
(* one was taken out of the list since.                                     *)
HasBegun(i) == \/ items[i].st \in {"running", "parked", "done"}
               \/ items[i].st = "waiting" /\ items[i].resume
NeedsDone == \A i \in Item : HasBegun(i) =>
               \A d \in items[i].needs : items[d].st \in {"done", "gone"}

(* "One task at a time" (queue.ts, Queue.running). *)
OneTaskAtATime ==
  recovery = "done" => \A i, j \in Item :
    items[i].st = "running" /\ items[j].st = "running" => i = j

(* No task is left claiming to run: once the queue is recovered, the loop   *)
(* is at every task the file says is running.                               *)
HasLoop(i) == \E p \in Press : loop[p].item = i /\ loop[p].pc \in AtItem \ {"take"}
RunningHasItsLoop ==
  recovery = "done" => \A i \in Item : items[i].st = "running" => HasLoop(i)

(* A parked task keeps its card, and an answered one its answer, until the  *)
(* task carries on, whenever the bot is closed or dies.                     *)
CardAndAnswerKept == \A i \in Item :
  LET c == items[i].chat IN
    /\ items[i].st = "parked" => c # NoChat /\ chat[c].parked
    /\ items[i].st = "waiting" /\ items[i].resume => c # NoChat /\ chat[c].parked /\ chat[c].answer

(* The browser is one: a chat's run goes on only while it holds it, and a   *)
(* holder whose run never began does not keep it.                           *)
RunHoldsTheBrowser == \A c \in Chat :
  /\ chat[c].st = "running" => browser = c
  /\ browser = c => chat[c].st \in Over \cup {"running"}

(* What was done is never run again, nor called anything else, unless the   *)
(* operator presses "Run again" on it.                                      *)
DoneStaysDone ==
  [][\A i \in Item : items[i].st = "done" => items'[i].st \in {"done", "gone"}]_vars

(* The queue implements QueueLife.  A task is running while a loop has it,   *)
(* whatever the file says; one the file calls running when no loop has it    *)
(* was stopped with the bot that ran it.                                     *)
Life(i) == IF HasLoop(i) /\ i \in Listed(items) THEN "running"
           ELSE IF items[i].st = "running" THEN "stopped"
           ELSE items[i].st
Promise == INSTANCE QueueLife WITH
             Task <- Item,
             life <- [i \in Item |-> Life(i)],
             needs <- [i \in Item |-> items[i].needs]
ImplementsQueueLife == Promise!Spec

(* A parked task can be answered: its card is on record without an answer,  *)
(* or an answer to it is being written.                                     *)
ParkedCanBeAnswered == \A i \in Item :
  items[i].st = "parked" =>
    i \in answering \/ HasOpenCard(i)

(* Taking a task out leaves no task of the list needing one that is not in  *)
(* it, which every later save of the list would be refused for.             *)
NeedsAreListed == \A i \in Listed(items) : items[i].needs \subseteq Listed(items)

(* The other users of the browser leave it alone in the end: the queue's    *)
(* poll takes no place in a line, so it may always come at the wrong time.  *)
OthersLeave == <>[](browser # Other)

(* Nor does a task go on for ever with no card open. *)
TasksEnd == \A c \in Chat : []<>(chat[c].st # "running" \/ chat[c].card)

(* "Stop the queue" ends its loop, at whatever await the press finds it, and *)
(* the task at work with it, however long that would have gone on.           *)
StopEndsTheLoop == OthersLeave => (queueLoop # NoPress /\ ~running ~> queueLoop = NoPress)

(* No card holds the queue: with nobody there to answer, a task that waits  *)
(* for the operator is set aside and the browser is let go of.              *)
NoCardHoldsTheQueue == \A c \in Chat : c \in AtWork /\ chat[c].card ~> ~chat[c].card

(* The queue runs until no task is left to take, then its loop ends. *)
QueueRunsDry == OthersLeave /\ TasksEnd => (queueLoop # NoPress ~> queueLoop = NoPress)
=============================================================================
