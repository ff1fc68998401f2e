----------------------- MODULE OperatorQueue_proofs -----------------------
(***************************************************************************)
(* What TLAPS proves of OperatorQueue for every number of tasks, every     *)
(* graph of needs and every bound: the shape of its state, that no task    *)
(* ever runs before the ones it needs, that what is done stays done, that  *)
(* a card and its answer outlive the bot and the card can be answered, and *)
(* that the queue implements QueueLife, the life its tasks are promised.   *)
(***************************************************************************)
EXTENDS OperatorQueue, WellFoundedInduction, TLAPS

(* The presses of Run come one at a time, the page changes no needs, and    *)
(* "Run again" is for a task that came to nothing.  What happens without    *)
(* the first is the run queue_two_presses; the others, the README says.     *)
OperatorWaits ==
  /\ \A p, q \in Press : p = q
  /\ EditKinds \subseteq {"add", "take out", "again"}
  /\ AgainFrom \subseteq {"failed", "skipped", "stopped"}

----------------------------------------------------------------------------
(* The inductive invariant. *)

Settled(i) == \A d \in items[i].needs : items[d].st \in {"done", "gone"}

(* A loop at a task: it is not done nor parked meanwhile, no answer to it  *)
(* is on its way, and what it needs was done when the loop took it.        *)
LoopAt(l) ==
  /\ l.pc \in AtItem \cup {"skip"} =>
       items[l.item].st \notin {"done", "parked", "absent"} /\ l.item \notin answering
  /\ l.pc \in AtItem => Settled(l.item)
  /\ l.pc \in AtItem \ {"take"} => l.item \notin Answered(items)
  /\ l.chat # NoChat => l.chat[1] = l.item
  /\ l.pc = "write" /\ l.end = "parked" => l.chat # NoChat /\ chat[l.chat].parked
LoopInv == \A p \in Press : LoopAt(loop[p])

(* A chat: a card is open only while its run goes on, and a card is put on *)
(* its record once, before the run is stopped and before any answer.       *)
ChatInv == \A c \in Chat :
  /\ chat[c].card => chat[c].st = "running" /\ ~chat[c].stopping
  /\ parker[c] = "found" => ~chat[c].parked
  /\ chat[c].parked /\ chat[c].st = "running" /\ ~chat[c].stopping => parker[c] = "kept"
  /\ chat[c].st = "queued" => ~chat[c].parked /\ parker[c] # "found"
  /\ chat[c].answer => chat[c].parked

ItemInv == \A i \in Item :
  /\ HasBegun(i) => Settled(i)
  /\ items[i].chat # NoChat => items[i].chat[1] = i
  /\ i \in answering => /\ items[i].st \in {"parked", "gone"}
                        /\ items[i].st = "parked" => chat[items[i].chat].answer

Kept == LoopInv /\ ItemInv /\ CardAndAnswerKept
IInv == TypeOK /\ ChatInv /\ Kept

----------------------------------------------------------------------------
(* What the operators of the model return. *)

(* First names a member of any set of tasks that has one. *)
LEMMA FirstIsMember ==
  ASSUME NEW S \in SUBSET Item, S # {}
  PROVE  First(S) \in S
<1>1. S \subseteq Nat
  BY DEF Item
<1>2. PICK i \in S : \A j \in S : ~ (<<j, i>> \in OpToRel(<, Nat))
  BY <1>1, NatLessThanWellFounded, WFMin
<1>3. \A j \in S : ~ (j < i)
  BY <1>1, <1>2 DEF OpToRel
<1>4. \A j \in S : i <= j
  BY <1>1, <1>3
<1> QED
  BY <1>4 DEF First

(* What the queue does next is about a task of the list that waits: one    *)
(* answered, one whose needs are all done, or one to skip.                 *)
LEMMA NextStepIsWaiting ==
  ASSUME NEW q \in [Item -> ItemRecord], nextStep(q).do # "nothing"
  PROVE  /\ nextStep(q).item \in Item
         /\ q[nextStep(q).item].st = "waiting"
         /\ nextStep(q).do = "run" =>
              q[nextStep(q).item].resume \/ Ready(q, nextStep(q).item)
<1> DEFINE can == {i \in Waiting(q) : Blocked(q, i) \/ Ready(q, i)}
<1>1. CASE Answered(q) # {}
  <2>1. First(Answered(q)) \in Answered(q)
    BY <1>1, FirstIsMember DEF Answered, Waiting
  <2>2. nextStep(q) = [do |-> "run", item |-> First(Answered(q))]
    BY <1>1 DEF nextStep
  <2> QED
    BY <2>1, <2>2 DEF Answered, Waiting
<1>2. CASE Answered(q) = {}
  <2>1. can # {}
    BY <1>2 DEF nextStep, Nothing
  <2>2. First(can) \in can
    BY <2>1, FirstIsMember DEF Waiting
  <2>3. nextStep(q) = [do |-> IF Blocked(q, First(can)) THEN "skip" ELSE "run", item |-> First(can)]
    BY <1>2, <2>1 DEF nextStep
  <2> QED
    BY <2>2, <2>3 DEF Waiting
<1> QED
  BY <1>1, <1>2

(* A patch of one task leaves the others, and one not listed, as they are. *)
LEMMA PatchTypes ==
  ASSUME NEW q \in [Item -> ItemRecord], NEW i \in Item, NEW r \in ItemRecord
  PROVE  /\ setQueueItem(q, i, r) \in [Item -> ItemRecord]
         /\ \A j \in Item : j # i => setQueueItem(q, i, r)[j] = q[j]
         /\ setQueueItem(q, i, r)[i] = IF q[i].st \in NotListed THEN q[i] ELSE r
  BY DEF setQueueItem

(* An edit keeps a running task, makes a new one of one added or put back, *)
(* and changes only the needs of any other.                                *)
LEMMA MergeTypes ==
  ASSUME NEW q \in [Item -> ItemRecord], NEW e, e.needs \in [Item -> SUBSET Item]
  PROVE  mergeItems(q, e) \in [Item -> ItemRecord]
<1> SUFFICES ASSUME NEW i \in Item PROVE mergeItems(q, e)[i] \in ItemRecord
  BY DEF mergeItems
<1> QED
  BY DEF mergeItems, Absent, NewTask, ItemRecord, Status, NotListed

(* A stop reaches the run that is on, and nothing else of any chat. *)
LEMMA StopTypes ==
  ASSUME NEW ch \in [Chat -> ChatRecord], NEW c
  PROVE  /\ Stopped(ch, c) \in [Chat -> ChatRecord]
         /\ \A d \in Chat :
              \/ Stopped(ch, c)[d] = ch[d]
              \/ ch[d].st = "running" /\ Stopped(ch, c)[d] = [ch[d] EXCEPT !.stopping = TRUE, !.card = FALSE]
  BY DEF Stopped, ChatRecord

----------------------------------------------------------------------------
(* The shape of the state. *)

(* Each step of the page, of Run and Stop, and of a bot that dies or is    *)
(* started again keeps the shape of the state.                             *)
LEMMA TypeOutsideTheLoop ==
  ASSUME TypeOK,
         \/ PageSteps \/ StopQueue \/ OtherTakes \/ OtherReleases
         \/ Close \/ Crash \/ RecoverReads \/ RecoverWrites
         \/ \E p \in Press : PressRun(p)
         \/ \E i \in Item : AnswerSteps(i)
  PROVE  TypeOK'
<1>1. ASSUME NEW e, e.needs \in [Item -> SUBSET Item], Save(e)
      PROVE  TypeOK'
  <2>1. items' \in [Item -> ItemRecord]
    BY <1>1, MergeTypes DEF Save, TypeOK
  <2> QED
    BY <1>1, <2>1 DEF Save, TypeOK
<1>2. CASE PageSteps
  <2> DEFINE e0 == [list |-> Listed(items), needs |-> [i \in Item |-> items[i].needs], again |-> {}]
  <2>1. e0.needs \in [Item -> SUBSET Item]
    BY DEF TypeOK, ItemRecord
  <2>2. PICK i \in Item : (\E n \in SUBSET Item : AddTask(i, n) \/ ChangeNeeds(i, n)) \/ TakeOut(i) \/ RunAgain(i)
    BY <1>2 DEF PageSteps
  <2>3. ASSUME NEW n \in SUBSET Item, AddTask(i, n)
        PROVE  TypeOK'
    BY <1>1, <2>1, <2>3 DEF AddTask, AsEdit
  <2>4. ASSUME NEW n \in SUBSET Item, ChangeNeeds(i, n)
        PROVE  TypeOK'
    BY <1>1, <2>1, <2>4 DEF ChangeNeeds, AsEdit
  <2>5. CASE TakeOut(i)
    BY <1>1, <2>1, <2>5 DEF TakeOut, AsEdit
  <2>6. CASE RunAgain(i)
    BY <1>1, <2>1, <2>6 DEF RunAgain, AsEdit
  <2> QED
    BY <2>2, <2>3, <2>4, <2>5, <2>6
<1>3. CASE StopQueue
  <2> DEFINE c == items[First({i \in Item : items[i].st = "running"})].chat
  <2>1. chat' = Stopped(chat, c) \/ chat' = chat
    BY <1>3 DEF StopQueue
  <2>2. chat \in [Chat -> ChatRecord]
    BY DEF TypeOK
  <2> HIDE DEF c
  <2>3. Stopped(chat, c) \in [Chat -> ChatRecord]
    BY <2>2, StopTypes
  <2> QED
    BY <1>3, <2>1, <2>2, <2>3 DEF StopQueue, TypeOK, rest
<1>4. CASE OtherTakes \/ OtherReleases
  BY <1>4 DEF OtherTakes, OtherReleases, RunOnly, TypeOK, rest
<1>5. CASE Close
  BY <1>5 DEF Close, TypeOK
<1>6. CASE Crash
  <2>1. chat' \in [Chat -> ChatRecord]
    <3> SUFFICES ASSUME NEW c \in Chat
                 PROVE  (IF chat[c].st = "running"
                         THEN [chat[c] EXCEPT !.st = "aborted", !.card = FALSE, !.stopping = FALSE]
                         ELSE chat[c]) \in ChatRecord
      BY <1>6 DEF Crash
    <3>1. chat[c] \in ChatRecord
      BY DEF TypeOK
    <3> QED
      BY <3>1 DEF ChatRecord, Over
  <2>2. loop' \in [Press -> LoopRecord] /\ \A p \in Press : loop'[p].pc = "off"
    <3>1. Idle \in LoopRecord /\ Idle.pc = "off"
      BY QueueConstants DEF LoopRecord, Idle
    <3> QED
      BY <1>6, <3>1 DEF Crash
  <2>3. parker' \in [Chat -> {"off", "found", "kept"}]
    BY <1>6 DEF Crash
  <2> QED
    <3>1. \A p \in Press : loop'[p].pc \notin AtItem \cup {"skip", "made", "ready", "work", "write"}
      BY <2>2 DEF AtItem
    <3>2. /\ items' = items /\ running' = running /\ queueLoop' = NoPress /\ browser' = Free
          /\ answering' = {} /\ recovery' = "none" /\ closing' = FALSE
          /\ edits' = edits /\ asks' = asks /\ crashes' = crashes + 1
      BY <1>6 DEF Crash
    <3>3. crashes' \in Nat
      BY <3>2 DEF TypeOK
    <3> QED
      BY <2>1, <2>2, <2>3, <3>1, <3>2, <3>3 DEF TypeOK
<1>7. CASE RecoverReads
  BY <1>7 DEF RecoverReads, RecoverOnly, TypeOK
<1>8. CASE RecoverWrites
  <2>1. items' \in [Item -> ItemRecord]
    BY <1>8 DEF RecoverWrites, TypeOK, ItemRecord, Status
  <2> QED
    BY <1>8, <2>1 DEF RecoverWrites, RecoverOnly, TypeOK
<1>9. ASSUME NEW p \in Press, PressRun(p)
      PROVE  TypeOK'
  <2>1. loop' = [loop EXCEPT ![p].pc = "asked"] /\ loop[p].pc = "off"
    BY <1>9 DEF PressRun
  <2>2. loop' \in [Press -> LoopRecord]
    BY <2>1 DEF TypeOK, LoopRecord
  <2> QED
    BY <1>9, <2>1, <2>2 DEF PressRun, TypeOK, rest, AtItem
<1>10. ASSUME NEW i \in Item, AnswerSteps(i)
       PROVE  TypeOK'
  <2>1. CASE StopAtCard(i)
    <3>1. items' \in [Item -> ItemRecord]
      BY <2>1 DEF StopAtCard, TypeOK, ItemRecord, Status
    <3> QED
      BY <2>1, <3>1 DEF StopAtCard, AnswerOnly, TypeOK, rest
  <2>2. CASE AnswerRecords(i)
    <3>1. chat' \in [Chat -> ChatRecord]
      BY <2>2 DEF AnswerRecords, TypeOK, ChatRecord
    <3> QED
      BY <2>2, <3>1 DEF AnswerRecords, AnswerOnly, TypeOK, rest
  <2>3. CASE AnswerQueues(i)
    <3>1. [items[i] EXCEPT !.st = "waiting", !.resume = TRUE] \in ItemRecord
      <4>1. items[i] \in ItemRecord
        BY DEF TypeOK
      <4> QED
        BY <4>1 DEF ItemRecord, Status
    <3>2. items' \in [Item -> ItemRecord]
      BY <2>3, <3>1, PatchTypes DEF AnswerQueues, TypeOK
    <3> QED
      BY <2>3, <3>2 DEF AnswerQueues, AnswerOnly, TypeOK, rest
  <2> QED
    BY <1>10, <2>1, <2>2, <2>3 DEF AnswerSteps
<1> QED
  BY <1>2, <1>3, <1>4, <1>5, <1>6, <1>7, <1>8, <1>9, <1>10

(* What holds of a loop's record wherever it is. *)
LoopShape(l) ==
  /\ l \in LoopRecord
  /\ l.pc \in AtItem \cup {"skip"} => l.item \in Item
  /\ l.pc \in {"made", "ready", "work"} => l.chat \in Chat
  /\ l.pc = "write" => l.end \in {"done", "failed", "stopped", "parked"}

(* A step of one loop keeps the shape of the state when what it makes of   *)
(* the list, of its own record and of the chats has that shape.            *)
LEMMA LoopStepTypes ==
  ASSUME TypeOK, NEW p \in Press, NEW l,
         loop' = [loop EXCEPT ![p] = l], LoopShape(l),
         items' \in [Item -> ItemRecord], chat' \in [Chat -> ChatRecord],
         parker' \in [Chat -> {"off", "found", "kept"}],
         running' \in BOOLEAN, queueLoop' \in Press \cup {NoPress},
         browser' \in Chat \cup {Free, Other},
         UNCHANGED <<answering, rest>>
  PROVE  TypeOK'
<1>1. /\ loop' \in [Press -> LoopRecord]
      /\ \A q \in Press : LoopShape(loop'[q])
  BY DEF TypeOK, LoopShape
<1>2. /\ answering' \subseteq Item
      /\ recovery' \in {"none", "found", "done"} /\ closing' \in BOOLEAN
      /\ edits' \in Nat /\ asks' \in Nat /\ crashes' \in Nat
  BY DEF TypeOK, rest
<1> QED
  BY <1>1, <1>2 DEF TypeOK, LoopShape

(* Each step of a loop keeps the shape of the state. *)
LEMMA TypeInTheLoop ==
  ASSUME TypeOK, NEW p \in Press, LoopSteps(p)
  PROVE  TypeOK'
<1> DEFINE i == loop[p].item
<1>a. /\ loop \in [Press -> LoopRecord] /\ LoopShape(loop[p]) /\ loop[p] \in LoopRecord
      /\ items \in [Item -> ItemRecord] /\ chat \in [Chat -> ChatRecord]
      /\ parker \in [Chat -> {"off", "found", "kept"}]
      /\ running \in BOOLEAN /\ queueLoop \in Press \cup {NoPress}
      /\ browser \in Chat \cup {Free, Other}
  BY DEF TypeOK, LoopShape
<1>b. LoopShape(Idle) /\ \A pc \in {"read", "ending"} : LoopShape([Idle EXCEPT !.pc = pc])
  <2>1. 0 \in 0 .. N
    BY QueueConstants
  <2>2. /\ Idle \in LoopRecord
        /\ \A pc \in {"read", "ending"} : [Idle EXCEPT !.pc = pc] \in LoopRecord
    BY <2>1 DEF Idle, LoopRecord
  <2> QED
    BY <2>2 DEF Idle, LoopShape, AtItem
<1>c. ASSUME NEW how \in {"done", "failed", "stopped", "parked"}, NEW c \in Chat \cup {NoChat},
             loop[p].item \in Item
      PROVE  LoopShape([loop[p] EXCEPT !.pc = "write", !.end = how, !.chat = c])
  BY <1>a, <1>c DEF LoopShape, LoopRecord, Status, AtItem
<1>d. ASSUME NEW how, NEW c, Ends(p, how, c)
      PROVE  loop' = [loop EXCEPT ![p] = [loop[p] EXCEPT !.pc = "write", !.end = how, !.chat = c]]
  BY <1>a, <1>d DEF Ends
<1>1. CASE StartLoop(p)
  <2>1. loop' = [loop EXCEPT ![p] = [loop[p] EXCEPT !.pc = "read"]]
    BY <1>1 DEF StartLoop
  <2>2. LoopShape([loop[p] EXCEPT !.pc = "read"])
    BY <1>a DEF LoopShape, LoopRecord, AtItem
  <2> QED
    BY <1>1, <1>a, <2>1, <2>2, LoopStepTypes DEF StartLoop
<1>2. CASE LoopSeesTheEnd(p)
  BY <1>2, <1>a, <1>b, LoopStepTypes DEF LoopSeesTheEnd, LoopOnly
<1>3. CASE LoopFindsOneToSkip(p)
  <2> DEFINE l == [Idle EXCEPT !.pc = "skip", !.item = nextStep(items).item]
  <2>1. nextStep(items).item \in Item
    BY <1>3, <1>a, NextStepIsWaiting DEF LoopFindsOneToSkip
  <2>2. nextStep(items).item \in 0 .. N
    BY <2>1, QueueConstants DEF Item
  <2>3. l \in LoopRecord
    BY <2>2 DEF LoopRecord, Idle
  <2>4. LoopShape(l)
    BY <2>1, <2>3 DEF LoopShape, AtItem, Idle
  <2> QED
    BY <1>3, <1>a, <2>4, LoopStepTypes DEF LoopFindsOneToSkip, LoopOnly
<1>4. CASE LoopFindsOneToRun(p)
  <2> DEFINE j == nextStep(items).item
             l == [pc |-> "take", item |-> j, chat |-> items[j].chat,
                   resume |-> items[j].resume, end |-> "none"]
  <2>1. j \in Item
    BY <1>4, <1>a, NextStepIsWaiting DEF LoopFindsOneToRun
  <2>2. items[j].chat \in Chat \cup {NoChat} /\ items[j].resume \in BOOLEAN
    BY <2>1, <1>a DEF ItemRecord
  <2>3. LoopShape(l)
    BY <2>1, <2>2, QueueConstants DEF LoopShape, LoopRecord, AtItem, Item
  <2> QED
    BY <1>4, <1>a, <2>3, LoopStepTypes DEF LoopFindsOneToRun, LoopOnly
<1>5. CASE LoopSkips(p)
  <2>1. i \in Item /\ items[i] \in ItemRecord
    BY <1>5, <1>a DEF LoopSkips, LoopShape, AtItem
  <2>2. [items[i] EXCEPT !.st = "skipped"] \in ItemRecord
    BY <2>1 DEF ItemRecord, Status
  <2>3. items' \in [Item -> ItemRecord]
    BY <1>5, <1>a, <2>1, <2>2, PatchTypes DEF LoopSkips
  <2> QED
    BY <1>5, <1>a, <1>b, <2>3, LoopStepTypes DEF LoopSkips
<1>6. CASE LoopTakes(p)
  <2> DEFINE r == [items[i] EXCEPT !.st = "running", !.resume = FALSE,
                                   !.chat = IF loop[p].resume THEN @ ELSE NoChat]
  <2>1. i \in Item /\ items[i] \in ItemRecord
    BY <1>6, <1>a DEF LoopTakes, LoopShape, AtItem
  <2>2. r \in ItemRecord
    BY <2>1 DEF ItemRecord, Status
  <2>3. items' \in [Item -> ItemRecord]
    BY <1>6, <1>a, <2>1, <2>2, PatchTypes DEF LoopTakes
  <2>4. LoopShape([loop[p] EXCEPT !.pc = "begin"])
    BY <2>1, <1>a DEF LoopShape, LoopRecord, AtItem
  <2>5. loop' = [loop EXCEPT ![p] = [loop[p] EXCEPT !.pc = "begin"]]
    BY <1>6 DEF LoopTakes
  <2> QED
    BY <1>6, <1>a, <2>3, <2>4, <2>5, LoopStepTypes DEF LoopTakes
<1>7. CASE LoopWrites(p)
  <2> DEFINE r == [items[i] EXCEPT !.st = loop[p].end,
                                   !.chat = IF loop[p].chat = NoChat THEN @ ELSE loop[p].chat]
  <2>1. /\ i \in Item /\ items[i] \in ItemRecord
        /\ loop[p].end \in Status /\ loop[p].chat \in Chat \cup {NoChat}
    BY <1>7, <1>a DEF LoopWrites, LoopShape, LoopRecord, AtItem, Status
  <2>2. r \in ItemRecord
    BY <2>1 DEF ItemRecord
  <2>3. items' \in [Item -> ItemRecord]
    BY <1>7, <1>a, <2>1, <2>2, PatchTypes DEF LoopWrites
  <2> DEFINE l == [Idle EXCEPT !.pc = IF loop[p].end = "stopped" THEN "ending" ELSE "read"]
  <2>4. LoopShape(l)
    BY <1>b
  <2>5. loop' = [loop EXCEPT ![p] = l]
    BY <1>7 DEF LoopWrites
  <2> HIDE DEF l
  <2> QED
    BY <1>7, <1>a, <2>3, <2>4, <2>5, LoopStepTypes DEF LoopWrites
<1>8. CASE LoopEnds(p)
  BY <1>8, <1>a, <1>b, LoopStepTypes DEF LoopEnds
<1>9. CASE StoppedBeforeItBegan(p) \/ CannotBegin(p) \/ PollSeesClosing(p)
  <2>1. i \in Item /\ loop[p].chat \in Chat \cup {NoChat}
    BY <1>9, <1>a DEF StoppedBeforeItBegan, CannotBegin, PollSeesClosing, LoopShape, LoopRecord, AtItem
  <2>2. PICK how \in {"failed", "stopped"} : Ends(p, how, loop[p].chat)
    BY <1>9 DEF StoppedBeforeItBegan, CannotBegin, PollSeesClosing
  <2>3. /\ loop' = [loop EXCEPT ![p] = [loop[p] EXCEPT !.pc = "write", !.end = how, !.chat = loop[p].chat]]
        /\ LoopShape([loop[p] EXCEPT !.pc = "write", !.end = how, !.chat = loop[p].chat])
    BY <2>1, <2>2, <1>c, <1>d
  <2>4. LoopOnly
    BY <1>9 DEF StoppedBeforeItBegan, CannotBegin, PollSeesClosing
  <2> QED
    BY <1>a, <2>3, <2>4, LoopStepTypes DEF LoopOnly
<1>10. CASE MakesChat(p)
  <2> DEFINE c == <<loop[p].item, p>>
             l == [loop[p] EXCEPT !.pc = "made", !.chat = c]
  <2>1. i \in Item /\ c \in Chat
    BY <1>10, <1>a DEF MakesChat, LoopShape, AtItem, Chat
  <2>2. NewChat \in ChatRecord
    BY DEF NewChat, ChatRecord
  <2>3. LoopShape(l)
    BY <2>1, <1>a DEF LoopShape, LoopRecord, AtItem
  <2>4. loop' = [loop EXCEPT ![p] = l]
    BY <1>10, <1>a DEF MakesChat
  <2>5. chat' \in [Chat -> ChatRecord] /\ parker' \in [Chat -> {"off", "found", "kept"}]
    BY <1>10, <1>a, <2>1, <2>2 DEF MakesChat
  <2> QED
    BY <1>10, <1>a, <2>3, <2>4, <2>5, LoopStepTypes DEF MakesChat
<1>11. CASE NamesChat(p)
  <2>1. i \in Item /\ items[i] \in ItemRecord /\ loop[p].chat \in Chat
    BY <1>11, <1>a DEF NamesChat, LoopShape, AtItem
  <2>2. [items[i] EXCEPT !.chat = loop[p].chat] \in ItemRecord
    BY <2>1 DEF ItemRecord
  <2>3. items' \in [Item -> ItemRecord]
    BY <1>11, <1>a, <2>1, <2>2, PatchTypes DEF NamesChat
  <2>4. LoopShape([loop[p] EXCEPT !.pc = "ready"])
    BY <2>1, <1>a DEF LoopShape, LoopRecord, AtItem
  <2>5. loop' = [loop EXCEPT ![p] = [loop[p] EXCEPT !.pc = "ready"]]
    BY <1>11 DEF NamesChat
  <2> QED
    BY <1>11, <1>a, <2>3, <2>4, <2>5, LoopStepTypes DEF NamesChat
<1>12. CASE CarriesOn(p)
  <2>1. i \in Item /\ loop[p].chat \in Chat
    BY <1>12, <1>a DEF CarriesOn, LoopShape, LoopRecord, AtItem
  <2>2. NewChat \in ChatRecord
    BY DEF NewChat, ChatRecord
  <2>3. /\ UNCHANGED <<items, running, queueLoop, browser, parker, answering, rest>>
        /\ \/ /\ chat' = [chat EXCEPT ![loop[p].chat] = NewChat]
              /\ loop' = [loop EXCEPT ![p] = [loop[p] EXCEPT !.pc = "ready"]]
           \/ Ends(p, "failed", loop[p].chat) /\ UNCHANGED chat
    BY <1>12 DEF CarriesOn
  <2>4. LoopShape([loop[p] EXCEPT !.pc = "ready"])
    BY <2>1, <1>a DEF LoopShape, LoopRecord, AtItem
  <2>5. chat' \in [Chat -> ChatRecord]
    BY <2>1, <2>2, <2>3, <1>a
  <2>6. \E l : loop' = [loop EXCEPT ![p] = l] /\ LoopShape(l)
    <3>1. CASE loop' = [loop EXCEPT ![p] = [loop[p] EXCEPT !.pc = "ready"]]
      BY <2>4, <3>1
    <3>2. CASE Ends(p, "failed", loop[p].chat)
      <4> DEFINE l == [loop[p] EXCEPT !.pc = "write", !.end = "failed", !.chat = loop[p].chat]
      <4>1. loop' = [loop EXCEPT ![p] = l]
        BY <3>2, <1>d
      <4>2. LoopShape(l)
        BY <2>1, <1>c
      <4> QED
        BY <4>1, <4>2
    <3> QED
      BY <2>3, <3>1, <3>2
  <2> QED
    BY <1>a, <2>3, <2>5, <2>6, LoopStepTypes
<1>13. CASE StartsRun(p)
  <2>1. i \in Item /\ loop[p].chat \in Chat
    BY <1>13, <1>a DEF StartsRun, LoopShape, AtItem
  <2>2. LoopShape([loop[p] EXCEPT !.pc = "work"])
    BY <2>1, <1>a DEF LoopShape, LoopRecord, AtItem
  <2>3. chat' \in [Chat -> ChatRecord]
    BY <1>13, <1>a, <2>1 DEF StartsRun, ChatRecord
  <2>4. loop' = [loop EXCEPT ![p] = [loop[p] EXCEPT !.pc = "work"]]
    BY <1>13 DEF StartsRun
  <2> QED
    BY <1>13, <1>a, <2>1, <2>2, <2>3, <2>4, LoopStepTypes DEF StartsRun
<1>14. CASE PollStops(p)
  <2>1. chat' \in [Chat -> ChatRecord]
    BY <1>14, <1>a, StopTypes DEF PollStops
  <2> QED
    BY <1>14, <2>1 DEF PollStops, TypeOK, rest
<1>15. CASE Collects(p)
  <2> DEFINE c == chat[loop[p].chat]
             how == IF c.parked /\ ~c.answer THEN "parked" ELSE statusOfTask(c.st)
  <2>1. i \in Item /\ loop[p].chat \in Chat
    BY <1>15, <1>a DEF Collects, LoopShape, AtItem
  <2>2. how \in {"done", "failed", "stopped", "parked"}
    BY DEF statusOfTask
  <2>3. Ends(p, how, loop[p].chat) /\ LoopOnly
    BY <1>15 DEF Collects
  <2> HIDE DEF how
  <2>4. \E l : loop' = [loop EXCEPT ![p] = l] /\ LoopShape(l)
    BY <2>1, <2>2, <2>3, <1>c, <1>d
  <2> QED
    BY <1>a, <2>3, <2>4, LoopStepTypes DEF LoopOnly
<1> QED
  BY <1>1, <1>2, <1>3, <1>4, <1>5, <1>6, <1>7, <1>8, <1>9, <1>10, <1>11, <1>12,
     <1>13, <1>14, <1>15 DEF LoopSteps

(* Each step of a chat's run, of the browser and of a card's timer keeps   *)
(* the shape of the state.                                                 *)
LEMMA TypeInTheRun ==
  ASSUME TypeOK, NEW c \in Chat,
         \/ RunAsks(c) \/ OperatorAnswers(c) \/ OperatorStopsChat(c)
         \/ \E how \in Over : RunEnds(c, how)
         \/ BrowserReleased(c) \/ ParkSteps(c)
  PROVE  TypeOK'
<1>a. chat \in [Chat -> ChatRecord] /\ parker \in [Chat -> {"off", "found", "kept"}]
  BY DEF TypeOK
<1>b. asks' \in {asks, asks + 1}
  BY DEF RunAsks, OperatorAnswers, OperatorStopsChat, RunEnds, RunOnly,
         BrowserReleased, ParkSteps, ParkFires, ParkKeepsCard, ParkStops, ParkOnly, rest
<1>1. chat' \in [Chat -> ChatRecord]
  <2>1. CASE RunAsks(c) \/ OperatorAnswers(c) \/ ParkKeepsCard(c)
    <3>1. chat[c] \in ChatRecord
      BY <1>a
    <3>2. /\ [chat[c] EXCEPT !.card = TRUE] \in ChatRecord
          /\ [chat[c] EXCEPT !.card = FALSE] \in ChatRecord
          /\ [chat[c] EXCEPT !.parked = TRUE, !.answer = FALSE] \in ChatRecord
      BY <3>1 DEF ChatRecord
    <3>3. \E r \in ChatRecord : chat' = [chat EXCEPT ![c] = r]
      BY <2>1, <1>a, <3>2 DEF RunAsks, OperatorAnswers, ParkKeepsCard
    <3> QED
      BY <1>a, <3>3
  <2>2. CASE OperatorStopsChat(c) \/ ParkStops(c)
    <3>1. chat' = Stopped(chat, c)
      BY <2>2 DEF OperatorStopsChat, ParkStops
    <3> QED
      BY <1>a, <3>1, StopTypes
  <2>3. ASSUME NEW how \in Over, RunEnds(c, how)
        PROVE  chat' \in [Chat -> ChatRecord]
    BY <2>3, <1>a DEF RunEnds, ChatRecord
  <2>4. CASE BrowserReleased(c) \/ ParkFires(c)
    BY <2>4, <1>a DEF BrowserReleased, ParkFires
  <2> QED
    BY <2>1, <2>2, <2>3, <2>4 DEF ParkSteps
<1>2. parker' \in [Chat -> {"off", "found", "kept"}]
  BY <1>a DEF RunAsks, OperatorAnswers, OperatorStopsChat, RunEnds, RunOnly,
              BrowserReleased, ParkSteps, ParkFires, ParkKeepsCard, ParkStops
<1>3. /\ UNCHANGED <<items, running, queueLoop, loop, answering, recovery, closing, edits, crashes>>
      /\ browser' \in {browser, Free}
  BY DEF RunAsks, OperatorAnswers, OperatorStopsChat, RunEnds, RunOnly,
         BrowserReleased, ParkSteps, ParkFires, ParkKeepsCard, ParkStops, ParkOnly, rest
<1> QED
  <2>1. asks' \in Nat
    BY <1>b DEF TypeOK
  <2> QED
    BY <2>1, <1>1, <1>2, <1>3 DEF TypeOK

(* Each step keeps the shape of the state. *)
LEMMA TypeStep ==
  ASSUME TypeOK, [Next]_vars
  PROVE  TypeOK'
<1>1. CASE UNCHANGED vars
  BY <1>1 DEF vars, rest, TypeOK
<1>2. CASE Next
  <2>1. CASE \E p \in Press : LoopSteps(p)
    BY <2>1, TypeInTheLoop
  <2>2. CASE \E c \in Chat : \/ RunAsks(c) \/ OperatorAnswers(c) \/ OperatorStopsChat(c)
                             \/ \E how \in Over : RunEnds(c, how)
                             \/ BrowserReleased(c) \/ ParkSteps(c)
    BY <2>2, TypeInTheRun
  <2> QED
    BY <1>2, <2>1, <2>2, TypeOutsideTheLoop DEF Next
<1> QED
  BY <1>1, <1>2

(* The state begins in its shape. *)
LEMMA TypeInit ==
  ASSUME Init
  PROVE  TypeOK
<1>1. PICK needs \in [Item -> SUBSET Start] :
        items = [i \in Item |-> IF i \in Start THEN NewTask(needs[i]) ELSE Absent("absent")]
  BY DEF Init
<1>2. items \in [Item -> ItemRecord]
  <2> SUFFICES ASSUME NEW i \in Item PROVE items[i] \in ItemRecord
    BY <1>1
  <2>1. needs[i] \subseteq Item
    BY QueueConstants
  <2> QED
    BY <1>1, <2>1 DEF NewTask, Absent, ItemRecord, Status, NotListed
<1>3. Idle \in LoopRecord
  <2>1. 0 \in 0 .. N
    BY QueueConstants
  <2> QED
    BY <2>1 DEF Idle, LoopRecord
<1>4. loop \in [Press -> LoopRecord] /\ \A p \in Press : loop[p].pc = "off"
  BY <1>3 DEF Init, Idle
<1>5. NoTask \in ChatRecord
  BY DEF NoTask, NewChat, ChatRecord
<1> QED
  BY <1>2, <1>4, <1>5 DEF Init, TypeOK, AtItem

(* Type correctness, with nothing assumed of how the operator uses the page. *)
THEOREM TypeCorrect == Spec => []TypeOK
<1>1. Init => TypeOK
  BY TypeInit
<1>2. TypeOK /\ [Next]_vars => TypeOK'
  BY TypeStep
<1> QED
  BY <1>1, <1>2, PTL DEF Spec

----------------------------------------------------------------------------
(* The browser. *)

(* The steps that touch a chat or the browser; any other leaves both alone. *)
LEMMA ChatSteps ==
  ASSUME [Next]_vars
  PROVE  \/ UNCHANGED <<chat, browser, parker>>
         \/ \E p \in Press : MakesChat(p) \/ CarriesOn(p) \/ StartsRun(p) \/ PollStops(p)
         \/ \E c \in Chat : \/ RunAsks(c) \/ OperatorAnswers(c) \/ OperatorStopsChat(c)
                            \/ \E how \in Over : RunEnds(c, how)
                            \/ BrowserReleased(c) \/ ParkSteps(c)
         \/ \E i \in Item : AnswerRecords(i)
         \/ StopQueue \/ OtherTakes \/ OtherReleases \/ Crash
<1>1. CASE UNCHANGED vars
  BY <1>1 DEF vars
<1>2. CASE PageSteps \/ Close \/ RecoverReads \/ RecoverWrites \/ \E p \in Press : PressRun(p)
  BY <1>2 DEF PageSteps, AddTask, TakeOut, RunAgain, ChangeNeeds, Save,
              Close, RecoverReads, RecoverWrites, RecoverOnly, PressRun
<1>3. ASSUME NEW p \in Press, LoopSteps(p)
      PROVE  \/ UNCHANGED <<chat, browser, parker>>
             \/ MakesChat(p) \/ CarriesOn(p) \/ StartsRun(p) \/ PollStops(p)
  BY <1>3 DEF LoopSteps, StartLoop, LoopSeesTheEnd, LoopFindsOneToSkip, LoopFindsOneToRun,
              LoopSkips, LoopTakes, LoopWrites, LoopEnds, StoppedBeforeItBegan, CannotBegin,
              NamesChat, PollSeesClosing, Collects, LoopOnly
<1>4. ASSUME NEW i \in Item, AnswerSteps(i)
      PROVE  UNCHANGED <<chat, browser, parker>> \/ AnswerRecords(i)
  BY <1>4 DEF AnswerSteps, StopAtCard, AnswerQueues, AnswerOnly
<1> QED
  BY <1>1, <1>2, <1>3, <1>4 DEF Next

(* The run of a chat keeps the browser to itself through every step. *)
LEMMA BrowserStep ==
  ASSUME TypeOK, RunHoldsTheBrowser, [Next]_vars
  PROVE  RunHoldsTheBrowser'
<1>a. /\ chat \in [Chat -> ChatRecord] /\ loop \in [Press -> LoopRecord]
      /\ \A p \in Press : LoopShape(loop[p])
      /\ Free \notin Chat /\ Other \notin Chat
  BY QueueConstants DEF TypeOK, LoopShape
<1>1. CASE UNCHANGED <<chat, browser, parker>>
  BY <1>1 DEF RunHoldsTheBrowser
<1>2. ASSUME UNCHANGED browser, \A c \in Chat : chat'[c].st = chat[c].st
      PROVE  RunHoldsTheBrowser'
  BY <1>2 DEF RunHoldsTheBrowser
<1>3. ASSUME UNCHANGED browser, NEW c, chat' = Stopped(chat, c)
      PROVE  RunHoldsTheBrowser'
  <2>1. ASSUME NEW d \in Chat
        PROVE  chat'[d].st = chat[d].st
    <3>1. \/ chat'[d] = chat[d]
          \/ chat'[d] = [chat[d] EXCEPT !.stopping = TRUE, !.card = FALSE]
      BY <1>3, <1>a DEF Stopped
    <3>2. chat[d] \in ChatRecord
      BY <1>a
    <3> QED
      BY <3>1, <3>2 DEF ChatRecord
  <2> QED
    BY <1>2, <1>3, <2>1
<1>4. CASE \E p \in Press : MakesChat(p) \/ CarriesOn(p)
  <2>1. browser = Free /\ browser' = Free
    BY <1>4 DEF MakesChat, CarriesOn
  <2>2. \A c \in Chat : chat[c].st # "running"
    BY <2>1, <1>a DEF RunHoldsTheBrowser
  <2>3. \/ chat' = chat
        \/ \E c : chat' = [chat EXCEPT ![c] = NewChat]
    BY <1>4 DEF MakesChat, CarriesOn
  <2>4. \A c \in Chat : chat'[c].st # "running"
    BY <2>2, <2>3, <1>a DEF NewChat
  <2> QED
    BY <2>1, <2>4, <1>a DEF RunHoldsTheBrowser
<1>5. ASSUME NEW p \in Press, StartsRun(p)
      PROVE  RunHoldsTheBrowser'
  <2>1. /\ loop[p].chat \in Chat /\ browser = Free /\ browser' = loop[p].chat
        /\ chat' = [chat EXCEPT ![loop[p].chat].st = "running"]
    BY <1>5, <1>a DEF StartsRun, LoopShape
  <2>2. \A c \in Chat : chat[c].st # "running"
    BY <2>1, <1>a DEF RunHoldsTheBrowser
  <2>3. ASSUME NEW d \in Chat
        PROVE  chat'[d].st = IF d = loop[p].chat THEN "running" ELSE chat[d].st
    BY <2>1, <1>a DEF ChatRecord
  <2> QED
    BY <2>1, <2>2, <2>3 DEF RunHoldsTheBrowser
<1>6. CASE \E p \in Press : PollStops(p)
  BY <1>3, <1>6 DEF PollStops
<1>7. ASSUME NEW c \in Chat, RunAsks(c) \/ OperatorAnswers(c) \/ ParkFires(c) \/ ParkKeepsCard(c)
      PROVE  RunHoldsTheBrowser'
  <2>1. UNCHANGED browser
    BY <1>7 DEF RunAsks, OperatorAnswers, ParkFires, ParkKeepsCard, ParkOnly
  <2>2. \/ chat' = chat
        \/ chat' = [chat EXCEPT ![c].card = TRUE]
        \/ chat' = [chat EXCEPT ![c].card = FALSE]
        \/ chat' = [chat EXCEPT ![c].parked = TRUE, ![c].answer = FALSE]
    BY <1>7 DEF RunAsks, OperatorAnswers, ParkFires, ParkKeepsCard
  <2>3. \A d \in Chat : chat'[d].st = chat[d].st
    BY <2>2, <1>a DEF ChatRecord
  <2> QED
    BY <1>2, <2>1, <2>3
<1>8. ASSUME NEW c \in Chat, OperatorStopsChat(c) \/ ParkStops(c)
      PROVE  RunHoldsTheBrowser'
  BY <1>3, <1>8 DEF OperatorStopsChat, ParkStops, ParkOnly
<1>9. ASSUME NEW c \in Chat, NEW how \in Over, RunEnds(c, how)
      PROVE  RunHoldsTheBrowser'
  <2>1. /\ UNCHANGED browser /\ chat[c].st = "running"
        /\ chat' = [chat EXCEPT ![c].st = how, ![c].stopping = FALSE]
    BY <1>9 DEF RunEnds
  <2>2. \A d \in Chat : chat'[d].st = IF d = c THEN how ELSE chat[d].st
    BY <2>1, <1>a DEF ChatRecord
  <2> QED
    BY <2>1, <2>2 DEF RunHoldsTheBrowser, Over
<1>10. ASSUME NEW c \in Chat, BrowserReleased(c)
       PROVE  RunHoldsTheBrowser'
  BY <1>10, <1>a DEF BrowserReleased, RunHoldsTheBrowser, Over
<1>11. ASSUME NEW i \in Item, AnswerRecords(i)
       PROVE  RunHoldsTheBrowser'
  <2>1. UNCHANGED browser /\ chat' = [chat EXCEPT ![items[i].chat].answer = TRUE]
    BY <1>11 DEF AnswerRecords, AnswerOnly
  <2>2. \A d \in Chat : chat'[d].st = chat[d].st
    BY <2>1, <1>a DEF ChatRecord
  <2> QED
    BY <1>2, <2>1, <2>2
<1>12. CASE StopQueue
  BY <1>1, <1>3, <1>12 DEF StopQueue
<1>13. CASE OtherTakes \/ OtherReleases
  BY <1>13, <1>a DEF OtherTakes, OtherReleases, RunHoldsTheBrowser
<1>14. CASE Crash
  <2>1. browser' = Free
    BY <1>14 DEF Crash
  <2>2. ASSUME NEW d \in Chat
        PROVE  chat'[d].st # "running"
    <3>1. chat[d] \in ChatRecord
      BY <1>a
    <3>2. chat'[d] = IF chat[d].st = "running"
                     THEN [chat[d] EXCEPT !.st = "aborted", !.card = FALSE, !.stopping = FALSE]
                     ELSE chat[d]
      BY <1>14 DEF Crash
    <3> QED
      BY <3>1, <3>2 DEF ChatRecord
  <2> QED
    BY <2>1, <2>2, <1>a DEF RunHoldsTheBrowser
<1> QED
  BY ChatSteps, <1>1, <1>4, <1>5, <1>6, <1>7, <1>8, <1>9, <1>10, <1>11, <1>12, <1>13, <1>14
     DEF ParkSteps

(* The browser is one, and no run goes on without it: with nothing assumed  *)
(* of how the operator uses the page, and however often the bot dies.       *)
THEOREM BrowserIsHeld == Spec => []RunHoldsTheBrowser
<1>1. Init => RunHoldsTheBrowser
  BY QueueConstants DEF Init, RunHoldsTheBrowser, NoTask, NewChat
<1>2. TypeOK /\ RunHoldsTheBrowser /\ [Next]_vars => RunHoldsTheBrowser'
  BY BrowserStep
<1> QED
  BY <1>1, <1>2, TypeCorrect, PTL DEF Spec

----------------------------------------------------------------------------
(* A run under way, its window and a chat named by the list stay in step:  *)
(* each action's effect on the browser and the chats' records.            *)
LEMMA ChatInvStep ==
  ASSUME TypeOK, ChatInv, [Next]_vars
  PROVE  ChatInv'
<1> DEFINE C(d) ==
      /\ chat[d].card => chat[d].st = "running" /\ ~chat[d].stopping
      /\ parker[d] = "found" => ~chat[d].parked
      /\ chat[d].parked /\ chat[d].st = "running" /\ ~chat[d].stopping => parker[d] = "kept"
      /\ chat[d].st = "queued" => ~chat[d].parked /\ parker[d] # "found"
      /\ chat[d].answer => chat[d].parked
<1>a. /\ chat \in [Chat -> ChatRecord] /\ loop \in [Press -> LoopRecord]
      /\ parker \in [Chat -> {"off", "found", "kept"}]
      /\ \A p \in Press : LoopShape(loop[p])
      /\ \A d \in Chat : chat[d] \in ChatRecord
  BY DEF TypeOK, LoopShape
<1> SUFFICES ASSUME NEW d \in Chat
             PROVE  C(d)'
  BY DEF ChatInv
<1>b. C(d) /\ chat[d] \in ChatRecord
  BY <1>a DEF ChatInv
<1>0. ASSUME chat'[d] = chat[d], parker'[d] = parker[d]
      PROVE  C(d)'
  BY <1>0, <1>b
<1>1. CASE UNCHANGED <<chat, browser, parker>>
  BY <1>1, <1>0
<1>2. ASSUME NEW c, chat' = Stopped(chat, c), parker'[d] \in {parker[d], "off"}, c = d \/ parker'[d] = parker[d]
      PROVE  C(d)'
  <2>1. \/ chat'[d] = chat[d] /\ (c # d \/ chat[d].st # "running")
        \/ chat'[d] = [chat[d] EXCEPT !.stopping = TRUE, !.card = FALSE]
    BY <1>2, <1>a DEF Stopped
  <2>2. CASE chat'[d] = chat[d] /\ (c # d \/ chat[d].st # "running")
    BY <1>2, <2>2, <1>b
  <2>3. CASE chat'[d] = [chat[d] EXCEPT !.stopping = TRUE, !.card = FALSE]
    <3>1. /\ chat'[d].st = chat[d].st /\ chat'[d].parked = chat[d].parked
          /\ chat'[d].answer = chat[d].answer /\ chat'[d].stopping /\ ~chat'[d].card
      BY <2>3, <1>b DEF ChatRecord
    <3> QED
      BY <1>2, <3>1, <1>b
  <2> QED
    BY <2>1, <2>2, <2>3
<1>3. ASSUME NEW p \in Press, MakesChat(p)
      PROVE  C(d)'
  <2>1. PICK c \in Chat : chat' = [chat EXCEPT ![c] = NewChat] /\ parker' = [parker EXCEPT ![c] = "off"]
    BY <1>3, <1>a DEF MakesChat, LoopShape, Chat, AtItem
  <2> QED
    BY <2>1, <1>0, <1>a DEF NewChat
<1>4. ASSUME NEW p \in Press, CarriesOn(p)
      PROVE  C(d)'
  <2>1. CASE chat' = chat
    BY <1>4, <2>1, <1>0 DEF CarriesOn
  <2>2. CASE /\ chat' = [chat EXCEPT ![loop[p].chat] = NewChat]
             /\ chat[loop[p].chat].parked
    BY <1>4, <2>2, <1>0, <1>a, <1>b DEF CarriesOn, NewChat
  <2> QED
    BY <1>4, <2>1, <2>2 DEF CarriesOn
<1>5. ASSUME NEW p \in Press, StartsRun(p)
      PROVE  C(d)'
  <2>1. /\ loop[p].chat \in Chat /\ chat[loop[p].chat].st = "queued" /\ parker' = parker
        /\ chat' = [chat EXCEPT ![loop[p].chat].st = "running"]
    BY <1>5, <1>a DEF StartsRun, LoopShape
  <2>2. CASE d = loop[p].chat
    <3>1. chat'[d] = [chat[d] EXCEPT !.st = "running"]
      BY <2>1, <2>2, <1>a
    <3> QED
      BY <3>1, <2>1, <2>2, <1>b DEF ChatRecord
  <2>3. CASE d # loop[p].chat
    BY <2>1, <2>3, <1>a, <1>0
  <2> QED
    BY <2>2, <2>3
<1>6. CASE \E p \in Press : PollStops(p)
  BY <1>2, <1>6 DEF PollStops
<1>7. ASSUME NEW c \in Chat, RunAsks(c) \/ OperatorAnswers(c)
      PROVE  C(d)'
  <2>1. /\ parker' = parker
        /\ \/ /\ chat' = [chat EXCEPT ![c].card = TRUE]
              /\ chat[c].st = "running" /\ ~chat[c].stopping
           \/ chat' = [chat EXCEPT ![c].card = FALSE]
    BY <1>7 DEF RunAsks, OperatorAnswers, RunOnly
  <2>2. CASE c = d
    <3>1. chat'[d] \in {[chat[d] EXCEPT !.card = TRUE], [chat[d] EXCEPT !.card = FALSE]}
      BY <2>1, <2>2, <1>a
    <3>2. /\ chat'[d].st = chat[d].st /\ chat'[d].stopping = chat[d].stopping
          /\ chat'[d].parked = chat[d].parked /\ chat'[d].answer = chat[d].answer
          /\ chat'[d].card => chat[d].st = "running" /\ ~chat[d].stopping
      BY <2>1, <2>2, <3>1, <1>a, <1>b DEF ChatRecord
    <3> QED
      BY <2>1, <3>2, <1>b
  <2>3. CASE c # d
    BY <2>1, <2>3, <1>a, <1>0
  <2> QED
    BY <2>2, <2>3
<1>8. ASSUME NEW c \in Chat, OperatorStopsChat(c)
      PROVE  C(d)'
  BY <1>2, <1>8 DEF OperatorStopsChat, RunOnly
<1>9. ASSUME NEW c \in Chat, NEW how \in Over, RunEnds(c, how)
      PROVE  C(d)'
  <2>1. /\ parker' = parker /\ ~chat[c].card /\ how \notin {"running", "queued"}
        /\ chat' = [chat EXCEPT ![c].st = how, ![c].stopping = FALSE]
    BY <1>9 DEF RunEnds, RunOnly, Over
  <2>2. CASE c = d
    <3>1. chat'[d] = [chat[d] EXCEPT !.st = how, !.stopping = FALSE]
      BY <2>1, <2>2, <1>a
    <3> QED
      BY <2>1, <2>2, <3>1, <1>b DEF ChatRecord
  <2>3. CASE c # d
    BY <2>1, <2>3, <1>a, <1>0
  <2> QED
    BY <2>2, <2>3
<1>10. ASSUME NEW c \in Chat, BrowserReleased(c)
       PROVE  C(d)'
  BY <1>10, <1>0 DEF BrowserReleased, RunOnly
<1>11. ASSUME NEW c \in Chat, ParkFires(c)
       PROVE  C(d)'
  BY <1>11, <1>0, <1>a, <1>b DEF ParkFires
<1>12. ASSUME NEW c \in Chat, ParkKeepsCard(c)
       PROVE  C(d)'
  <2>1. /\ parker[c] = "found" /\ parker' = [parker EXCEPT ![c] = "kept"]
        /\ chat' = [chat EXCEPT ![c].parked = TRUE, ![c].answer = FALSE]
    BY <1>12 DEF ParkKeepsCard
  <2>2. CASE c = d
    <3>1. chat'[d] = [chat[d] EXCEPT !.parked = TRUE, !.answer = FALSE] /\ parker'[d] = "kept"
      BY <2>1, <2>2, <1>a
    <3>2. /\ chat'[d].st = chat[d].st /\ chat'[d].card = chat[d].card
          /\ chat'[d].stopping = chat[d].stopping /\ ~chat'[d].answer
      BY <3>1, <1>b DEF ChatRecord
    <3> QED
      BY <2>1, <2>2, <3>1, <3>2, <1>b
  <2>3. CASE c # d
    BY <2>1, <2>3, <1>a, <1>0
  <2> QED
    BY <2>2, <2>3
<1>13. ASSUME NEW c \in Chat, ParkStops(c)
       PROVE  C(d)'
  <2>1. /\ chat' = Stopped(chat, c) /\ parker' = [parker EXCEPT ![c] = "off"]
    BY <1>13 DEF ParkStops
  <2>2. CASE c = d
    <3>1. \/ chat'[d] = chat[d] /\ chat[d].st # "running"
          \/ chat'[d] = [chat[d] EXCEPT !.stopping = TRUE, !.card = FALSE] /\ chat[d].st = "running"
      BY <2>1, <2>2, <1>a DEF Stopped
    <3> QED
      BY <2>1, <2>2, <3>1, <1>a, <1>b DEF ChatRecord
  <2>3. CASE c # d
    BY <2>1, <2>3, <1>2, <1>a
  <2> QED
    BY <2>2, <2>3
<1>14. ASSUME NEW i \in Item, AnswerRecords(i)
       PROVE  C(d)'
  <2>1. /\ parker' = parker /\ chat[items[i].chat].parked
        /\ chat' = [chat EXCEPT ![items[i].chat].answer = TRUE]
    BY <1>14 DEF AnswerRecords, AnswerOnly, HasOpenCard
  <2>2. CASE d = items[i].chat
    <3>1. chat'[d] = [chat[d] EXCEPT !.answer = TRUE]
      BY <2>1, <2>2, <1>a
    <3> QED
      BY <2>1, <2>2, <3>1, <1>b DEF ChatRecord
  <2>3. CASE d # items[i].chat
    BY <2>1, <2>3, <1>a, <1>0
  <2> QED
    BY <2>2, <2>3
<1>15. CASE StopQueue
  BY <1>0, <1>2, <1>15 DEF StopQueue
<1>16. CASE OtherTakes \/ OtherReleases
  BY <1>16, <1>0 DEF OtherTakes, OtherReleases, RunOnly
<1>17. CASE Crash
  <2>1. parker'[d] = "off"
    BY <1>17 DEF Crash
  <2>2. chat'[d] = IF chat[d].st = "running"
                   THEN [chat[d] EXCEPT !.st = "aborted", !.card = FALSE, !.stopping = FALSE]
                   ELSE chat[d]
    BY <1>17 DEF Crash
  <2> QED
    BY <2>1, <2>2, <1>b DEF ChatRecord
<1> QED
  BY ChatSteps, <1>1, <1>3, <1>4, <1>5, <1>6, <1>7, <1>8, <1>9, <1>10, <1>11, <1>12, <1>13,
     <1>14, <1>15, <1>16, <1>17 DEF ParkSteps

----------------------------------------------------------------------------
(* The inductive invariant is kept: the tasks, and the loop at one of them. *)

(* A step that leaves the list alone, takes no card nor answer off a record *)
(* and at most ends loops keeps the invariant.                              *)
LEMMA RecordsKept ==
  ASSUME IInv, items' = items, answering' \subseteq answering,
         \A p \in Press : loop'[p] \in {loop[p], Idle},
         \A c \in Chat : chat[c].parked => /\ chat'[c].parked
                                           /\ chat[c].answer => chat'[c].answer
  PROVE  Kept'
<1>a. /\ \A i \in Item : items[i].chat \in Chat \cup {NoChat}
      /\ \A p \in Press : loop[p].chat \in Chat \cup {NoChat}
  BY DEF IInv, TypeOK, ItemRecord, LoopRecord
<1>1. /\ \A i \in Item : Settled(i)' = Settled(i) /\ HasBegun(i)' = HasBegun(i)
      /\ Answered(items)' = Answered(items)
  BY DEF Settled, HasBegun, Answered, Waiting
<1>2. LoopInv'
  <2> SUFFICES ASSUME NEW p \in Press PROVE LoopAt(loop[p])'
    BY DEF LoopInv
  <2>1. CASE loop'[p] = Idle
    BY <2>1 DEF LoopAt, Idle, AtItem
  <2>2. CASE loop'[p] = loop[p]
    <3>1. LoopAt(loop[p]) /\ (loop[p].pc \in AtItem => loop[p].item \in Item)
      BY DEF IInv, Kept, LoopInv, TypeOK
    <3> QED
      BY <2>2, <3>1, <1>1, <1>a DEF LoopAt, Settled, Answered, Waiting
  <2> QED
    BY <2>1, <2>2
<1>3. ItemInv'
  BY <1>1, <1>a DEF IInv, Kept, ItemInv, CardAndAnswerKept
<1>4. CardAndAnswerKept'
  BY <1>a DEF IInv, Kept, CardAndAnswerKept
<1> QED
  BY <1>2, <1>3, <1>4 DEF Kept

(* A step of the loop that changes nothing but its own record, to one that *)
(* fits the list, keeps the invariant.                                     *)
LEMMA LoopMoves ==
  ASSUME IInv, NEW p \in Press, NEW l, loop' = [loop EXCEPT ![p] = l], LoopAt(l),
         l.pc \in AtItem => l.item \in Item,
         items' = items, answering' = answering, chat' = chat
  PROVE  Kept'
<1>1. /\ \A i \in Item : Settled(i)' = Settled(i) /\ HasBegun(i)' = HasBegun(i)
      /\ Answered(items)' = Answered(items)
  BY DEF Settled, HasBegun, Answered, Waiting
<1>2. LoopInv'
  <2> SUFFICES ASSUME NEW q \in Press PROVE LoopAt(loop[q])'
    BY DEF LoopInv
  <2>1. /\ LoopAt(loop'[q]) /\ (loop'[q].pc \in AtItem => loop'[q].item \in Item)
    BY DEF IInv, Kept, LoopInv, TypeOK
  <2> QED
    BY <2>1, <1>1 DEF LoopAt, Settled, Answered, Waiting
<1>3. ItemInv' /\ CardAndAnswerKept'
  BY <1>1 DEF IInv, Kept, ItemInv, CardAndAnswerKept
<1> QED
  BY <1>2, <1>3 DEF Kept

(* What a task needs stays done, or out of the list, when its needs do not *)
(* grow and no task that is done or out of the list changes its status.    *)
LEMMA SettledStays ==
  ASSUME TypeOK, NEW i \in Item, Settled(i), items'[i].needs \subseteq items[i].needs,
         \A d \in Item : items[d].st \in {"done", "gone"} => items'[d].st \in {"done", "gone"}
  PROVE  Settled(i)'
<1>1. items[i].needs \subseteq Item
  BY DEF TypeOK, ItemRecord
<1> QED
  BY <1>1 DEF Settled

(* The loop reads the list, begins or ends, or collects what became of its *)
(* task: only its own record changes.                                      *)
LEMMA LoopReadsKeeps ==
  ASSUME IInv, NEW p \in Press,
         \/ PressRun(p) \/ StartLoop(p) \/ LoopSeesTheEnd(p) \/ LoopEnds(p)
         \/ LoopFindsOneToSkip(p) \/ LoopFindsOneToRun(p)
         \/ StoppedBeforeItBegan(p) \/ CannotBegin(p) \/ PollSeesClosing(p) \/ Collects(p)
  PROVE  Kept'
<1>a. /\ items' = items /\ answering' = answering /\ chat' = chat
      /\ items \in [Item -> ItemRecord] /\ loop \in [Press -> LoopRecord]
      /\ LoopAt(loop[p]) /\ LoopShape(loop[p]) /\ loop[p] \in LoopRecord
  BY DEF IInv, Kept, LoopInv, TypeOK, LoopShape, PressRun, StartLoop, LoopSeesTheEnd, LoopEnds,
         LoopFindsOneToSkip, LoopFindsOneToRun, StoppedBeforeItBegan, CannotBegin,
         PollSeesClosing, Collects, LoopOnly
<1>1. CASE PressRun(p) \/ StartLoop(p)
  <2>1. PICK pc \in {"asked", "read"} :
          loop' = [loop EXCEPT ![p] = [loop[p] EXCEPT !.pc = pc]]
    BY <1>1 DEF PressRun, StartLoop
  <2>2. LoopAt([loop[p] EXCEPT !.pc = pc]) /\ [loop[p] EXCEPT !.pc = pc].pc \notin AtItem
    BY <1>a DEF LoopAt, AtItem, LoopRecord
  <2> QED
    BY <1>a, <2>1, <2>2, LoopMoves
<1>2. CASE LoopSeesTheEnd(p) \/ LoopEnds(p)
  <2>1. PICK pc \in {"off", "ending"} : loop' = [loop EXCEPT ![p] = [Idle EXCEPT !.pc = pc]]
    BY <1>2 DEF LoopSeesTheEnd, LoopEnds, Idle
  <2>2. LoopAt([Idle EXCEPT !.pc = pc]) /\ [Idle EXCEPT !.pc = pc].pc \notin AtItem
    BY DEF LoopAt, AtItem, Idle
  <2> QED
    BY <1>a, <2>1, <2>2, LoopMoves
<1>3. CASE LoopFindsOneToSkip(p)
  <2> DEFINE j == nextStep(items).item
             l == [Idle EXCEPT !.pc = "skip", !.item = j]
  <2>1. j \in Item /\ items[j].st = "waiting"
    BY <1>3, <1>a, NextStepIsWaiting DEF LoopFindsOneToSkip
  <2>2. j \notin answering
    BY <2>1 DEF IInv, Kept, ItemInv
  <2>3. LoopAt(l) /\ l.pc \notin AtItem
    BY <2>1, <2>2 DEF LoopAt, AtItem, Idle
  <2>4. loop' = [loop EXCEPT ![p] = l]
    BY <1>3 DEF LoopFindsOneToSkip
  <2> HIDE DEF l
  <2> QED
    BY <1>a, <2>3, <2>4, LoopMoves
<1>4. CASE LoopFindsOneToRun(p)
  <2> DEFINE j == nextStep(items).item
             l == [pc |-> "take", item |-> j, chat |-> items[j].chat,
                   resume |-> items[j].resume, end |-> "none"]
  <2>1. j \in Item /\ items[j].st = "waiting" /\ (items[j].resume \/ Ready(items, j))
    BY <1>4, <1>a, NextStepIsWaiting DEF LoopFindsOneToRun
  <2>2. j \notin answering /\ (items[j].chat # NoChat => items[j].chat[1] = j)
    BY <2>1 DEF IInv, Kept, ItemInv
  <2>3. Settled(j)
    <3>1. CASE items[j].resume
      BY <2>1, <3>1 DEF IInv, Kept, ItemInv, HasBegun
    <3>2. CASE Ready(items, j)
      BY <3>2 DEF Ready, Settled
    <3> QED
      BY <2>1, <3>1, <3>2
  <2>4. LoopAt(l) /\ l.item \in Item
    BY <2>1, <2>2, <2>3 DEF LoopAt, AtItem
  <2>5. loop' = [loop EXCEPT ![p] = l]
    BY <1>4 DEF LoopFindsOneToRun
  <2> HIDE DEF l
  <2> QED
    BY <1>a, <2>4, <2>5, LoopMoves
<1>5. ASSUME NEW how, Ends(p, how, loop[p].chat), loop[p].pc \in AtItem \ {"take"},
             how = "parked" => loop[p].chat # NoChat /\ chat[loop[p].chat].parked
      PROVE  Kept'
  <2> DEFINE l == [loop[p] EXCEPT !.pc = "write", !.end = how, !.chat = loop[p].chat]
  <2>1. loop' = [loop EXCEPT ![p] = l]
    BY <1>5, <1>a DEF Ends
  <2>2. /\ l.pc = "write" /\ l.item = loop[p].item /\ l.end = how /\ l.chat = loop[p].chat
    BY <1>a DEF LoopRecord
  <2> HIDE DEF l
  <2>3. LoopAt(l) /\ l.item \in Item
    BY <1>5, <1>a, <2>2 DEF LoopAt, AtItem, LoopShape
  <2> QED
    BY <1>a, <2>1, <2>3, LoopMoves
<1>6. CASE StoppedBeforeItBegan(p) \/ CannotBegin(p) \/ PollSeesClosing(p)
  BY <1>5, <1>6 DEF StoppedBeforeItBegan, CannotBegin, PollSeesClosing, AtItem
<1>7. CASE Collects(p)
  <2> DEFINE c == chat[loop[p].chat]
             how == IF c.parked /\ ~c.answer THEN "parked" ELSE statusOfTask(c.st)
  <2>1. Ends(p, how, loop[p].chat) /\ loop[p].pc = "work"
    BY <1>7 DEF Collects
  <2>2. how = "parked" => c.parked
    BY DEF statusOfTask
  <2>3. loop[p].chat # NoChat
    BY <2>1, <1>a, QueueConstants DEF LoopShape
  <2> HIDE DEF how
  <2> QED
    BY <2>1, <2>2, <2>3, <1>5 DEF AtItem
<1> QED
  BY <1>1, <1>2, <1>3, <1>4, <1>6, <1>7

(* Of two loops at a task, there is one: presses come one at a time. *)
LEMMA OneLoop ==
  ASSUME OperatorWaits, NEW p \in Press, NEW q \in Press
  PROVE  p = q
  BY DEF OperatorWaits

(* The loop makes a chat, carries one on or starts its run: the records of *)
(* tasks set aside or answered are of other chats.                         *)
LEMMA LoopRunsKeeps ==
  ASSUME OperatorWaits, IInv, NEW p \in Press,
         MakesChat(p) \/ CarriesOn(p) \/ StartsRun(p)
  PROVE  Kept'
<1>a. /\ items' = items /\ answering' = answering
      /\ items \in [Item -> ItemRecord] /\ loop \in [Press -> LoopRecord]
      /\ chat \in [Chat -> ChatRecord] /\ \A c \in Chat : chat[c] \in ChatRecord
      /\ LoopAt(loop[p]) /\ LoopShape(loop[p]) /\ loop[p] \in LoopRecord
  BY DEF IInv, Kept, LoopInv, TypeOK, LoopShape, MakesChat, CarriesOn, StartsRun
<1>b. loop[p].pc \in {"begin", "ready"} /\ loop[p].item \in Item
  BY <1>a DEF MakesChat, CarriesOn, StartsRun, LoopShape, AtItem
<1>c. \E c \in Chat : \E l :
        /\ loop' = [loop EXCEPT ![p] = l]
        /\ c[1] = loop[p].item /\ l.item = loop[p].item /\ l.chat = c
        /\ l.pc \in AtItem \ {"take"}
        /\ l.pc = "write" => l.end # "parked"
        /\ \A d \in Chat : d # c => chat'[d] = chat[d]
  <2>1. CASE MakesChat(p)
    <3> DEFINE c == <<loop[p].item, p>>
               l == [loop[p] EXCEPT !.pc = "made", !.chat = c]
    <3>1. loop' = [loop EXCEPT ![p] = l] /\ chat' = [chat EXCEPT ![c] = NewChat]
      BY <2>1, <1>a DEF MakesChat
    <3>2. c \in Chat /\ c[1] = loop[p].item
      BY <1>b DEF Chat
    <3>3. l.item = loop[p].item /\ l.chat = c /\ l.pc = "made"
      BY <1>a DEF LoopRecord
    <3> HIDE DEF l, c
    <3> QED
      BY <3>1, <3>2, <3>3, <1>a DEF AtItem
  <2>2. CASE CarriesOn(p)
    <3> DEFINE c == loop[p].chat
    <3>1. c \in Chat /\ c[1] = loop[p].item
      BY <2>2, <1>a DEF CarriesOn, LoopAt, LoopRecord
    <3>2. PICK l : /\ loop' = [loop EXCEPT ![p] = l] /\ \A d \in Chat : d # c => chat'[d] = chat[d]
                   /\ \/ l = [loop[p] EXCEPT !.pc = "ready"]
                      \/ l = [loop[p] EXCEPT !.pc = "write", !.end = "failed", !.chat = c]
      BY <2>2, <1>a DEF CarriesOn, Ends
    <3>3. l.item = loop[p].item /\ l.chat = c /\ l.pc \in {"ready", "write"} /\ (l.pc = "write" => l.end = "failed")
      BY <3>2, <1>a DEF LoopRecord
    <3> QED
      BY <3>1, <3>2, <3>3 DEF AtItem
  <2>3. CASE StartsRun(p)
    <3> DEFINE c == loop[p].chat
               l == [loop[p] EXCEPT !.pc = "work"]
    <3>1. c \in Chat
      BY <2>3, <1>a DEF StartsRun, LoopShape
    <3>2. c[1] = loop[p].item
      BY <3>1, <1>a, QueueConstants DEF LoopAt
    <3>3. loop' = [loop EXCEPT ![p] = l] /\ chat' = [chat EXCEPT ![c].st = "running"]
      BY <2>3 DEF StartsRun
    <3>4. l.item = loop[p].item /\ l.chat = c /\ l.pc = "work"
      BY <1>a DEF LoopRecord
    <3> HIDE DEF l
    <3> QED
      BY <3>1, <3>2, <3>3, <3>4, <1>a DEF AtItem
  <2> QED
    BY <2>1, <2>2, <2>3
<1>d. PICK c \in Chat : \E l :
        /\ loop' = [loop EXCEPT ![p] = l]
        /\ c[1] = loop[p].item /\ l.item = loop[p].item /\ l.chat = c
        /\ l.pc \in AtItem \ {"take"}
        /\ l.pc = "write" => l.end # "parked"
        /\ \A d \in Chat : d # c => chat'[d] = chat[d]
  BY <1>c
<1>1. PICK l :
        /\ loop' = [loop EXCEPT ![p] = l]
        /\ c[1] = loop[p].item /\ l.item = loop[p].item /\ l.chat = c
        /\ l.pc \in AtItem \ {"take"}
        /\ l.pc = "write" => l.end # "parked"
        /\ \A d \in Chat : d # c => chat'[d] = chat[d]
  BY <1>d
<1>2. /\ \A i \in Item : Settled(i)' = Settled(i) /\ HasBegun(i)' = HasBegun(i)
      /\ Answered(items)' = Answered(items)
  BY <1>a DEF Settled, HasBegun, Answered, Waiting
<1>3. LoopInv'
  <2> SUFFICES LoopAt(loop[p])'
    BY OneLoop DEF LoopInv
  <2>1. loop'[p] = l
    BY <1>1, <1>a
  <2>2. /\ items[l.item].st \notin {"done", "parked", "absent"} /\ l.item \notin answering
        /\ Settled(l.item) /\ l.item \notin Answered(items)
    BY <1>1, <1>a, <1>b DEF LoopAt, AtItem
  <2> QED
    BY <2>1, <2>2, <1>1, <1>2, <1>a, <1>b DEF LoopAt
<1>4. ASSUME NEW i \in Item, items[i].st = "parked" \/ i \in Answered(items), items[i].chat # NoChat
      PROVE  chat'[items[i].chat] = chat[items[i].chat]
  <2>1. i # loop[p].item
    BY <1>4, <1>a, <1>b DEF LoopAt, AtItem
  <2>2. items[i].chat \in Chat /\ items[i].chat[1] = i
    BY <1>4, <1>a DEF IInv, Kept, ItemInv, ItemRecord
  <2> QED
    BY <1>1, <2>1, <2>2
<1>5. ItemInv'
  BY <1>a, <1>2, <1>4 DEF IInv, Kept, ItemInv, CardAndAnswerKept
<1>6. CardAndAnswerKept'
  BY <1>a, <1>4 DEF IInv, Kept, CardAndAnswerKept, Answered, Waiting
<1> QED
  BY <1>3, <1>5, <1>6 DEF Kept

(* The loop writes to the list about its task, which nobody made done or    *)
(* set aside, nor answered, since the loop took it.                        *)
LEMMA LoopWritesKeeps ==
  ASSUME OperatorWaits, IInv, NEW p \in Press,
         LoopSkips(p) \/ LoopTakes(p) \/ LoopWrites(p) \/ NamesChat(p)
  PROVE  Kept'
<1>0. loop[p].item \in Item
  BY DEF IInv, TypeOK, LoopSkips, LoopTakes, LoopWrites, NamesChat, AtItem
<1> SUFFICES ASSUME NEW i \in Item, i = loop[p].item
             PROVE  Kept'
  BY <1>0
<1>a. /\ answering' = answering /\ chat' = chat
      /\ items \in [Item -> ItemRecord] /\ loop \in [Press -> LoopRecord]
      /\ \A j \in Item : items[j] \in ItemRecord
      /\ LoopAt(loop[p]) /\ LoopShape(loop[p]) /\ loop[p] \in LoopRecord
  BY DEF IInv, Kept, LoopInv, TypeOK, LoopShape, LoopSkips, LoopTakes, LoopWrites, NamesChat
<1>b. /\ loop[p].pc \in AtItem \cup {"skip"} /\ i \in Item /\ items[i] \in ItemRecord
      /\ items[i].st \notin {"done", "parked", "absent"} /\ i \notin answering
  BY <1>a DEF LoopSkips, LoopTakes, LoopWrites, NamesChat, LoopShape, LoopAt, AtItem
<1>c. items[i].chat # NoChat => items[i].chat[1] = i
  BY <1>b DEF IInv, Kept, ItemInv
<1>e. \E r \in ItemRecord : \E l :
        /\ items' = setQueueItem(items, i, r) /\ r.needs = items[i].needs
        /\ loop' = [loop EXCEPT ![p] = l]
        /\ r.st \in {"running", "done", "parked"} => Settled(i)
        /\ \/ r.st \in {"skipped", "running", "done", "failed", "stopped", "parked"}
           \/ r.st = items[i].st /\ r.resume = items[i].resume /\ i \notin Answered(items)
        /\ r.chat # NoChat => r.chat[1] = i
        /\ r.st = "parked" => r.chat # NoChat /\ chat[r.chat].parked
        /\ \/ l.pc \notin AtItem \cup {"skip"} /\ l.chat = NoChat
           \/ /\ l.pc \in {"begin", "ready"} /\ l.item = i /\ l.chat = loop[p].chat
              /\ Settled(i) /\ (r.st = "running" \/ r.st = items[i].st)
              /\ l.pc = "begin" => r.st = "running"
  <2>1. CASE LoopSkips(p)
    <3> DEFINE r == [items[i] EXCEPT !.st = "skipped"]
               l == [Idle EXCEPT !.pc = "read"]
    <3>1. items' = setQueueItem(items, i, r) /\ loop' = [loop EXCEPT ![p] = l]
      BY <2>1 DEF LoopSkips
    <3>2. /\ r \in ItemRecord /\ r.needs = items[i].needs /\ r.st = "skipped" /\ r.chat = items[i].chat
      BY <1>a, <1>b DEF ItemRecord, Status
    <3>3. l.pc = "read" /\ l.chat = NoChat
      BY DEF Idle
    <3> HIDE DEF r, l
    <3> QED
      BY <3>1, <3>2, <3>3, <1>c DEF AtItem
  <2>2. CASE LoopTakes(p)
    <3> DEFINE r == [items[i] EXCEPT !.st = "running", !.resume = FALSE,
                                     !.chat = IF loop[p].resume THEN @ ELSE NoChat]
               l == [loop[p] EXCEPT !.pc = "begin"]
    <3>1. items' = setQueueItem(items, i, r) /\ loop' = [loop EXCEPT ![p] = l]
      BY <2>2 DEF LoopTakes
    <3>2. /\ r \in ItemRecord /\ r.needs = items[i].needs /\ r.st = "running"
          /\ r.chat \in {items[i].chat, NoChat}
      BY <1>b DEF ItemRecord, Status
    <3>3. l.pc = "begin" /\ l.item = i /\ l.chat = loop[p].chat
      BY <1>a DEF LoopRecord
    <3>4. Settled(i)
      BY <2>2, <1>a DEF LoopTakes, LoopAt, AtItem
    <3> HIDE DEF r, l
    <3> QED
      BY <3>1, <3>2, <3>3, <3>4, <1>c
  <2>3. CASE LoopWrites(p)
    <3> DEFINE r == [items[i] EXCEPT !.st = loop[p].end,
                                     !.chat = IF loop[p].chat = NoChat THEN @ ELSE loop[p].chat]
               l == [Idle EXCEPT !.pc = IF loop[p].end = "stopped" THEN "ending" ELSE "read"]
    <3>1. items' = setQueueItem(items, i, r) /\ loop' = [loop EXCEPT ![p] = l]
      BY <2>3 DEF LoopWrites
    <3>2. /\ loop[p].end \in {"done", "failed", "stopped", "parked"}
          /\ loop[p].chat \in Chat \cup {NoChat}
      BY <2>3, <1>a DEF LoopWrites, LoopShape, LoopRecord
    <3>3. /\ r \in ItemRecord /\ r.needs = items[i].needs /\ r.st = loop[p].end
          /\ r.chat = IF loop[p].chat = NoChat THEN items[i].chat ELSE loop[p].chat
      BY <3>2, <1>b DEF ItemRecord, Status
    <3>4. l.pc \in {"read", "ending"} /\ l.chat = NoChat
      BY DEF Idle
    <3> HIDE DEF r, l
    <3>5. r.chat # NoChat => r.chat[1] = i
      BY <3>3, <1>a, <1>c DEF LoopAt
    <3>6. Settled(i) /\ (loop[p].end = "parked" => r.chat # NoChat /\ chat[r.chat].parked)
      BY <2>3, <3>3, <1>a DEF LoopWrites, LoopAt, AtItem
    <3> QED
      BY <3>1, <3>2, <3>3, <3>4, <3>5, <3>6 DEF AtItem
  <2>4. CASE NamesChat(p)
    <3> DEFINE r == [items[i] EXCEPT !.chat = loop[p].chat]
               l == [loop[p] EXCEPT !.pc = "ready"]
    <3>1. items' = setQueueItem(items, i, r) /\ loop' = [loop EXCEPT ![p] = l]
      BY <2>4 DEF NamesChat
    <3>2. loop[p].chat \in Chat \cup {NoChat}
      BY <1>a DEF LoopRecord
    <3>3. /\ r \in ItemRecord /\ r.needs = items[i].needs /\ r.st = items[i].st
          /\ r.resume = items[i].resume /\ r.chat = loop[p].chat
      BY <3>2, <1>a, <1>b DEF ItemRecord
    <3>4. l.pc = "ready" /\ l.item = i /\ l.chat = loop[p].chat
      BY <1>a DEF LoopRecord
    <3> HIDE DEF r, l
    <3>5. Settled(i) /\ i \notin Answered(items)
      BY <2>4, <1>a DEF NamesChat, LoopAt, AtItem
    <3>6. r.chat # NoChat => r.chat[1] = i
      BY <3>3, <1>a DEF LoopAt
    <3> QED
      BY <3>1, <3>3, <3>4, <3>5, <3>6, <1>b
  <2> QED
    BY <2>1, <2>2, <2>3, <2>4
<1>f. PICK r \in ItemRecord : \E l :
        /\ items' = setQueueItem(items, i, r) /\ r.needs = items[i].needs
        /\ loop' = [loop EXCEPT ![p] = l]
        /\ r.st \in {"running", "done", "parked"} => Settled(i)
        /\ \/ r.st \in {"skipped", "running", "done", "failed", "stopped", "parked"}
           \/ r.st = items[i].st /\ r.resume = items[i].resume /\ i \notin Answered(items)
        /\ r.chat # NoChat => r.chat[1] = i
        /\ r.st = "parked" => r.chat # NoChat /\ chat[r.chat].parked
        /\ \/ l.pc \notin AtItem \cup {"skip"} /\ l.chat = NoChat
           \/ /\ l.pc \in {"begin", "ready"} /\ l.item = i /\ l.chat = loop[p].chat
              /\ Settled(i) /\ (r.st = "running" \/ r.st = items[i].st)
              /\ l.pc = "begin" => r.st = "running"
  BY <1>e
<1>1. PICK l :
        /\ items' = setQueueItem(items, i, r) /\ r.needs = items[i].needs
        /\ loop' = [loop EXCEPT ![p] = l]
        /\ r.st \in {"running", "done", "parked"} => Settled(i)
        /\ \/ r.st \in {"skipped", "running", "done", "failed", "stopped", "parked"}
           \/ r.st = items[i].st /\ r.resume = items[i].resume /\ i \notin Answered(items)
        /\ r.chat # NoChat => r.chat[1] = i
        /\ r.st = "parked" => r.chat # NoChat /\ chat[r.chat].parked
        /\ \/ l.pc \notin AtItem \cup {"skip"} /\ l.chat = NoChat
           \/ /\ l.pc \in {"begin", "ready"} /\ l.item = i /\ l.chat = loop[p].chat
              /\ Settled(i) /\ (r.st = "running" \/ r.st = items[i].st)
              /\ l.pc = "begin" => r.st = "running"
  BY <1>f
<1>2. /\ \A j \in Item : j # i => items'[j] = items[j]
      /\ items'[i] = IF items[i].st \in NotListed THEN items[i] ELSE r
  BY <1>1, <1>a, <1>b, PatchTypes
<1>d. ~(items'[i].st = "waiting" /\ items'[i].resume)
  <2>1. CASE items[i].st \in NotListed
    BY <2>1, <1>2 DEF NotListed
  <2>2. CASE items[i].st \notin NotListed
    <3>1. items'[i] = r
      BY <2>2, <1>2
    <3>2. CASE r.st \in {"skipped", "running", "done", "failed", "stopped", "parked"}
      BY <3>1, <3>2
    <3>3. CASE r.st = items[i].st /\ r.resume = items[i].resume /\ i \notin Answered(items)
      BY <3>1, <3>3, <1>b DEF Answered, Waiting
    <3> QED
      BY <1>1, <3>2, <3>3
  <2> QED
    BY <2>1, <2>2
<1>3. \A j \in Item : Settled(j) => Settled(j)'
  <2>1. \A j \in Item : items'[j].needs = items[j].needs
    BY <1>1, <1>2
  <2>2. \A d \in Item : items[d].st \in {"done", "gone"} => items'[d].st \in {"done", "gone"}
    BY <1>2, <1>b DEF NotListed
  <2> QED
    BY <2>1, <2>2, SettledStays DEF IInv
<1>4. LoopInv'
  <2> SUFFICES LoopAt(loop[p])'
    BY OneLoop DEF LoopInv
  <2>1. loop'[p] = l
    BY <1>1, <1>a
  <2>2. CASE l.pc \notin AtItem \cup {"skip"} /\ l.chat = NoChat
    BY <2>1, <2>2 DEF LoopAt, AtItem
  <2>3. CASE /\ l.pc \in {"begin", "ready"} /\ l.item = i /\ l.chat = loop[p].chat
             /\ Settled(i) /\ (r.st = "running" \/ r.st = items[i].st)
             /\ l.pc = "begin" => r.st = "running"
    <3>1. items'[i].st \notin {"done", "parked", "absent"}
      BY <2>3, <1>2, <1>b
    <3>2. i \notin Answered(items)'
      BY <1>d DEF Answered, Waiting
    <3>3. Settled(i)'
      BY <2>3, <1>b, <1>3
    <3> QED
      BY <2>1, <2>3, <3>1, <3>2, <3>3, <1>a, <1>b DEF LoopAt, AtItem
  <2> QED
    BY <2>2, <2>3, <1>1
<1>5. ItemInv'
  <2> SUFFICES ASSUME NEW j \in Item
               PROVE  /\ HasBegun(j)' => Settled(j)'
                      /\ items'[j].chat # NoChat => items'[j].chat[1] = j
                      /\ j \in answering' =>
                           /\ items'[j].st \in {"parked", "gone"}
                           /\ items'[j].st = "parked" => chat'[items'[j].chat].answer
    BY DEF ItemInv
  <2>0. /\ HasBegun(j) => Settled(j)
        /\ items[j].chat # NoChat => items[j].chat[1] = j
        /\ j \in answering => /\ items[j].st \in {"parked", "gone"}
                              /\ items[j].st = "parked" => chat[items[j].chat].answer
    BY DEF IInv, Kept, ItemInv
  <2>1. CASE j # i \/ items[i].st \in NotListed
    <3>1. items'[j] = items[j]
      BY <2>1, <1>2
    <3>2. HasBegun(j)' = HasBegun(j)
      BY <3>1 DEF HasBegun
    <3> QED
      BY <2>0, <3>1, <3>2, <1>3, <1>a
  <2>2. CASE j = i /\ items[i].st \notin NotListed
    <3>1. items'[i] = r
      BY <2>2, <1>2
    <3>2. HasBegun(i)' => Settled(i)
      BY <3>1, <1>1, <1>d DEF HasBegun
    <3>3. Settled(i) => Settled(i)'
      BY <1>3, <1>b
    <3>4. i \notin answering' /\ (r.chat # NoChat => r.chat[1] = i)
      BY <1>1, <1>a, <1>b
    <3> QED
      BY <2>2, <3>1, <3>2, <3>3, <3>4
  <2> QED
    BY <2>1, <2>2
<1>6. CardAndAnswerKept'
  BY <1>1, <1>2, <1>a, <1>b DEF IInv, Kept, CardAndAnswerKept, Answered, Waiting, NotListed
<1> QED
  BY <1>4, <1>5, <1>6 DEF Kept

(* A step that touches neither the loops nor the chats, and of each task    *)
(* keeps, drops or puts back what it found, keeps the invariant.            *)
LEMMA ListKeeps ==
  ASSUME IInv, loop' = loop, chat' = chat, answering' \subseteq answering,
         \A i \in Item :
           \/ /\ items'[i].st = items[i].st /\ items'[i].resume = items[i].resume
              /\ items'[i].chat = items[i].chat /\ items'[i].needs \subseteq items[i].needs
           \/ /\ items'[i].st = items[i].st /\ items[i].st \in {"absent", "gone"}
              /\ items'[i].chat = NoChat /\ items'[i].needs = {}
           \/ /\ items'[i].st \in {"gone", "stopped"} /\ items[i].st \notin {"absent", "gone"}
              /\ items[i].st = "done" => items'[i].st = "gone"
              /\ items'[i].chat \in {items[i].chat, NoChat}
              /\ items'[i].needs \subseteq items[i].needs
              /\ i \in answering' => items'[i].st = "gone"
           \/ /\ items'[i].st = "waiting" /\ ~items'[i].resume
              /\ items'[i].chat = NoChat /\ i \notin answering
              /\ \/ items[i].st = "absent"
                 \/ /\ items[i].st \in {"failed", "skipped", "stopped"}
                    /\ items'[i].needs \subseteq items[i].needs
  PROVE  Kept'
<1>1. \A d \in Item : items[d].st \in {"done", "gone"} => items'[d].st \in {"done", "gone"}
  OBVIOUS
<1>2. ASSUME NEW i \in Item, Settled(i), items[i].st # "absent"
      PROVE  Settled(i)'
  <2>1. items'[i].needs \subseteq items[i].needs
    BY <1>2
  <2> QED
    BY <1>1, <1>2, <2>1, SettledStays DEF IInv
<1>3. LoopInv'
  <2> SUFFICES ASSUME NEW p \in Press PROVE LoopAt(loop[p])'
    BY DEF LoopInv
  <2>1. LoopAt(loop[p]) /\ (loop[p].pc \in AtItem \cup {"skip"} => loop[p].item \in Item)
    BY DEF IInv, Kept, LoopInv, TypeOK
  <2>2. CASE loop[p].pc \in AtItem \cup {"skip"}
    <3>0. loop[p].item \in Item
      BY <2>1, <2>2
    <3> SUFFICES ASSUME NEW i \in Item, i = loop[p].item
                 PROVE  LoopAt(loop[p])'
      BY <3>0
    <3>1. items[i].st \notin {"done", "parked", "absent"} /\ i \notin answering
      BY <2>1, <2>2 DEF LoopAt
    <3>2. items'[i].st \notin {"done", "parked", "absent"} /\ i \notin answering'
      BY <3>1
    <3>3. loop[p].pc \in AtItem => Settled(i)'
      BY <2>1, <3>1, <1>2 DEF LoopAt
    <3>4. i \notin Answered(items) => i \notin Answered(items)'
      BY <3>1 DEF Answered, Waiting
    <3> QED
      BY <2>1, <3>2, <3>3, <3>4 DEF LoopAt
  <2>3. CASE loop[p].pc \notin AtItem \cup {"skip"}
    BY <2>1, <2>3 DEF LoopAt, AtItem
  <2> QED
    BY <2>2, <2>3
<1>4. ItemInv'
  <2> SUFFICES ASSUME NEW i \in Item
               PROVE  /\ HasBegun(i)' => Settled(i)'
                      /\ items'[i].chat # NoChat => items'[i].chat[1] = i
                      /\ i \in answering' =>
                           /\ items'[i].st \in {"parked", "gone"}
                           /\ items'[i].st = "parked" => chat'[items'[i].chat].answer
    BY DEF ItemInv
  <2>0. /\ HasBegun(i) => Settled(i)
        /\ items[i].chat # NoChat => items[i].chat[1] = i
        /\ i \in answering => /\ items[i].st \in {"parked", "gone"}
                              /\ items[i].st = "parked" => chat[items[i].chat].answer
    BY DEF IInv, Kept, ItemInv
  <2>1. HasBegun(i)' => HasBegun(i) /\ items[i].st # "absent"
    BY DEF HasBegun
  <2>2. i \in answering' => i \in answering
    OBVIOUS
  <2> QED
    BY <2>0, <2>1, <2>2, <1>2
<1>5. CardAndAnswerKept'
  BY DEF IInv, Kept, CardAndAnswerKept
<1> QED
  BY <1>3, <1>4, <1>5 DEF Kept

(* The page's edits keep it: none changes what a task at work needs, none   *)
(* brings back a task taken out, and "Run again" begins a task anew.        *)
LEMMA PageKeeps ==
  ASSUME OperatorWaits, IInv, PageSteps
  PROVE  Kept'
<1>1. PICK i \in Item, n \in SUBSET Item : AddTask(i, n) \/ TakeOut(i) \/ RunAgain(i) \/ ChangeNeeds(i, n)
  BY DEF PageSteps
<1>2. ~ChangeNeeds(i, n)
  BY DEF ChangeNeeds, OperatorWaits
<1>a. /\ items \in [Item -> ItemRecord] /\ \A j \in Item : items[j] \in ItemRecord
      /\ \A j \in Item : j \in answering => items[j].st \in {"parked", "gone"}
  BY DEF IInv, TypeOK, Kept, ItemInv
<1>3. PICK e : /\ Save(e)
               /\ \A j \in Item : \/ j \in Listed(items) /\ e.needs[j] \subseteq items[j].needs
                                  \/ items[j].st = "absent"
                                  \/ j \notin e.list
               /\ \A j \in Item : items[j].st = "gone" => j \notin e.list
               /\ \A j \in e.again : j \in Item => items[j].st \in {"failed", "skipped", "stopped"}
  <2> DEFINE e0 == [list |-> Listed(items), needs |-> [j \in Item |-> items[j].needs], again |-> {}]
  <2>1. CASE AddTask(i, n)
    <3> DEFINE e == [e0 EXCEPT !.list = @ \cup {i}, !.needs[i] = n]
    <3>1. Save(e) /\ items[i].st = "absent"
      BY <2>1 DEF AddTask, AsEdit
    <3>2. /\ e.list = Listed(items) \cup {i} /\ e.again = {}
          /\ \A j \in Item : j # i => e.needs[j] = items[j].needs
      OBVIOUS
    <3> HIDE DEF e
    <3> QED
      BY <3>1, <3>2 DEF Listed, NotListed
  <2>2. CASE TakeOut(i)
    <3> DEFINE e == [e0 EXCEPT !.list = @ \ {i}, !.needs = [j \in Item |-> @[j] \ {i}]]
    <3>1. Save(e)
      BY <2>2 DEF TakeOut, AsEdit
    <3>2. /\ e.list = Listed(items) \ {i} /\ e.again = {}
          /\ \A j \in Item : e.needs[j] = items[j].needs \ {i}
      OBVIOUS
    <3> HIDE DEF e
    <3> QED
      BY <3>1, <3>2 DEF Listed, NotListed
  <2>3. CASE RunAgain(i)
    <3> DEFINE e == [e0 EXCEPT !.again = {i}]
    <3>1. Save(e) /\ items[i].st \in {"failed", "skipped", "stopped"}
      BY <2>3 DEF RunAgain, AsEdit, OperatorWaits
    <3>2. /\ e.list = Listed(items) /\ e.again = {i}
          /\ \A j \in Item : e.needs[j] = items[j].needs
      OBVIOUS
    <3> HIDE DEF e
    <3> QED
      BY <3>1, <3>2 DEF Listed, NotListed
  <2> QED
    BY <1>1, <1>2, <2>1, <2>2, <2>3
<1>4. /\ items' = mergeItems(items, e) /\ loop' = loop /\ chat' = chat /\ answering' = answering
      /\ \A j \in Item : items[j].st = "running" => j \in e.list
  BY <1>3 DEF Save
<1>5. ASSUME NEW j \in Item
      PROVE  \/ /\ items'[j].st = items[j].st /\ items'[j].resume = items[j].resume
                /\ items'[j].chat = items[j].chat /\ items'[j].needs \subseteq items[j].needs
             \/ /\ items'[j].st = items[j].st /\ items[j].st \in {"absent", "gone"}
                /\ items'[j].chat = NoChat /\ items'[j].needs = {}
             \/ /\ items'[j].st \in {"gone", "stopped"} /\ items[j].st \notin {"absent", "gone"}
                /\ items[j].st = "done" => items'[j].st = "gone"
                /\ items'[j].chat \in {items[j].chat, NoChat}
                /\ items'[j].needs \subseteq items[j].needs
                /\ j \in answering' => items'[j].st = "gone"
             \/ /\ items'[j].st = "waiting" /\ ~items'[j].resume
                /\ items'[j].chat = NoChat /\ j \notin answering
                /\ \/ items[j].st = "absent"
                   \/ /\ items[j].st \in {"failed", "skipped", "stopped"}
                      /\ items'[j].needs \subseteq items[j].needs
  <2>1. CASE j \notin e.list /\ items[j].st \notin NotListed
    <3>1. items'[j] = Absent("gone")
      BY <2>1, <1>4 DEF mergeItems, NotListed
    <3>2. /\ items'[j].st = "gone" /\ items'[j].chat = NoChat /\ items'[j].needs = {}
      BY <3>1 DEF Absent
    <3> QED
      BY <2>1, <3>2 DEF NotListed
  <2>2. CASE j \notin e.list /\ items[j].st \in NotListed
    <3>1. items'[j] = Absent(items[j].st)
      BY <2>2, <1>4 DEF mergeItems, NotListed
    <3>2. /\ items'[j].st = items[j].st /\ items'[j].chat = NoChat /\ items'[j].needs = {}
      BY <3>1 DEF Absent
    <3> QED
      BY <2>2, <3>2 DEF NotListed
  <2>3. CASE j \in e.list /\ items[j].st = "running"
    <3>1. items'[j] = items[j]
      BY <2>3, <1>4 DEF mergeItems
    <3> QED
      BY <3>1
  <2>4. CASE j \in e.list /\ items[j].st # "running" /\ (items[j].st \in NotListed \/ (j \in e.again /\ items[j].st # "waiting"))
    <3>1. items'[j] = NewTask(e.needs[j])
      BY <2>4, <1>4 DEF mergeItems
    <3>2. \/ items[j].st = "absent"
          \/ items[j].st \in {"failed", "skipped", "stopped"} /\ e.needs[j] \subseteq items[j].needs
      <4>1. items[j].st # "gone" /\ (j \in e.again => items[j].st \in {"failed", "skipped", "stopped"})
        BY <2>4, <1>3
      <4>2. items[j].st \notin NotListed => e.needs[j] \subseteq items[j].needs
        BY <2>4, <1>3 DEF NotListed
      <4> QED
        BY <2>4, <4>1, <4>2 DEF NotListed
    <3>3. /\ items'[j].st = "waiting" /\ ~items'[j].resume
          /\ items'[j].chat = NoChat /\ items'[j].needs = e.needs[j]
      BY <3>1 DEF NewTask
    <3>4. j \notin answering
      BY <3>2, <1>a
    <3> QED
      BY <3>2, <3>3, <3>4
  <2>5. CASE j \in e.list /\ items[j].st # "running" /\ ~(items[j].st \in NotListed \/ (j \in e.again /\ items[j].st # "waiting"))
    <3>1. items'[j] = [items[j] EXCEPT !.needs = e.needs[j]]
      BY <2>5, <1>4 DEF mergeItems
    <3>2. e.needs[j] \subseteq items[j].needs
      BY <2>5, <1>3 DEF NotListed
    <3>3. /\ items'[j].st = items[j].st /\ items'[j].resume = items[j].resume
          /\ items'[j].chat = items[j].chat /\ items'[j].needs = e.needs[j]
      BY <3>1, <1>a DEF ItemRecord
    <3> QED
      BY <3>2, <3>3
  <2> QED
    BY <2>1, <2>2, <2>3, <2>4, <2>5
<1> QED
  BY <1>4, <1>5, ListKeeps

(* An answer at a parked task's card, its way into the list, and a recovery *)
(* keep it: no loop is at a task set aside.                                 *)
LEMMA AnswerKeeps ==
  ASSUME IInv, NEW i \in Item, AnswerSteps(i)
  PROVE  Kept'
<1>a. /\ items \in [Item -> ItemRecord] /\ \A j \in Item : items[j] \in ItemRecord
      /\ chat \in [Chat -> ChatRecord] /\ \A c \in Chat : chat[c] \in ChatRecord
      /\ loop' = loop
      /\ \A j \in Item : j \in answering =>
           /\ items[j].st \in {"parked", "gone"}
           /\ items[j].st = "parked" => chat[items[j].chat].answer
  BY DEF IInv, TypeOK, Kept, ItemInv, AnswerSteps, StopAtCard, AnswerRecords, AnswerQueues, AnswerOnly
<1>1. CASE StopAtCard(i)
  <2>1. /\ items[i].st = "parked" /\ i \notin answering
        /\ items' = [items EXCEPT ![i].st = "stopped"]
        /\ chat' = chat /\ answering' = answering
    BY <1>1, <1>a DEF StopAtCard, HasOpenCard
  <2>2. /\ items'[i].st = "stopped" /\ items'[i].chat = items[i].chat
        /\ items'[i].needs = items[i].needs
        /\ \A j \in Item : j # i => items'[j] = items[j]
    BY <2>1, <1>a DEF ItemRecord
  <2>3. \A j \in Item :
           \/ /\ items'[j].st = items[j].st /\ items'[j].resume = items[j].resume
              /\ items'[j].chat = items[j].chat /\ items'[j].needs \subseteq items[j].needs
           \/ /\ items'[j].st = "stopped" /\ items[j].st = "parked"
              /\ items'[j].chat = items[j].chat
              /\ items'[j].needs \subseteq items[j].needs /\ j \notin answering
    BY <2>1, <2>2
  <2> QED
    BY <2>1, <2>3, <1>a, ListKeeps
<1>2. CASE AnswerRecords(i)
  <2>1. /\ items' = items /\ answering' = answering \cup {i}
        /\ items[i].st = "parked" /\ items[i].chat \in Chat
        /\ chat' = [chat EXCEPT ![items[i].chat].answer = TRUE]
    BY <1>2, <1>a DEF AnswerRecords, AnswerOnly, HasOpenCard, ItemRecord
  <2>2. \A c \in Chat : /\ chat'[c].parked = chat[c].parked
                        /\ chat'[c].answer = (c = items[i].chat \/ chat[c].answer)
    BY <2>1, <1>a DEF ChatRecord
  <2>3. /\ \A j \in Item : Settled(j)' = Settled(j) /\ HasBegun(j)' = HasBegun(j)
        /\ Answered(items)' = Answered(items)
    BY <2>1 DEF Settled, HasBegun, Answered, Waiting
  <2>4. LoopInv'
    <3> SUFFICES ASSUME NEW p \in Press PROVE LoopAt(loop[p])'
      BY DEF LoopInv
    <3>1. /\ LoopAt(loop[p]) /\ loop'[p] = loop[p] /\ loop[p].chat \in Chat \cup {NoChat}
          /\ loop[p].pc \in AtItem => loop[p].item \in Item
      BY <1>a DEF IInv, Kept, LoopInv, TypeOK, LoopRecord
    <3>2. loop[p].pc \in AtItem \cup {"skip"} => loop[p].item \notin answering'
      BY <2>1, <3>1 DEF LoopAt
    <3> QED
      BY <2>1, <2>2, <2>3, <3>1, <3>2 DEF LoopAt, Settled, Answered, Waiting
  <2>5. ItemInv'
    <3> SUFFICES ASSUME NEW j \in Item, j \in answering'
                 PROVE  /\ items[j].st \in {"parked", "gone"}
                        /\ items[j].st = "parked" => chat'[items[j].chat].answer
      BY <2>1, <2>3 DEF IInv, Kept, ItemInv
    <3>1. items[j].st = "parked" => items[j].chat \in Chat
      BY <1>a DEF IInv, Kept, CardAndAnswerKept, ItemRecord
    <3> QED
      BY <2>1, <2>2, <3>1, <1>a
  <2>6. CardAndAnswerKept'
    <3>1. \A j \in Item : items[j].chat \in Chat \cup {NoChat}
      BY <1>a DEF ItemRecord
    <3> QED
      BY <2>1, <2>2, <3>1 DEF IInv, Kept, CardAndAnswerKept
  <2> QED
    BY <2>4, <2>5, <2>6 DEF Kept
<1>3. CASE AnswerQueues(i)
  <2> DEFINE r == [items[i] EXCEPT !.st = "waiting", !.resume = TRUE]
  <2>1. /\ i \in answering /\ answering' = answering \ {i} /\ chat' = chat
        /\ items' = setQueueItem(items, i, r)
    BY <1>3 DEF AnswerQueues
  <2>2. /\ r \in ItemRecord /\ r.needs = items[i].needs /\ r.chat = items[i].chat
        /\ r.st = "waiting" /\ r.resume
    <3>1. items[i] \in ItemRecord
      BY <1>a
    <3> QED
      BY <3>1 DEF ItemRecord, Status
  <2> HIDE DEF r
  <2>3. /\ \A j \in Item : j # i => items'[j] = items[j]
        /\ items'[i] = IF items[i].st \in NotListed THEN items[i] ELSE r
    BY <2>1, <2>2, <1>a, PatchTypes
  <2>4. /\ items[i].st \in {"parked", "gone"}
        /\ items[i].st = "parked" =>
             items'[i] = r /\ items[i].chat # NoChat /\ chat[items[i].chat].parked /\ chat[items[i].chat].answer
    BY <2>1, <2>3, <1>a DEF IInv, Kept, CardAndAnswerKept, NotListed
  <2>5. \A j \in Item : Settled(j) => Settled(j)'
    <3>1. \A j \in Item : items'[j].needs = items[j].needs
      BY <2>2, <2>3
    <3>2. \A d \in Item : items[d].st \in {"done", "gone"} => items'[d].st \in {"done", "gone"}
      BY <2>3, <2>4 DEF NotListed
    <3> QED
      BY <3>1, <3>2, SettledStays DEF IInv
  <2>6. LoopInv'
    <3> SUFFICES ASSUME NEW p \in Press PROVE LoopAt(loop[p])'
      BY DEF LoopInv
    <3>1. LoopAt(loop[p]) /\ (loop[p].pc \in AtItem \cup {"skip"} => loop[p].item \in Item)
      BY DEF IInv, Kept, LoopInv, TypeOK
    <3>2. CASE loop[p].pc \notin AtItem \cup {"skip"}
      BY <2>1, <3>1, <3>2, <1>a DEF LoopAt, AtItem
    <3>3. CASE loop[p].pc \in AtItem \cup {"skip"}
      <4> SUFFICES ASSUME NEW k \in Item, k = loop[p].item
                   PROVE  LoopAt(loop[p])'
        BY <3>1, <3>3
      <4>1. k # i /\ items'[k] = items[k]
        BY <2>1, <2>3, <3>1, <3>3 DEF LoopAt
      <4>2. k \notin Answered(items) => k \notin Answered(items)'
        BY <4>1 DEF Answered, Waiting
      <4>3. k \notin answering' /\ (Settled(k) => Settled(k)')
        BY <2>1, <2>5, <3>1, <3>3 DEF LoopAt
      <4> QED
        BY <2>1, <3>1, <4>1, <4>2, <4>3, <1>a DEF LoopAt
    <3> QED
      BY <3>2, <3>3
  <2>7. ItemInv'
    <3> SUFFICES ASSUME NEW j \in Item
                 PROVE  /\ HasBegun(j)' => Settled(j)'
                        /\ items'[j].chat # NoChat => items'[j].chat[1] = j
                        /\ j \in answering' =>
                             /\ items'[j].st \in {"parked", "gone"}
                             /\ items'[j].st = "parked" => chat'[items'[j].chat].answer
      BY DEF ItemInv
    <3>0. /\ HasBegun(j) => Settled(j)
          /\ items[j].chat # NoChat => items[j].chat[1] = j
      BY DEF IInv, Kept, ItemInv
    <3>1. HasBegun(j)' => HasBegun(j)
      <4>1. CASE items'[j] = items[j]
        BY <4>1 DEF HasBegun
      <4>2. CASE j = i /\ items[i].st = "parked"
        BY <4>2 DEF HasBegun
      <4> QED
        BY <2>3, <2>4, <4>1, <4>2 DEF NotListed
    <3>2. items'[j].chat = items[j].chat
      BY <2>2, <2>3
    <3>3. j \in answering' => j # i /\ j \in answering
      BY <2>1
    <3> QED
      BY <3>0, <3>1, <3>2, <3>3, <2>1, <2>3, <2>5, <1>a
  <2>8. CardAndAnswerKept'
    <3> SUFFICES ASSUME NEW j \in Item
                 PROVE  LET c == items'[j].chat IN
                          /\ items'[j].st = "parked" => c # NoChat /\ chat'[c].parked
                          /\ items'[j].st = "waiting" /\ items'[j].resume =>
                               c # NoChat /\ chat'[c].parked /\ chat'[c].answer
      BY DEF CardAndAnswerKept
    <3>1. CASE items'[j] = items[j]
      BY <2>1, <3>1 DEF IInv, Kept, CardAndAnswerKept
    <3>2. CASE j = i /\ items[i].st = "parked"
      BY <2>1, <2>2, <2>4, <3>2
    <3> QED
      BY <2>3, <2>4, <3>1, <3>2 DEF NotListed
  <2> QED
    BY <2>6, <2>7, <2>8 DEF Kept
<1> QED
  BY <1>1, <1>2, <1>3 DEF AnswerSteps

(* A chat's run, a stop and a card's timer change a record only by putting *)
(* a card on it that was not there, so they keep it; so does a bot that    *)
(* dies, and one started again.                                            *)
LEMMA RunKeeps ==
  ASSUME IInv,
         \/ StopQueue \/ OtherTakes \/ OtherReleases \/ Close \/ Crash
         \/ RecoverReads \/ RecoverWrites
         \/ \E p \in Press : PollStops(p)
         \/ \E c \in Chat : \/ RunAsks(c) \/ OperatorAnswers(c) \/ OperatorStopsChat(c)
                            \/ \E how \in Over : RunEnds(c, how)
                            \/ BrowserReleased(c) \/ ParkSteps(c)
  PROVE  Kept'
<1> DEFINE Keeps(d) == chat[d].parked => chat'[d].parked /\ (chat[d].answer => chat'[d].answer)
<1>a. /\ items \in [Item -> ItemRecord] /\ \A j \in Item : items[j] \in ItemRecord
      /\ chat \in [Chat -> ChatRecord] /\ \A c \in Chat : chat[c] \in ChatRecord
      /\ \A p \in Press : loop[p] \in {loop[p], Idle}
  BY DEF IInv, TypeOK
<1>1. ASSUME UNCHANGED <<items, loop, answering>>, \A d \in Chat : Keeps(d)
      PROVE  Kept'
  BY <1>1, RecordsKept
<1>2. ASSUME UNCHANGED <<items, loop, answering>>, NEW c, chat' = Stopped(chat, c)
      PROVE  Kept'
  <2>1. ASSUME NEW d \in Chat
        PROVE  Keeps(d)
    <3>1. \/ chat'[d] = chat[d]
          \/ chat'[d] = [chat[d] EXCEPT !.stopping = TRUE, !.card = FALSE]
      BY <1>2, <1>a DEF Stopped
    <3> QED
      BY <3>1, <1>a DEF ChatRecord
  <2> QED
    BY <1>1, <1>2, <2>1
<1>3. CASE StopQueue
  BY <1>1, <1>2, <1>3 DEF StopQueue
<1>4. CASE OtherTakes \/ OtherReleases \/ Close \/ RecoverReads
  BY <1>1, <1>4 DEF OtherTakes, OtherReleases, RunOnly, Close, RecoverReads, RecoverOnly
<1>5. CASE Crash
  <2>1. \A d \in Chat : Keeps(d)
    <3> SUFFICES ASSUME NEW d \in Chat PROVE Keeps(d)
      OBVIOUS
    <3>1. chat'[d] = IF chat[d].st = "running"
                     THEN [chat[d] EXCEPT !.st = "aborted", !.card = FALSE, !.stopping = FALSE]
                     ELSE chat[d]
      BY <1>5 DEF Crash
    <3> QED
      BY <3>1, <1>a DEF ChatRecord
  <2>2. items' = items /\ answering' = {} /\ \A p \in Press : loop'[p] = Idle
    BY <1>5 DEF Crash
  <2> QED
    BY <2>1, <2>2, RecordsKept
<1>6. CASE RecoverWrites
  <2>1. /\ loop' = loop /\ chat' = chat /\ answering' = answering
        /\ items' = [i \in Item |-> IF items[i].st = "running"
                                    THEN [items[i] EXCEPT !.st = "stopped"] ELSE items[i]]
    BY <1>6 DEF RecoverWrites, RecoverOnly
  <2>2. ASSUME NEW i \in Item
        PROVE  /\ items'[i].resume = items[i].resume
               /\ items'[i].chat = items[i].chat /\ items'[i].needs = items[i].needs
               /\ items'[i].st = IF items[i].st = "running" THEN "stopped" ELSE items[i].st
    BY <2>1, <1>a DEF ItemRecord
  <2>3. \A i \in answering : items[i].st \in {"parked", "gone"}
    BY DEF IInv, Kept, ItemInv, TypeOK
  <2> QED
    BY <2>1, <2>2, <2>3, ListKeeps
<1>7. CASE \E p \in Press : PollStops(p)
  BY <1>2, <1>7 DEF PollStops
<1>8. ASSUME NEW c \in Chat, OperatorStopsChat(c) \/ ParkStops(c)
      PROVE  Kept'
  BY <1>2, <1>8 DEF OperatorStopsChat, RunOnly, ParkStops, ParkOnly
<1>9. ASSUME NEW c \in Chat, BrowserReleased(c) \/ ParkFires(c)
      PROVE  Kept'
  BY <1>1, <1>9 DEF BrowserReleased, RunOnly, ParkFires, ParkOnly
<1>10. ASSUME NEW c \in Chat, RunAsks(c) \/ OperatorAnswers(c) \/ \E how \in Over : RunEnds(c, how)
       PROVE  Kept'
  <2>1. UNCHANGED <<items, loop, answering>>
    BY <1>10 DEF RunAsks, OperatorAnswers, RunEnds, RunOnly
  <2>2. PICK r : /\ chat' = [chat EXCEPT ![c] = r]
                 /\ r.parked = chat[c].parked /\ r.answer = chat[c].answer
    <3>1. CASE RunAsks(c)
      <4> DEFINE r == [chat[c] EXCEPT !.card = TRUE]
      <4>1. chat' = [chat EXCEPT ![c] = r] /\ r.parked = chat[c].parked /\ r.answer = chat[c].answer
        BY <3>1, <1>a DEF RunAsks, ChatRecord
      <4> QED
        BY <4>1
    <3>2. CASE OperatorAnswers(c)
      <4> DEFINE r == [chat[c] EXCEPT !.card = FALSE]
      <4>1. chat' = [chat EXCEPT ![c] = r] /\ r.parked = chat[c].parked /\ r.answer = chat[c].answer
        BY <3>2, <1>a DEF OperatorAnswers, ChatRecord
      <4> QED
        BY <4>1
    <3>3. ASSUME NEW how \in Over, RunEnds(c, how)
          PROVE  \E r : /\ chat' = [chat EXCEPT ![c] = r]
                        /\ r.parked = chat[c].parked /\ r.answer = chat[c].answer
      <4> DEFINE r == [chat[c] EXCEPT !.st = how, !.stopping = FALSE]
      <4>1. chat' = [chat EXCEPT ![c] = r] /\ r.parked = chat[c].parked /\ r.answer = chat[c].answer
        BY <3>3, <1>a DEF RunEnds, ChatRecord
      <4> QED
        BY <4>1
    <3> QED
      BY <1>10, <3>1, <3>2, <3>3
  <2>3. \A d \in Chat : Keeps(d)
    BY <2>2, <1>a
  <2> QED
    BY <2>1, <2>3, <1>1
<1>11. ASSUME NEW c \in Chat, ParkKeepsCard(c)
       PROVE  Kept'
  <2>1. /\ UNCHANGED <<items, loop, answering>> /\ ~chat[c].parked
        /\ chat' = [chat EXCEPT ![c].parked = TRUE, ![c].answer = FALSE]
    BY <1>11 DEF ParkKeepsCard, ParkOnly, IInv, ChatInv
  <2>2. \A d \in Chat : d # c => chat'[d] = chat[d]
    BY <2>1, <1>a
  <2> QED
    BY <2>1, <2>2, <1>1
<1> QED
  BY <1>3, <1>4, <1>5, <1>6, <1>7, <1>8, <1>9, <1>10, <1>11 DEF ParkSteps

(* Every step keeps the inductive invariant. *)
LEMMA InvStep ==
  ASSUME OperatorWaits, IInv, [Next]_vars
  PROVE  IInv'
<1>1. TypeOK' /\ ChatInv'
  BY TypeStep, ChatInvStep DEF IInv
<1>2. Kept'
  <2>1. CASE UNCHANGED vars
    <3>1. UNCHANGED <<items, loop, answering, chat>>
      BY <2>1 DEF vars
    <3> QED
      BY <3>1, RecordsKept
  <2>2. ASSUME NEW p \in Press, PressRun(p) \/ LoopSteps(p)
        PROVE  Kept'
    BY <2>2, LoopReadsKeeps, LoopRunsKeeps, LoopWritesKeeps, RunKeeps DEF LoopSteps
  <2>3. CASE PageSteps
    BY <2>3, PageKeeps
  <2>4. ASSUME NEW i \in Item, AnswerSteps(i)
        PROVE  Kept'
    BY <2>4, AnswerKeeps
  <2> QED
    BY <2>1, <2>2, <2>3, <2>4, RunKeeps DEF Next
<1> QED
  BY <1>1, <1>2 DEF IInv

(* The inductive invariant holds at the beginning. *)
LEMMA InvInit ==
  ASSUME Init
  PROVE  IInv
<1>1. PICK needs \in [Item -> SUBSET Start] :
        items = [i \in Item |-> IF i \in Start THEN NewTask(needs[i]) ELSE Absent("absent")]
  BY DEF Init
<1>2. \A i \in Item : /\ items[i].st \in {"waiting", "absent"}
                      /\ items[i].resume = FALSE /\ items[i].chat = NoChat
  BY <1>1 DEF NewTask, Absent
<1>3. \A p \in Press : loop[p] = Idle
  BY DEF Init
<1>4. LoopInv
  BY <1>3 DEF LoopInv, LoopAt, Idle, AtItem
<1>5. ItemInv /\ CardAndAnswerKept
  BY <1>2 DEF ItemInv, HasBegun, CardAndAnswerKept, Init
<1>6. ChatInv
  BY DEF Init, ChatInv, NoTask, NewChat
<1> QED
  BY <1>4, <1>5, <1>6, TypeInit DEF IInv, Kept

(* What is done stays done through every step. *)
LEMMA DoneStep ==
  ASSUME OperatorWaits, IInv, [Next]_vars, NEW i \in Item, items[i].st = "done"
  PROVE  items'[i].st \in {"done", "gone"}
<1>a. /\ items \in [Item -> ItemRecord] /\ i \notin answering
      /\ \A p \in Press : /\ loop[p].pc \in AtItem \cup {"skip"} => loop[p].item # i
                          /\ loop[p].pc \in AtItem \cup {"skip"} => loop[p].item \in Item
  BY DEF IInv, TypeOK, Kept, ItemInv, LoopInv, LoopAt
<1>1. CASE items' = items
  BY <1>1
<1>2. ASSUME NEW j \in Item, NEW r, items' = setQueueItem(items, j, r), j # i
      PROVE  items'[i].st \in {"done", "gone"}
  BY <1>2, <1>a DEF setQueueItem
<1>3. ASSUME NEW p \in Press, LoopSteps(p)
      PROVE  items'[i].st \in {"done", "gone"}
  <2>1. CASE LoopSkips(p) \/ LoopTakes(p) \/ LoopWrites(p) \/ NamesChat(p)
    <3>1. loop[p].item \in Item /\ loop[p].item # i
      BY <2>1, <1>a DEF LoopSkips, LoopTakes, LoopWrites, NamesChat, AtItem
    <3>2. \E r : items' = setQueueItem(items, loop[p].item, r)
      BY <2>1 DEF LoopSkips, LoopTakes, LoopWrites, NamesChat
    <3> QED
      BY <3>1, <3>2, <1>2
  <2>2. CASE ~(LoopSkips(p) \/ LoopTakes(p) \/ LoopWrites(p) \/ NamesChat(p))
    BY <2>2, <1>1, <1>3
       DEF LoopSteps, StartLoop, LoopSeesTheEnd, LoopFindsOneToSkip, LoopFindsOneToRun,
           LoopEnds, StoppedBeforeItBegan, CannotBegin, MakesChat, CarriesOn, StartsRun,
           PollStops, PollSeesClosing, Collects, LoopOnly
  <2> QED
    BY <2>1, <2>2
<1>4. CASE PageSteps
  <2>1. PICK e : Save(e) /\ \A j \in e.again : j # i
    <3>1. PICK j \in Item, n \in SUBSET Item : AddTask(j, n) \/ TakeOut(j) \/ RunAgain(j) \/ ChangeNeeds(j, n)
      BY <1>4 DEF PageSteps
    <3> DEFINE e0 == [list |-> Listed(items), needs |-> [k \in Item |-> items[k].needs], again |-> {}]
    <3>2. CASE RunAgain(j)
      <4>1. j # i /\ Save([e0 EXCEPT !.again = {j}])
        BY <3>2 DEF RunAgain, AsEdit, OperatorWaits
      <4> QED
        BY <4>1
    <3>3. CASE AddTask(j, n)
      <4> DEFINE e == [e0 EXCEPT !.list = @ \cup {j}, !.needs[j] = n]
      <4>1. Save(e) /\ e.again = {}
        BY <3>3 DEF AddTask, AsEdit
      <4> HIDE DEF e
      <4> QED
        BY <4>1
    <3>4. CASE TakeOut(j)
      <4> DEFINE e == [e0 EXCEPT !.list = @ \ {j}, !.needs = [k \in Item |-> @[k] \ {j}]]
      <4>1. Save(e) /\ e.again = {}
        BY <3>4 DEF TakeOut, AsEdit
      <4> HIDE DEF e
      <4> QED
        BY <4>1
    <3>5. ~ChangeNeeds(j, n)
      BY DEF ChangeNeeds, OperatorWaits
    <3> QED
      BY <3>1, <3>2, <3>3, <3>4, <3>5
  <2>2. items' = mergeItems(items, e) /\ i \notin e.again
    BY <2>1 DEF Save
  <2>3. items[i] \in ItemRecord
    BY <1>a
  <2>4. CASE i \notin e.list
    BY <2>2, <2>4 DEF mergeItems, Absent
  <2>5. CASE i \in e.list
    BY <2>2, <2>3, <2>5 DEF mergeItems, ItemRecord, NotListed
  <2> QED
    BY <2>4, <2>5
<1>5. ASSUME NEW j \in Item, AnswerSteps(j)
      PROVE  items'[i].st \in {"done", "gone"}
  <2>1. CASE StopAtCard(j)
    BY <2>1, <1>a DEF StopAtCard
  <2>2. CASE AnswerRecords(j)
    BY <2>2, <1>1 DEF AnswerRecords
  <2>3. CASE AnswerQueues(j)
    BY <2>3, <1>2, <1>a DEF AnswerQueues
  <2> QED
    BY <1>5, <2>1, <2>2, <2>3 DEF AnswerSteps
<1>6. CASE RecoverWrites
  BY <1>6, <1>a DEF RecoverWrites
<1>7. CASE \/ StopQueue \/ OtherTakes \/ OtherReleases \/ Close \/ Crash \/ RecoverReads
           \/ UNCHANGED vars \/ \E p \in Press : PressRun(p)
  BY <1>7, <1>1 DEF StopQueue, OtherTakes, OtherReleases, RunOnly, Close, Crash, RecoverReads,
                    vars, PressRun
<1>8. CASE \E c \in Chat : \/ RunAsks(c) \/ OperatorAnswers(c) \/ OperatorStopsChat(c)
                           \/ \E how \in Over : RunEnds(c, how)
                           \/ BrowserReleased(c) \/ ParkSteps(c)
  BY <1>8, <1>1 DEF RunAsks, OperatorAnswers, OperatorStopsChat, RunEnds, RunOnly,
                    BrowserReleased, ParkSteps, ParkFires, ParkKeepsCard, ParkStops, ParkOnly
<1> QED
  BY <1>3, <1>4, <1>5, <1>6, <1>7, <1>8 DEF Next

(* The one loop is at every task that runs, through every step. *)
LEMMA RunningStep ==
  ASSUME OperatorWaits, TypeOK, RunningHasItsLoop, [Next]_vars
  PROVE  RunningHasItsLoop'
<1> DEFINE At(l, i) == l.item = i /\ l.pc \in AtItem \ {"take"}
<1> SUFFICES ASSUME NEW i \in Item, recovery' = "done", items'[i].st = "running"
             PROVE  \E p \in Press : At(loop'[p], i)
  BY DEF RunningHasItsLoop, HasLoop
<1>a. /\ items \in [Item -> ItemRecord] /\ \A j \in Item : items[j] \in ItemRecord
      /\ loop \in [Press -> LoopRecord] /\ \A p \in Press : loop[p] \in LoopRecord /\ LoopShape(loop[p])
  BY DEF TypeOK, LoopShape
<1>1. ASSUME recovery = "done", items[i].st = "running"
      PROVE  \E p \in Press : At(loop[p], i)
  BY <1>1 DEF RunningHasItsLoop, HasLoop
<1>2. ASSUME UNCHANGED <<recovery, loop>>, items[i].st = "running"
      PROVE  \E p \in Press : At(loop'[p], i)
  BY <1>1, <1>2
<1>3. ASSUME NEW p \in Press, LoopSteps(p) \/ PressRun(p)
      PROVE  At(loop'[p], i)
  <2>1. recovery = "done"
    BY <1>3 DEF LoopSteps, StartLoop, LoopSeesTheEnd, LoopFindsOneToSkip, LoopFindsOneToRun,
         LoopSkips, LoopTakes, LoopWrites, LoopEnds, StoppedBeforeItBegan, CannotBegin,
         MakesChat, NamesChat, CarriesOn, StartsRun, PollStops, PollSeesClosing, Collects,
         LoopOnly, PressRun, rest
  <2>2. items[i].st = "running" => At(loop[p], i)
    BY <2>1, <1>1, OneLoop
  <2>3. CASE LoopTakes(p)
    <3>1. ~At(loop[p], i)
      BY <2>3 DEF LoopTakes
    <3>2. i = loop[p].item
      BY <2>2, <2>3, <3>1 DEF LoopTakes, setQueueItem
    <3>3. loop'[p] = [loop[p] EXCEPT !.pc = "begin"]
      BY <2>3, <1>a DEF LoopTakes
    <3> QED
      BY <3>2, <3>3, <1>a DEF LoopRecord, AtItem
  <2>4. CASE LoopWrites(p)
    <3>1. loop[p].item \in Item /\ loop[p].end # "running"
      BY <2>4, <1>a DEF LoopWrites, LoopShape, AtItem
    <3>2. items'[i] = items[i] \/ (i = loop[p].item /\ items'[i] = [items[i] EXCEPT
                     !.st = loop[p].end, !.chat = IF loop[p].chat = NoChat THEN @ ELSE loop[p].chat])
      BY <2>4, <3>1, <1>a DEF LoopWrites, setQueueItem
    <3>3. items'[i] = items[i]
      BY <3>1, <3>2, <1>a DEF ItemRecord
    <3>4. i = loop[p].item
      BY <2>2, <3>3
    <3>5. items[i].st \in NotListed \/ items'[i].st = loop[p].end
      BY <2>4, <3>1, <3>4, <1>a DEF LoopWrites, setQueueItem, ItemRecord
    <3> QED
      BY <3>1, <3>3, <3>5 DEF NotListed
  <2>5. CASE LoopSkips(p)
    <3>1. loop[p].item \in Item /\ ~At(loop[p], i)
      BY <2>5, <1>a DEF LoopSkips, LoopShape, AtItem
    <3>2. items[i].st = "running"
      BY <2>5, <3>1, <1>a DEF LoopSkips, setQueueItem, ItemRecord
    <3> QED
      BY <2>2, <3>1, <3>2
  <2>6. CASE NamesChat(p)
    <3>1. loop[p].item \in Item
      BY <2>6, <1>a DEF NamesChat, LoopShape, AtItem
    <3>2. items[i].st = "running"
      BY <2>6, <3>1, <1>a DEF NamesChat, setQueueItem, ItemRecord
    <3>3. loop'[p] = [loop[p] EXCEPT !.pc = "ready"]
      BY <2>6, <1>a DEF NamesChat
    <3> QED
      BY <2>2, <3>2, <3>3, <1>a DEF LoopRecord, AtItem
  <2>7. CASE \/ StoppedBeforeItBegan(p) \/ CannotBegin(p) \/ PollSeesClosing(p) \/ Collects(p)
             \/ MakesChat(p) \/ CarriesOn(p) \/ StartsRun(p) \/ PollStops(p)
    <3>1. items' = items
      BY <2>7 DEF StoppedBeforeItBegan, CannotBegin, PollSeesClosing, Collects, LoopOnly,
                  MakesChat, CarriesOn, StartsRun, PollStops
    <3>2. loop'[p].item = loop[p].item /\ loop'[p].pc \in {loop[p].pc, "write", "made", "ready", "work"}
      BY <2>7, <1>a DEF StoppedBeforeItBegan, CannotBegin, PollSeesClosing, Collects, Ends,
                  MakesChat, CarriesOn, StartsRun, PollStops, LoopRecord
    <3> QED
      BY <2>2, <3>1, <3>2 DEF AtItem
  <2>8. CASE PressRun(p) \/ StartLoop(p) \/ LoopSeesTheEnd(p) \/ LoopFindsOneToSkip(p)
             \/ LoopFindsOneToRun(p) \/ LoopEnds(p)
    <3>1. items' = items /\ loop[p].pc \notin AtItem
      BY <2>8 DEF PressRun, StartLoop, LoopSeesTheEnd, LoopFindsOneToSkip, LoopFindsOneToRun,
                  LoopEnds, LoopOnly, AtItem
    <3> QED
      BY <2>2, <3>1
  <2> QED
    BY <1>3, <2>3, <2>4, <2>5, <2>6, <2>7, <2>8 DEF LoopSteps
<1>4. CASE PageSteps
  <2>1. UNCHANGED <<recovery, loop>> /\ \E e : items' = mergeItems(items, e)
    <3>1. PICK e : Save(e)
      BY <1>4 DEF PageSteps, AddTask, TakeOut, RunAgain, ChangeNeeds
    <3> QED
      BY <3>1 DEF Save
  <2>2. items[i].st = "running"
    BY <2>1, <1>a DEF mergeItems, Absent, NewTask, ItemRecord
  <2> QED
    BY <2>1, <2>2, <1>2
<1>5. ASSUME NEW j \in Item, AnswerSteps(j)
      PROVE  \E p \in Press : At(loop'[p], i)
  <2>1. UNCHANGED <<recovery, loop>>
    BY <1>5 DEF AnswerSteps, StopAtCard, AnswerRecords, AnswerQueues, AnswerOnly, rest
  <2>2. items[i].st = "running"
    <3>1. CASE StopAtCard(j)
      BY <3>1, <1>a DEF StopAtCard, ItemRecord
    <3>2. CASE AnswerRecords(j)
      BY <3>2 DEF AnswerRecords
    <3>3. CASE AnswerQueues(j)
      <4> DEFINE r == [items[j] EXCEPT !.st = "waiting", !.resume = TRUE]
      <4>1. r.st = "waiting" /\ items' = setQueueItem(items, j, r)
        BY <3>3, <1>a DEF AnswerQueues, ItemRecord
      <4> HIDE DEF r
      <4> QED
        BY <4>1, <1>a DEF setQueueItem
    <3> QED
      BY <1>5, <3>1, <3>2, <3>3 DEF AnswerSteps
  <2> QED
    BY <2>1, <2>2, <1>2
<1>6. CASE RecoverReads
  BY <1>6 DEF RecoverReads, ToRecover
<1>7. CASE RecoverWrites
  BY <1>7, <1>a DEF RecoverWrites, ItemRecord
<1>8. CASE Crash
  BY <1>8 DEF Crash
<1>9. CASE StopQueue \/ OtherTakes \/ OtherReleases \/ Close \/ UNCHANGED vars
  BY <1>9, <1>2 DEF StopQueue, OtherTakes, OtherReleases, RunOnly, Close, vars, rest
<1>10. CASE \E c \in Chat : \/ RunAsks(c) \/ OperatorAnswers(c) \/ OperatorStopsChat(c)
                            \/ \E how \in Over : RunEnds(c, how)
                            \/ BrowserReleased(c) \/ ParkSteps(c)
  BY <1>10, <1>2 DEF RunAsks, OperatorAnswers, OperatorStopsChat, RunEnds, RunOnly,
                     BrowserReleased, ParkSteps, ParkFires, ParkKeepsCard, ParkStops, ParkOnly, rest
<1> QED
  BY <1>3, <1>4, <1>5, <1>6, <1>7, <1>8, <1>9, <1>10 DEF Next

----------------------------------------------------------------------------
(* The theorems. *)

(* With presses that wait for one another, the inductive invariant holds in *)
(* every state the queue reaches.                                           *)
THEOREM Inductive == OperatorWaits => (Spec => []IInv)
<1> SUFFICES ASSUME OperatorWaits PROVE Spec => []IInv
  OBVIOUS
<1>1. Init => IInv
  BY InvInit
<1>2. IInv /\ [Next]_vars => IInv'
  BY InvStep
<1> QED
  BY <1>1, <1>2, PTL DEF Spec

(* "A task may depend on earlier ones": no task runs, is set aside, waits   *)
(* to carry on or is done before every task it needs is done.               *)
THEOREM NeedsAreDone == OperatorWaits => (Spec => []NeedsDone)
<1> SUFFICES ASSUME OperatorWaits PROVE Spec => []NeedsDone
  OBVIOUS
<1>1. IInv => NeedsDone
  BY DEF IInv, Kept, ItemInv, Settled, NeedsDone
<1> QED
  BY <1>1, Inductive, PTL

(* A card, and an answer to it, outlive the bot: a task set aside has its   *)
(* card on record, and one that waits to carry on has the answer as well.   *)
THEOREM CardOutlivesTheBot == OperatorWaits => (Spec => []CardAndAnswerKept)
<1> SUFFICES ASSUME OperatorWaits PROVE Spec => []CardAndAnswerKept
  OBVIOUS
<1>1. IInv => CardAndAnswerKept
  BY DEF IInv, Kept
<1> QED
  BY <1>1, Inductive, PTL

(* What is done is never run again nor called anything else, whatever else *)
(* is added, taken out, run again, answered, stopped or killed.             *)
THEOREM DoneIsForGood == OperatorWaits => (Spec => DoneStaysDone)
<1> SUFFICES ASSUME OperatorWaits PROVE Spec => DoneStaysDone
  OBVIOUS
<1>1. IInv /\ [Next]_vars => [\A i \in Item : items[i].st = "done" => items'[i].st \in {"done", "gone"}]_vars
  BY DoneStep
<1> QED
  BY <1>1, Inductive, PTL DEF Spec, DoneStaysDone

(* No task is left claiming to run: once the bot's queue is recovered, a   *)
(* loop is at every task the file calls running.                           *)
THEOREM NoneLeftRunning == OperatorWaits => (Spec => []RunningHasItsLoop)
<1> SUFFICES ASSUME OperatorWaits PROVE Spec => []RunningHasItsLoop
  OBVIOUS
<1>1. Init => RunningHasItsLoop
  BY DEF Init, RunningHasItsLoop, NewTask, Absent
<1>2. TypeOK /\ RunningHasItsLoop /\ [Next]_vars => RunningHasItsLoop'
  BY RunningStep
<1> QED
  BY <1>1, <1>2, TypeCorrect, PTL DEF Spec

(* "One task at a time", as long as presses of Run wait for one another. *)
THEOREM OneAtATime == OperatorWaits => (Spec => []OneTaskAtATime)
<1> SUFFICES ASSUME OperatorWaits PROVE Spec => []OneTaskAtATime
  OBVIOUS
<1>1. RunningHasItsLoop => OneTaskAtATime
  BY OneLoop DEF RunningHasItsLoop, HasLoop, OneTaskAtATime
<1> QED
  BY <1>1, NoneLeftRunning, PTL

----------------------------------------------------------------------------
(* The card of a parked task can be answered. *)

(* The bot does not die between the two halves of an answer: recorded with  *)
(* the task's session, not yet in the list (answerParked).                  *)
NoAnswerIsCutShort == [][Crash => answering = {}]_vars

(* What a task set aside, and a loop about to set one aside, know of its    *)
(* card: it is answered only while the answer is on its way into the list.  *)
StillOpen ==
  /\ \A i \in Item : items[i].st = "parked" /\ i \notin answering => ~chat[items[i].chat].answer
  /\ \A p \in Press : loop[p].pc = "write" /\ loop[p].end = "parked" => ~chat[loop[p].chat].answer

(* Where the chat of a parked task, and of a task about to be, is. *)
LEMMA CardsOnRecord ==
  ASSUME IInv
  PROVE  /\ \A i \in Item : items[i].st = "parked" => items[i].chat \in Chat /\ items[i].chat[1] = i
         /\ \A p \in Press : loop[p].pc = "write" /\ loop[p].end = "parked" =>
              /\ loop[p].item \in Item /\ items[loop[p].item].st # "parked"
              /\ loop[p].chat \in Chat /\ loop[p].chat[1] = loop[p].item
<1>1. \A i \in Item : items[i].st = "parked" => items[i].chat \in Chat /\ items[i].chat[1] = i
  BY DEF IInv, TypeOK, ItemRecord, Kept, CardAndAnswerKept, ItemInv
<1>2. ASSUME NEW p \in Press, loop[p].pc = "write", loop[p].end = "parked"
      PROVE  /\ loop[p].item \in Item /\ items[loop[p].item].st # "parked"
             /\ loop[p].chat \in Chat /\ loop[p].chat[1] = loop[p].item
  <2>1. LoopAt(loop[p]) /\ loop[p].item \in Item /\ loop[p].chat \in Chat \cup {NoChat}
    BY <1>2 DEF IInv, TypeOK, LoopRecord, Kept, LoopInv, AtItem
  <2> QED
    BY <1>2, <2>1 DEF LoopAt, AtItem
<1> QED
  BY <1>1, <1>2

(* Only an answer of the operator to a card puts one on its record. *)
LEMMA AnswerOnRecord ==
  ASSUME TypeOK, [Next]_vars, NEW c \in Chat, chat'[c].answer, ~chat[c].answer
  PROVE  \E i \in Item : AnswerRecords(i) /\ c = items[i].chat
<1>a. chat \in [Chat -> ChatRecord] /\ chat[c] \in ChatRecord
  BY DEF TypeOK
<1>b. NewChat.answer = FALSE
  BY DEF NewChat
<1>1. CASE UNCHANGED <<chat, browser, parker>>
  BY <1>1
<1>2. ASSUME NEW p \in Press, MakesChat(p) \/ CarriesOn(p) \/ StartsRun(p) \/ PollStops(p)
      PROVE  FALSE
  <2>1. CASE MakesChat(p)
    BY <2>1, <1>a, <1>b DEF MakesChat
  <2>2. CASE CarriesOn(p)
    BY <2>2, <1>a, <1>b DEF CarriesOn
  <2>3. CASE StartsRun(p)
    BY <2>3, <1>a DEF StartsRun, ChatRecord
  <2>4. CASE PollStops(p)
    BY <2>4, <1>a DEF PollStops, Stopped, ChatRecord
  <2> QED
    BY <1>2, <2>1, <2>2, <2>3, <2>4
<1>3. ASSUME NEW d \in Chat, \/ RunAsks(d) \/ OperatorAnswers(d) \/ OperatorStopsChat(d)
                             \/ \E how \in Over : RunEnds(d, how)
                             \/ BrowserReleased(d) \/ ParkSteps(d)
      PROVE  FALSE
  <2>1. CASE RunAsks(d)
    BY <2>1, <1>a DEF RunAsks, ChatRecord
  <2>5. CASE OperatorAnswers(d)
    BY <2>5, <1>a DEF OperatorAnswers, ChatRecord
  <2>6. ASSUME NEW how \in Over, RunEnds(d, how)
        PROVE  FALSE
    BY <2>6, <1>a DEF RunEnds, ChatRecord
  <2>2. CASE OperatorStopsChat(d) \/ ParkStops(d)
    BY <2>2, <1>a DEF OperatorStopsChat, ParkStops, Stopped, ChatRecord
  <2>3. CASE BrowserReleased(d) \/ ParkFires(d)
    BY <2>3 DEF BrowserReleased, ParkFires
  <2>4. CASE ParkKeepsCard(d)
    BY <2>4, <1>a DEF ParkKeepsCard, ChatRecord
  <2> QED
    BY <1>3, <2>1, <2>2, <2>3, <2>4, <2>5, <2>6 DEF ParkSteps
<1>4. ASSUME NEW i \in Item, AnswerRecords(i)
      PROVE  c = items[i].chat
  BY <1>4, <1>a DEF AnswerRecords, ChatRecord
<1>5. CASE StopQueue
  <2> DEFINE d == items[First({i \in Item : items[i].st = "running"})].chat
  <2>1. chat' = Stopped(chat, d) \/ chat' = chat
    BY <1>5 DEF StopQueue
  <2> HIDE DEF d
  <2>2. CASE chat' = Stopped(chat, d)
    BY <2>2, <1>a DEF Stopped, ChatRecord
  <2> QED
    BY <2>1, <2>2
<1>6. CASE OtherTakes \/ OtherReleases
  BY <1>6 DEF OtherTakes, OtherReleases
<1>7. CASE Crash
  BY <1>7, <1>a DEF Crash, ChatRecord
<1> QED
  BY ChatSteps, <1>1, <1>2, <1>3, <1>4, <1>5, <1>6, <1>7

(* A loop comes to set its task aside only by what it collects of a run. *)
LEMMA OnlyCollected ==
  ASSUME TypeOK, [Next]_vars, NEW p \in Press,
         loop'[p].pc = "write", loop'[p].end = "parked", loop'[p] # loop[p]
  PROVE  Collects(p)
<1>a. loop \in [Press -> LoopRecord] /\ \A q \in Press : loop[q] \in LoopRecord
  BY DEF TypeOK
<1>1. CASE loop' = loop
  BY <1>1
<1>2. CASE Crash
  BY <1>2 DEF Crash, Idle
<1>3. ASSUME NEW q \in Press, PressRun(q) \/ LoopSteps(q)
      PROVE  Collects(p)
  <2>1. CASE q # p
    <3>1. loop'[p] = loop[p]
      BY <1>3, <2>1, <1>a
         DEF PressRun, LoopSteps, StartLoop, LoopSeesTheEnd, LoopFindsOneToSkip,
             LoopFindsOneToRun, LoopSkips, LoopTakes, LoopWrites, LoopEnds, StoppedBeforeItBegan,
             CannotBegin, MakesChat, NamesChat, CarriesOn, StartsRun, PollStops,
             PollSeesClosing, Collects, Ends
    <3> QED
      BY <3>1
  <2>2. CASE q = p
    <3>1. CASE PressRun(p) \/ StartLoop(p) \/ LoopTakes(p) \/ NamesChat(p) \/ StartsRun(p)
      <4>1. \E pc \in {"asked", "read", "begin", "ready", "work"} :
              loop' = [loop EXCEPT ![p].pc = pc]
        BY <3>1 DEF PressRun, StartLoop, LoopTakes, NamesChat, StartsRun
      <4> QED
        BY <4>1, <1>a DEF LoopRecord
    <3>2. CASE LoopSeesTheEnd(p) \/ LoopFindsOneToSkip(p) \/ LoopSkips(p) \/ LoopWrites(p) \/ LoopEnds(p)
      <4>1. loop'[p].end = "none"
        <5>1. CASE LoopSeesTheEnd(p)
          BY <5>1, <1>a DEF LoopSeesTheEnd, Idle
        <5>2. CASE LoopFindsOneToSkip(p)
          BY <5>2, <1>a DEF LoopFindsOneToSkip, Idle
        <5>3. CASE LoopSkips(p) \/ LoopEnds(p)
          BY <5>3, <1>a DEF LoopSkips, LoopEnds, Idle
        <5>4. CASE LoopWrites(p)
          BY <5>4, <1>a DEF LoopWrites, Idle
        <5> QED
          BY <3>2, <5>1, <5>2, <5>3, <5>4
      <4> QED
        BY <4>1
    <3>3. CASE LoopFindsOneToRun(p)
      BY <3>3, <1>a DEF LoopFindsOneToRun
    <3>4. CASE MakesChat(p)
      BY <3>4, <1>a DEF MakesChat, LoopRecord
    <3>5. CASE StoppedBeforeItBegan(p) \/ CannotBegin(p) \/ PollSeesClosing(p)
      BY <3>5, <1>a DEF StoppedBeforeItBegan, CannotBegin, PollSeesClosing, Ends, LoopRecord
    <3>6. CASE CarriesOn(p)
      BY <3>6, <1>a DEF CarriesOn, Ends, LoopRecord
    <3>7. CASE PollStops(p)
      BY <3>7 DEF PollStops
    <3> QED
      BY <1>3, <2>2, <3>1, <3>2, <3>3, <3>4, <3>5, <3>6, <3>7 DEF LoopSteps
  <2> QED
    BY <2>1, <2>2
<1>4. CASE \/ PageSteps \/ StopQueue \/ OtherTakes \/ OtherReleases \/ Close \/ RecoverReads \/ RecoverWrites
           \/ UNCHANGED vars \/ \E i \in Item : AnswerSteps(i)
  BY <1>4, <1>1 DEF PageSteps, AddTask, TakeOut, RunAgain, ChangeNeeds, Save, StopQueue, OtherTakes,
     OtherReleases, RunOnly, Close, RecoverReads, RecoverWrites, RecoverOnly, vars, AnswerSteps,
     StopAtCard, AnswerRecords, AnswerQueues, AnswerOnly
<1>5. CASE \E c \in Chat : \/ RunAsks(c) \/ OperatorAnswers(c) \/ OperatorStopsChat(c)
                           \/ \E how \in Over : RunEnds(c, how)
                           \/ BrowserReleased(c) \/ ParkSteps(c)
  BY <1>5, <1>1 DEF RunAsks, OperatorAnswers, OperatorStopsChat, RunEnds, RunOnly,
                    BrowserReleased, ParkSteps, ParkFires, ParkKeepsCard, ParkStops, ParkOnly
<1> QED
  BY <1>2, <1>3, <1>4, <1>5 DEF Next

(* Only the loop that collected a parked task sets it aside; a task set     *)
(* aside keeps its chat for as long as it is, and an answer is on its way   *)
(* until it is in the list.                                                 *)
LEMMA OnlyWritten ==
  ASSUME IInv, [Next]_vars, Crash => answering = {}, NEW i \in Item, items'[i].st = "parked"
  PROVE  /\ i \in answering => i \in answering'
         /\ \/ items[i].st = "parked" /\ items'[i].chat = items[i].chat
            \/ \E p \in Press : /\ LoopWrites(p) /\ loop[p].end = "parked" /\ loop[p].item = i
                                /\ items'[i].chat = loop[p].chat
<1>a. /\ items \in [Item -> ItemRecord] /\ \A j \in Item : items[j] \in ItemRecord
      /\ \A p \in Press : loop[p] \in LoopRecord /\ LoopShape(loop[p]) /\ LoopAt(loop[p])
  BY DEF IInv, TypeOK, LoopShape, Kept, LoopInv
<1>1. CASE UNCHANGED <<items, answering>>
  BY <1>1
<1>2. CASE Crash
  BY <1>2 DEF Crash
<1>3. CASE RecoverWrites
  BY <1>3, <1>a DEF RecoverWrites, RecoverOnly, ItemRecord
<1>4. CASE PageSteps
  <2>1. PICK e : Save(e)
    BY <1>4 DEF PageSteps, AddTask, TakeOut, RunAgain, ChangeNeeds
  <2>2. items' = mergeItems(items, e) /\ answering' = answering
    BY <2>1 DEF Save
  <2>3. CASE i \notin e.list
    BY <2>2, <2>3 DEF mergeItems, Absent
  <2>4. CASE i \in e.list
    <3>1. items'[i] \in {items[i], NewTask(e.needs[i]), [items[i] EXCEPT !.needs = e.needs[i]]}
      BY <2>2, <2>4 DEF mergeItems
    <3>2. NewTask(e.needs[i]).st = "waiting"
      BY DEF NewTask
    <3>3. /\ [items[i] EXCEPT !.needs = e.needs[i]].st = items[i].st
          /\ [items[i] EXCEPT !.needs = e.needs[i]].chat = items[i].chat
      BY <1>a DEF ItemRecord
    <3> QED
      BY <2>2, <3>1, <3>2, <3>3
  <2> QED
    BY <2>3, <2>4
<1>5. ASSUME NEW j \in Item, AnswerSteps(j)
      PROVE  /\ i \in answering => i \in answering'
             /\ items[i].st = "parked" /\ items'[i].chat = items[i].chat
  <2>1. CASE StopAtCard(j)
    BY <2>1, <1>a DEF StopAtCard, ItemRecord
  <2>2. CASE AnswerRecords(j)
    BY <2>2 DEF AnswerRecords
  <2>3. CASE AnswerQueues(j)
    <3> DEFINE r == [items[j] EXCEPT !.st = "waiting", !.resume = TRUE]
    <3>1. r.st = "waiting" /\ items' = setQueueItem(items, j, r) /\ answering' = answering \ {j}
      BY <2>3, <1>a DEF AnswerQueues, ItemRecord
    <3> HIDE DEF r
    <3>2. i # j /\ items'[i] = items[i]
      BY <3>1, <1>a DEF setQueueItem, NotListed
    <3> QED
      BY <3>1, <3>2
  <2> QED
    BY <1>5, <2>1, <2>2, <2>3 DEF AnswerSteps
<1>6. ASSUME NEW p \in Press, LoopSteps(p)
      PROVE  /\ i \in answering => i \in answering'
             /\ \/ items[i].st = "parked" /\ items'[i].chat = items[i].chat
                \/ /\ LoopWrites(p) /\ loop[p].end = "parked" /\ loop[p].item = i
                   /\ items'[i].chat = loop[p].chat
  <2>1. answering' = answering
    BY <1>6 DEF LoopSteps, StartLoop, LoopSeesTheEnd, LoopFindsOneToSkip, LoopFindsOneToRun,
         LoopSkips, LoopTakes, LoopWrites, LoopEnds, StoppedBeforeItBegan, CannotBegin,
         MakesChat, NamesChat, CarriesOn, StartsRun, PollStops, PollSeesClosing, Collects, LoopOnly
  <2>2. ASSUME NEW r, items' = setQueueItem(items, loop[p].item, r), loop[p].item # i
        PROVE  items'[i] = items[i]
    BY <2>2, <1>a DEF setQueueItem
  <2>3. CASE LoopSkips(p) \/ LoopTakes(p) \/ LoopWrites(p) \/ NamesChat(p)
    <3>1. loop[p].item \in Item /\ items[loop[p].item].st # "parked"
      BY <2>3, <1>a DEF LoopSkips, LoopTakes, LoopWrites, NamesChat, LoopShape, LoopAt, AtItem
    <3>2. CASE loop[p].item # i
      <4>1. \E r : items' = setQueueItem(items, loop[p].item, r)
        BY <2>3 DEF LoopSkips, LoopTakes, LoopWrites, NamesChat
      <4> QED
        BY <2>1, <2>2, <3>2, <4>1
    <3>3. CASE loop[p].item = i
      <4>1. CASE LoopSkips(p)
        BY <4>1, <3>3, <3>1, <1>a DEF LoopSkips, setQueueItem, ItemRecord
      <4>2. CASE LoopTakes(p)
        BY <4>2, <3>3, <3>1, <1>a DEF LoopTakes, setQueueItem, ItemRecord
      <4>3. CASE NamesChat(p)
        BY <4>3, <3>3, <3>1, <1>a DEF NamesChat, setQueueItem, ItemRecord
      <4>4. CASE LoopWrites(p)
        <5> DEFINE r == [items[i] EXCEPT !.st = loop[p].end,
                                         !.chat = IF loop[p].chat = NoChat THEN @ ELSE loop[p].chat]
        <5>1. /\ items' = setQueueItem(items, i, r) /\ r.st = loop[p].end
              /\ r.chat = IF loop[p].chat = NoChat THEN items[i].chat ELSE loop[p].chat
          BY <4>4, <3>3, <1>a DEF LoopWrites, ItemRecord
        <5> HIDE DEF r
        <5>2. items'[i] = r /\ loop[p].end = "parked"
          BY <5>1, <3>1, <3>3, <1>a DEF setQueueItem
        <5>3. loop[p].chat # NoChat
          BY <4>4, <5>2, <1>a DEF LoopWrites, LoopAt
        <5> QED
          BY <2>1, <3>3, <4>4, <5>1, <5>2, <5>3
      <4> QED
        BY <2>3, <4>1, <4>2, <4>3, <4>4
    <3> QED
      BY <3>2, <3>3
  <2>4. CASE ~(LoopSkips(p) \/ LoopTakes(p) \/ LoopWrites(p) \/ NamesChat(p))
    <3>1. items' = items
      BY <2>4, <1>6 DEF LoopSteps, StartLoop, LoopSeesTheEnd, LoopFindsOneToSkip, LoopFindsOneToRun,
         LoopEnds, StoppedBeforeItBegan, CannotBegin, MakesChat, CarriesOn, StartsRun, PollStops,
         PollSeesClosing, Collects, LoopOnly
    <3> QED
      BY <2>1, <3>1
  <2> QED
    BY <2>3, <2>4
<1>7. CASE \/ StopQueue \/ OtherTakes \/ OtherReleases \/ Close \/ RecoverReads \/ UNCHANGED vars
           \/ \E p \in Press : PressRun(p)
  BY <1>7, <1>1 DEF StopQueue, OtherTakes, OtherReleases, RunOnly, Close, RecoverReads, RecoverOnly,
     vars, PressRun
<1>8. CASE \E c \in Chat : \/ RunAsks(c) \/ OperatorAnswers(c) \/ OperatorStopsChat(c)
                           \/ \E how \in Over : RunEnds(c, how)
                           \/ BrowserReleased(c) \/ ParkSteps(c)
  BY <1>8, <1>1 DEF RunAsks, OperatorAnswers, OperatorStopsChat, RunEnds, RunOnly,
                    BrowserReleased, ParkSteps, ParkFires, ParkKeepsCard, ParkStops, ParkOnly
<1> QED
  BY <1>2, <1>3, <1>4, <1>5, <1>6, <1>7, <1>8 DEF Next

(* An answer goes on the record of its own task's card alone, and no loop   *)
(* is at that task.                                                         *)
LEMMA StillOpenStep ==
  ASSUME IInv, StillOpen, [Next]_vars, Crash => answering = {}
  PROVE  StillOpen'
<1>a. TypeOK
  BY DEF IInv
<1>1. CASE \E i \in Item : AnswerRecords(i)
  <2>1. PICK i \in Item : AnswerRecords(i)
    BY <1>1
  <2>2. /\ items' = items /\ loop' = loop /\ answering' = answering \cup {i}
        /\ items[i].st = "parked"
    BY <2>1 DEF AnswerRecords, AnswerOnly
  <2>3. \A c \in Chat : c[1] # i => (chat'[c].answer => chat[c].answer)
    <3>1. items[i].chat \in Chat /\ items[i].chat[1] = i
      BY <2>2, CardsOnRecord
    <3>2. chat \in [Chat -> ChatRecord]
      BY <1>a DEF TypeOK
    <3> QED
      BY <2>1, <3>1, <3>2 DEF AnswerRecords
  <2>4. ASSUME NEW j \in Item, items[j].st = "parked", j \notin answering'
        PROVE  ~chat'[items[j].chat].answer
    <3>1. j # i /\ j \notin answering /\ items[j].chat \in Chat /\ items[j].chat[1] = j
      BY <2>2, <2>4, CardsOnRecord
    <3> QED
      BY <2>3, <2>4, <3>1 DEF StillOpen
  <2>5. ASSUME NEW p \in Press, loop[p].pc = "write", loop[p].end = "parked"
        PROVE  ~chat'[loop[p].chat].answer
    <3>1. loop[p].chat \in Chat /\ loop[p].chat[1] # i
      BY <2>2, <2>5, CardsOnRecord
    <3> QED
      BY <2>3, <2>5, <3>1 DEF StillOpen
  <2> QED
    BY <2>2, <2>4, <2>5 DEF StillOpen
<1>2. CASE ~ \E i \in Item : AnswerRecords(i)
  <2>1. \A c \in Chat : chat'[c].answer => chat[c].answer
    BY <1>2, <1>a, AnswerOnRecord
  <2>2. ASSUME NEW i \in Item, items'[i].st = "parked", i \notin answering'
        PROVE  ~chat'[items'[i].chat].answer
    <3>1. CASE items[i].st = "parked" /\ items'[i].chat = items[i].chat
      <4>1. i \notin answering /\ items[i].chat \in Chat
        BY <2>2, <3>1, OnlyWritten, CardsOnRecord
      <4> QED
        BY <2>1, <3>1, <4>1 DEF StillOpen
    <3>2. ASSUME NEW p \in Press, LoopWrites(p), loop[p].end = "parked", items'[i].chat = loop[p].chat
          PROVE  ~chat'[items'[i].chat].answer
      <4>1. loop[p].pc = "write" /\ loop[p].chat \in Chat
        BY <3>2, CardsOnRecord DEF LoopWrites
      <4> QED
        BY <2>1, <3>2, <4>1 DEF StillOpen
    <3> QED
      BY <2>2, <3>1, <3>2, OnlyWritten
  <2>3. ASSUME NEW p \in Press, loop'[p].pc = "write", loop'[p].end = "parked"
        PROVE  ~chat'[loop'[p].chat].answer
    <3>1. CASE loop'[p] = loop[p]
      <4>1. loop[p].chat \in Chat /\ ~chat[loop[p].chat].answer
        BY <2>3, <3>1, CardsOnRecord DEF StillOpen
      <4> QED
        BY <2>1, <3>1, <4>1
    <3>2. CASE Collects(p)
      <4>1. loop[p] \in LoopRecord /\ loop \in [Press -> LoopRecord]
            /\ loop[p].chat \in Chat /\ chat' = chat /\ chat[loop[p].chat] \in ChatRecord
        BY <3>2, <1>a DEF TypeOK, Collects, LoopOnly
      <4>2. /\ loop'[p].chat = loop[p].chat
            /\ loop'[p].end = IF chat[loop[p].chat].parked /\ ~chat[loop[p].chat].answer
                              THEN "parked" ELSE statusOfTask(chat[loop[p].chat].st)
        BY <3>2, <4>1 DEF Collects, Ends, LoopRecord
      <4>3. statusOfTask(chat[loop[p].chat].st) # "parked"
        BY DEF statusOfTask
      <4> QED
        BY <2>3, <4>1, <4>2, <4>3
    <3> QED
      BY <2>3, <3>1, <3>2, <1>a, OnlyCollected
  <2> QED
    BY <2>2, <2>3 DEF StillOpen
<1> QED
  BY <1>1, <1>2

(***************************************************************************)
(* A parked task can be answered, whatever else happens, unless the bot    *)
(* dies between the two halves of an answer to it (answerParked writes the *)
(* task's session, then the list): that is the one way to a parked task    *)
(* that refuses every answer.                                              *)
(***************************************************************************)
THEOREM ParkedAnswerable ==
  OperatorWaits => (Spec /\ NoAnswerIsCutShort => []ParkedCanBeAnswered)
<1> SUFFICES ASSUME OperatorWaits PROVE Spec /\ NoAnswerIsCutShort => []ParkedCanBeAnswered
  OBVIOUS
<1>1. Init => StillOpen
  BY DEF Init, StillOpen, NewTask, Absent, Idle
<1>2. IInv /\ StillOpen /\ [Next]_vars /\ [Crash => answering = {}]_vars => StillOpen'
  <2> SUFFICES ASSUME IInv, StillOpen, [Next]_vars, [Crash => answering = {}]_vars
               PROVE  StillOpen'
    OBVIOUS
  <2>1. CASE UNCHANGED vars
    <3>1. UNCHANGED <<items, loop, answering, chat>>
      BY <2>1 DEF vars
    <3> QED
      BY <3>1 DEF StillOpen
  <2> QED
    BY <2>1, StillOpenStep
<1>3. IInv /\ StillOpen => ParkedCanBeAnswered
  BY DEF IInv, Kept, CardAndAnswerKept, StillOpen, ParkedCanBeAnswered, HasOpenCard
<1>4. Spec => []IInv
  BY Inductive
<1> QED
  BY <1>1, <1>2, <1>3, <1>4, PTL DEF Spec, NoAnswerIsCutShort

----------------------------------------------------------------------------
(* The queue implements QueueLife.                                         *)

(* No task is taken out of the list.  Taking one out is no step of          *)
(* QueueLife: a task about to be skipped may lose its last need between the *)
(* loop's reading of the list and its writing of the skip, and is skipped   *)
(* then although nothing it needs is missing.                               *)
NoneTakenOut == EditKinds \subseteq {"add", "again"}

AtWorkOn(l, i) == l.item = i /\ l.pc \in AtItem \ {"take"}

(* What a loop read of its task still holds when it writes; and a task at  *)
(* work is called running, stopped by a recovery that came late, or, put   *)
(* back since, waiting.                                                    *)
LifeInv ==
  /\ \A i \in Item : items[i].st # "gone" /\ (items[i].st = "absent" => items[i].needs = {})
  /\ \A p \in Press :
       /\ loop[p].pc \in {"take", "skip"} => items[loop[p].item].st = "waiting"
       /\ loop[p].pc = "skip" => \E d \in items[loop[p].item].needs : items[d].st # "done"
       /\ loop[p].pc \in AtItem \ {"take"} => items[loop[p].item].st \in {"running", "stopped", "waiting"}

(* A task's life, of its status and the loops. *)
InLoop(loops, i) == \E p \in Press : AtWorkOn(loops[p], i)
LifeOf(st, loops, i) == IF InLoop(loops, i) /\ st \notin NotListed THEN "running"
                        ELSE IF st = "running" THEN "stopped"
                        ELSE st

LEMMA LifeIs ==
  ASSUME NEW i \in Item
  PROVE  Life(i) = LifeOf(items[i].st, loop, i) /\ Life(i)' = LifeOf(items'[i].st, loop', i)
  BY DEF Life, LifeOf, InLoop, AtWorkOn, HasLoop, Listed

LEMMA HasTheLoop ==
  ASSUME OperatorWaits, NEW p \in Press, NEW loops, NEW i
  PROVE  InLoop(loops, i) <=> AtWorkOn(loops[p], i)
  BY OneLoop DEF InLoop

LEMMA LifeStutters ==
  ASSUME \A i \in Item : Life(i)' = Life(i) /\ items'[i].needs = items[i].needs
  PROVE  UNCHANGED Promise!lvars
  BY DEF Promise!lvars

LEMMA LifeBecomes ==
  ASSUME NEW t \in Item, NEW s, Life(t)' = s,
         \A i \in Item : i # t => Life(i)' = Life(i),
         \A i \in Item : items'[i].needs = items[i].needs
  PROVE  Promise!Becomes(t, s)
  BY DEF Promise!Becomes

(* A step that leaves every task its status, its needs and its loop. *)
LEMMA LifeIsLeft ==
  ASSUME LifeInv, TypeOK,
         \A i \in Item : /\ items'[i].st = items[i].st /\ items'[i].needs = items[i].needs
                         /\ InLoop(loop', i) <=> InLoop(loop, i),
         \A p \in Press : \/ loop'[p].pc \notin AtItem \cup {"skip"}
                          \/ loop'[p].item = loop[p].item /\ loop'[p].pc = loop[p].pc
                          \/ /\ loop'[p].item = loop[p].item
                             /\ {loop[p].pc, loop'[p].pc} \subseteq AtItem \ {"take"}
  PROVE  LifeInv' /\ UNCHANGED Promise!lvars
<1>1. \A i \in Item : Life(i)' = Life(i)
  BY LifeIs DEF LifeOf
<1>2. UNCHANGED Promise!lvars
  BY <1>1, LifeStutters
<1>3. \A i \in Item : items[i].needs \subseteq Item
  BY DEF TypeOK, ItemRecord
<1>4. \A p \in Press : loop[p].pc \in AtItem \cup {"skip"} => loop[p].item \in Item
  BY DEF TypeOK
<1>5. LifeInv'
  <2>1. \A i \in Item : items'[i].st # "gone" /\ (items'[i].st = "absent" => items'[i].needs = {})
    BY DEF LifeInv
  <2>2. ASSUME NEW p \in Press
        PROVE  /\ loop'[p].pc \in {"take", "skip"} => items'[loop'[p].item].st = "waiting"
               /\ loop'[p].pc = "skip" => \E d \in items'[loop'[p].item].needs : items'[d].st # "done"
               /\ loop'[p].pc \in AtItem \ {"take"}
                    => items'[loop'[p].item].st \in {"running", "stopped", "waiting"}
    <3>1. CASE loop'[p].pc \notin AtItem \cup {"skip"}
      BY <3>1 DEF AtItem
    <3>2. CASE loop'[p].item = loop[p].item /\ loop'[p].pc = loop[p].pc
      <4>1. CASE loop[p].pc \in AtItem \cup {"skip"}
        BY <1>3, <1>4, <3>2, <4>1 DEF LifeInv
      <4>2. CASE loop[p].pc \notin AtItem \cup {"skip"}
        BY <3>2, <4>2 DEF AtItem
      <4> QED
        BY <4>1, <4>2
    <3>3. CASE loop'[p].item = loop[p].item /\ {loop[p].pc, loop'[p].pc} \subseteq AtItem \ {"take"}
      BY <1>4, <3>3 DEF LifeInv, AtItem
    <3> QED
      BY <3>1, <3>2, <3>3
  <2> QED
    BY <2>1, <2>2 DEF LifeInv
<1> QED
  BY <1>2, <1>5

(* A task that is to be skipped needs one that is not done. *)
LEMMA ToSkipIsBlocked ==
  ASSUME NEW q \in [Item -> ItemRecord], nextStep(q).do = "skip"
  PROVE  \E d \in q[nextStep(q).item].needs : q[d].st # "done"
<1> DEFINE can == {i \in Waiting(q) : Blocked(q, i) \/ Ready(q, i)}
<1>1. Answered(q) = {} /\ can # {}
  BY DEF nextStep, Nothing
<1>2. nextStep(q) = [do |-> IF Blocked(q, First(can)) THEN "skip" ELSE "run", item |-> First(can)]
  BY <1>1 DEF nextStep
<1>3. Blocked(q, nextStep(q).item)
  BY <1>2
<1> QED
  BY <1>3 DEF Blocked, NotListed

(* The loop reads the list, begins or ends. *)
LEMMA LifeWhileTheLoopReads ==
  ASSUME OperatorWaits, IInv, LifeInv, NEW p \in Press,
         \/ PressRun(p) \/ StartLoop(p) \/ LoopSeesTheEnd(p) \/ LoopEnds(p)
         \/ LoopFindsOneToSkip(p) \/ LoopFindsOneToRun(p)
  PROVE  LifeInv' /\ UNCHANGED Promise!lvars
<1>1. /\ items' = items /\ items \in [Item -> ItemRecord] /\ loop \in [Press -> LoopRecord]
      /\ loop[p] \in LoopRecord
  BY DEF IInv, TypeOK, PressRun, StartLoop, LoopSeesTheEnd, LoopEnds, LoopFindsOneToSkip,
         LoopFindsOneToRun, LoopOnly
<1>2. loop[p].pc \notin AtItem
  BY DEF PressRun, StartLoop, LoopSeesTheEnd, LoopEnds, LoopFindsOneToSkip, LoopFindsOneToRun, AtItem
<1>3. \/ loop'[p].pc \notin AtItem \cup {"skip"}
      \/ /\ loop'[p].pc = "skip" /\ loop'[p].item = nextStep(items).item
         /\ nextStep(items).do = "skip"
      \/ /\ loop'[p].pc = "take" /\ loop'[p].item = nextStep(items).item
         /\ nextStep(items).do = "run"
  <2>1. CASE PressRun(p) \/ StartLoop(p)
    BY <1>1, <2>1 DEF PressRun, StartLoop, LoopRecord, AtItem
  <2>2. CASE LoopSeesTheEnd(p) \/ LoopEnds(p)
    BY <1>1, <2>2 DEF LoopSeesTheEnd, LoopEnds, Idle, AtItem
  <2>3. CASE LoopFindsOneToSkip(p)
    BY <1>1, <2>3 DEF LoopFindsOneToSkip, Idle
  <2>4. CASE LoopFindsOneToRun(p)
    BY <1>1, <2>4 DEF LoopFindsOneToRun
  <2> QED
    BY <2>1, <2>2, <2>3, <2>4
<1>4. \A i \in Item : ~InLoop(loop, i) /\ ~InLoop(loop', i)
  BY <1>2, <1>3, HasTheLoop DEF AtWorkOn, AtItem
<1>5. UNCHANGED Promise!lvars
  BY <1>1, <1>4, LifeIs, LifeStutters DEF LifeOf
<1>6. LifeInv'
  <2>1. \A q \in Press : q = p
    BY OneLoop
  <2>2. nextStep(items).do # "nothing" => items[nextStep(items).item].st = "waiting"
    BY <1>1, NextStepIsWaiting
  <2>3. nextStep(items).do = "skip" => \E d \in items[nextStep(items).item].needs : items[d].st # "done"
    BY <1>1, ToSkipIsBlocked
  <2> QED
    BY <1>1, <1>3, <2>1, <2>2, <2>3 DEF LifeInv, AtItem
<1> QED
  BY <1>5, <1>6

(* The loop goes on with the task it is at. *)
LEMMA LifeWhileTheLoopWorks ==
  ASSUME OperatorWaits, IInv, LifeInv, NEW p \in Press,
         \/ StoppedBeforeItBegan(p) \/ CannotBegin(p) \/ PollSeesClosing(p) \/ Collects(p)
         \/ MakesChat(p) \/ NamesChat(p) \/ CarriesOn(p) \/ StartsRun(p) \/ PollStops(p)
  PROVE  LifeInv' /\ UNCHANGED Promise!lvars
<1>1. /\ items \in [Item -> ItemRecord] /\ \A j \in Item : items[j] \in ItemRecord
      /\ loop \in [Press -> LoopRecord] /\ loop[p] \in LoopRecord
      /\ loop[p].pc \in AtItem \cup {"skip"} => loop[p].item \in Item
  BY DEF IInv, TypeOK
<1>2. /\ loop[p].pc \in AtItem \ {"take"}
      /\ loop'[p].item = loop[p].item /\ loop'[p].pc \in AtItem \ {"take"}
  <2>1. CASE \/ StoppedBeforeItBegan(p) \/ CannotBegin(p) \/ PollSeesClosing(p) \/ Collects(p)
    BY <1>1, <2>1 DEF StoppedBeforeItBegan, CannotBegin, PollSeesClosing, Collects, Ends, LoopRecord, AtItem
  <2>2. CASE \/ MakesChat(p) \/ NamesChat(p) \/ StartsRun(p) \/ PollStops(p)
    BY <1>1, <2>2 DEF MakesChat, NamesChat, StartsRun, PollStops, LoopRecord, AtItem
  <2>3. CASE CarriesOn(p)
    BY <1>1, <2>3 DEF CarriesOn, Ends, LoopRecord, AtItem
  <2> QED
    BY <2>1, <2>2, <2>3
<1>3. \A i \in Item : items'[i].st = items[i].st /\ items'[i].needs = items[i].needs
  <2>1. CASE NamesChat(p)
    <3> DEFINE r == [items[loop[p].item] EXCEPT !.chat = loop[p].chat]
    <3>1. items' = setQueueItem(items, loop[p].item, r)
      BY <2>1 DEF NamesChat
    <3>2. loop[p].item \in Item
      BY <1>1, <1>2
    <3>3. r.st = items[loop[p].item].st /\ r.needs = items[loop[p].item].needs
      BY <1>1, <3>2 DEF ItemRecord
    <3> HIDE DEF r
    <3> QED
      BY <1>1, <3>1, <3>2, <3>3 DEF setQueueItem
  <2>2. CASE ~NamesChat(p)
    BY <2>2 DEF StoppedBeforeItBegan, CannotBegin, PollSeesClosing, Collects, LoopOnly, MakesChat,
                CarriesOn, StartsRun, PollStops
  <2> QED
    BY <2>1, <2>2
<1>4. \A i \in Item : InLoop(loop', i) <=> InLoop(loop, i)
  BY <1>2, HasTheLoop DEF AtWorkOn
<1>5. \A q \in Press : q = p
  BY OneLoop
<1> QED
  BY <1>2, <1>3, <1>4, <1>5, LifeIsLeft DEF IInv

(* One task's life changes: the others keep their status and their loop. *)
LEMMA LifeOfTheOthers ==
  ASSUME NEW t \in Item,
         \A i \in Item : items'[i].needs = items[i].needs,
         \A i \in Item : i # t => items'[i].st = items[i].st /\ (InLoop(loop', i) <=> InLoop(loop, i))
  PROVE  Promise!Becomes(t, LifeOf(items'[t].st, loop', t))
<1>1. \A i \in Item : i # t => Life(i)' = Life(i)
  BY LifeIs DEF LifeOf
<1>2. Life(t)' = LifeOf(items'[t].st, loop', t)
  BY LifeIs
<1> HIDE DEF LifeOf
<1> QED
  BY <1>1, <1>2, LifeBecomes

LEMMA LifeTaken ==
  ASSUME OperatorWaits, IInv, IInv', LifeInv, NEW p \in Press, LoopTakes(p)
  PROVE  LifeInv' /\ [Promise!Next]_(Promise!lvars)
<1> DEFINE t == loop[p].item
           r == [items[t] EXCEPT !.st = "running", !.resume = FALSE,
                                 !.chat = IF loop[p].resume THEN @ ELSE NoChat]
<1>1. /\ items \in [Item -> ItemRecord] /\ \A j \in Item : items[j] \in ItemRecord
      /\ loop \in [Press -> LoopRecord] /\ loop[p] \in LoopRecord
      /\ loop[p].pc = "take" /\ t \in Item
  BY DEF IInv, TypeOK, LoopTakes, AtItem
<1>2. items[t].st = "waiting" /\ t # 0
  BY <1>1 DEF LifeInv, Item
<1>3. items' = setQueueItem(items, t, r) /\ loop' = [loop EXCEPT ![p].pc = "begin"]
  BY DEF LoopTakes
<1>4. r.st = "running" /\ r.needs = items[t].needs
  BY <1>1 DEF ItemRecord
<1>5. loop'[p].pc = "begin" /\ loop'[p].item = t
  BY <1>1, <1>3 DEF LoopRecord
<1>6. Settled(t)
  BY <1>1 DEF IInv, Kept, LoopInv, LoopAt, AtItem
<1> HIDE DEF t, r
<1>7. /\ items'[t].st = "running" /\ items'[t].needs = items[t].needs
      /\ \A i \in Item : i # t => items'[i] = items[i]
  BY <1>1, <1>2, <1>3, <1>4 DEF setQueueItem, NotListed
<1>8. /\ \A i \in Item : ~InLoop(loop, i)
      /\ \A i \in Item : InLoop(loop', i) <=> i = t
  BY <1>1, <1>5, HasTheLoop DEF AtWorkOn, AtItem, t
<1>9. Promise!Becomes(t, "running")
  <2>1. LifeOf(items'[t].st, loop', t) = "running"
    BY <1>1, <1>7, <1>8 DEF LifeOf, NotListed
  <2> QED
    BY <1>1, <1>7, <1>8, <2>1, LifeOfTheOthers
<1>10. Promise!Begins(t)
  <2>1. Life(t) = "waiting" /\ \A i \in Item : Life(i) # "running"
    <3>1. \A i \in Item : Life(i) = LifeOf(items[i].st, loop, i)
      BY LifeIs
    <3> QED
      BY <1>1, <1>2, <1>8, <3>1 DEF LifeOf
  <2>2. \A d \in items[t].needs : d \in Item /\ Life(d) = "done"
    <3>1. \A d \in items[t].needs : d \in Item /\ items[d].st = "done"
      BY <1>1, <1>6 DEF Settled, LifeInv, ItemRecord
    <3> QED
      BY <1>8, <3>1, LifeIs DEF LifeOf
  <2> QED
    BY <1>1, <1>9, <2>1, <2>2 DEF Promise!Begins, Promise!Idle, Promise!Met
<1>11. LifeInv'
  <2>1. \A q \in Press : q = p
    BY OneLoop
  <2> QED
    BY <1>1, <1>5, <1>7, <2>1 DEF LifeInv, AtItem
<1> QED
  BY <1>1, <1>10, <1>11 DEF Promise!Next

LEMMA LifeSkipped ==
  ASSUME OperatorWaits, IInv, IInv', LifeInv, NEW p \in Press, LoopSkips(p)
  PROVE  LifeInv' /\ [Promise!Next]_(Promise!lvars)
<1> DEFINE t == loop[p].item
           r == [items[t] EXCEPT !.st = "skipped"]
<1>1. /\ items \in [Item -> ItemRecord] /\ \A j \in Item : items[j] \in ItemRecord
      /\ loop \in [Press -> LoopRecord]
      /\ loop[p].pc = "skip" /\ t \in Item
  BY DEF IInv, TypeOK, LoopSkips
<1>2. items[t].st = "waiting" /\ \E d \in items[t].needs : items[d].st # "done"
  BY <1>1 DEF LifeInv
<1>3. items' = setQueueItem(items, t, r) /\ loop' = [loop EXCEPT ![p] = [Idle EXCEPT !.pc = "read"]]
  BY DEF LoopSkips
<1>4. r.st = "skipped" /\ r.needs = items[t].needs
  BY <1>1 DEF ItemRecord
<1>5. loop'[p].pc = "read"
  BY <1>1, <1>3 DEF Idle
<1> HIDE DEF t, r
<1>7. /\ items'[t].st = "skipped" /\ items'[t].needs = items[t].needs
      /\ \A i \in Item : i # t => items'[i] = items[i]
  BY <1>1, <1>2, <1>3, <1>4 DEF setQueueItem, NotListed
<1>8. \A i \in Item : ~InLoop(loop, i) /\ ~InLoop(loop', i)
  BY <1>1, <1>5, HasTheLoop DEF AtWorkOn, AtItem
<1>9. Promise!Becomes(t, "skipped")
  <2>1. LifeOf(items'[t].st, loop', t) = "skipped"
    BY <1>1, <1>7, <1>8 DEF LifeOf
  <2> QED
    BY <1>1, <1>7, <1>8, <2>1, LifeOfTheOthers
<1>10. Promise!Skipped(t)
  <2>1. Life(t) = "waiting"
    BY <1>1, <1>2, <1>8, LifeIs DEF LifeOf
  <2>2. \E d \in items[t].needs : d \in Item /\ Life(d) # "done"
    <3>1. PICK d \in items[t].needs : items[d].st # "done"
      BY <1>2
    <3>2. d \in Item
      BY <1>1, <3>1 DEF ItemRecord
    <3>3. Life(d) = LifeOf(items[d].st, loop, d)
      BY <3>2, LifeIs
    <3> QED
      BY <1>8, <3>1, <3>2, <3>3 DEF LifeOf
  <2> QED
    BY <1>1, <1>9, <2>1, <2>2 DEF Promise!Skipped, Promise!Met
<1>11. LifeInv'
  <2>1. \A q \in Press : q = p
    BY OneLoop
  <2> QED
    BY <1>1, <1>5, <1>7, <2>1 DEF LifeInv, AtItem
<1> QED
  BY <1>1, <1>10, <1>11 DEF Promise!Next

LEMMA LifeWritten ==
  ASSUME OperatorWaits, IInv, IInv', LifeInv, NEW p \in Press, LoopWrites(p)
  PROVE  LifeInv' /\ [Promise!Next]_(Promise!lvars)
<1> DEFINE t == loop[p].item
           r == [items[t] EXCEPT !.st = loop[p].end,
                                 !.chat = IF loop[p].chat = NoChat THEN @ ELSE loop[p].chat]
<1>1. /\ items \in [Item -> ItemRecord] /\ \A j \in Item : items[j] \in ItemRecord
      /\ loop \in [Press -> LoopRecord]
      /\ loop[p].pc = "write" /\ t \in Item
      /\ loop[p].end \in {"done", "failed", "stopped", "parked"}
  BY DEF IInv, TypeOK, LoopWrites, AtItem
<1>2. items[t].st \in {"running", "stopped", "waiting"}
  BY <1>1 DEF LifeInv, AtItem
<1>3. /\ items' = setQueueItem(items, t, r)
      /\ loop' = [loop EXCEPT ![p] = [Idle EXCEPT !.pc = IF loop[p].end = "stopped" THEN "ending" ELSE "read"]]
  BY DEF LoopWrites
<1>4. r.st = loop[p].end /\ r.needs = items[t].needs
  BY <1>1 DEF ItemRecord
<1>5. loop'[p].pc \in {"ending", "read"}
  BY <1>1, <1>3 DEF Idle
<1>6. InLoop(loop, t) /\ \A i \in Item : i # t => ~InLoop(loop, i)
  BY <1>1, HasTheLoop DEF AtWorkOn, AtItem
<1> HIDE DEF t, r
<1>7. /\ items'[t].st = loop[p].end /\ items'[t].needs = items[t].needs
      /\ \A i \in Item : i # t => items'[i] = items[i]
  BY <1>1, <1>2, <1>3, <1>4 DEF setQueueItem, NotListed
<1>8. \A i \in Item : ~InLoop(loop', i)
  BY <1>5, HasTheLoop DEF AtWorkOn, AtItem
<1>9. Promise!Becomes(t, loop[p].end)
  <2>1. LifeOf(items'[t].st, loop', t) = loop[p].end
    BY <1>1, <1>7, <1>8 DEF LifeOf
  <2> QED
    BY <1>1, <1>6, <1>7, <1>8, <2>1, LifeOfTheOthers
<1>10. Promise!Finishes(t)
  <2>1. Life(t) = "running"
    BY <1>1, <1>2, <1>6, LifeIs DEF LifeOf, NotListed
  <2>2. \A i \in Item : i = t => Life(i)' = loop[p].end
    BY <1>1, <1>7, <1>8, LifeIs DEF LifeOf
  <2> QED
    BY <1>1, <1>9, <2>1, <2>2 DEF Promise!Finishes, Promise!Ends
<1>11. LifeInv'
  <2>1. \A q \in Press : q = p
    BY OneLoop
  <2> QED
    BY <1>1, <1>5, <1>7, <2>1 DEF LifeInv, AtItem
<1> QED
  BY <1>1, <1>10, <1>11 DEF Promise!Next

(* An edit that takes nothing out adds a task or puts one back to wait. *)
LEMMA LifeOfTheList ==
  ASSUME OperatorWaits, NoneTakenOut, IInv, IInv', LifeInv, PageSteps
  PROVE  LifeInv' /\ [Promise!Next]_(Promise!lvars)
<1>1. PICK t \in Item, n \in SUBSET Item : AddTask(t, n) \/ RunAgain(t)
  BY DEF PageSteps, TakeOut, ChangeNeeds, NoneTakenOut
<1>2. /\ items \in [Item -> ItemRecord] /\ \A j \in Item : items[j] \in ItemRecord
      /\ \A p \in Press : loop[p].pc \in AtItem \cup {"skip"} =>
           loop[p].item \in Item /\ items[loop[p].item].st # "absent"
      /\ \A j \in Item : items[j].st # "gone" /\ (items[j].st = "absent" => items[j].needs = {})
  BY DEF IInv, TypeOK, Kept, LoopInv, LoopAt, LifeInv
<1> DEFINE e0 == [list |-> Listed(items), needs |-> [j \in Item |-> items[j].needs], again |-> {}]
<1>3. CASE AddTask(t, n)
  <2> DEFINE e == [e0 EXCEPT !.list = @ \cup {t}, !.needs[t] = n]
  <2>1. Save(e) /\ items[t].st = "absent"
    BY <1>3 DEF AddTask, AsEdit
  <2>2. /\ e.list = Listed(items) \cup {t} /\ e.again = {} /\ e.needs[t] = n
        /\ \A j \in Item : j # t => e.needs[j] = items[j].needs
    OBVIOUS
  <2> HIDE DEF e
  <2>3. items' = mergeItems(items, e) /\ loop' = loop
    BY <2>1 DEF Save
  <2>4. items'[t] = NewTask(n)
    BY <1>2, <2>1, <2>2, <2>3 DEF mergeItems, NotListed
  <2>5. ASSUME NEW j \in Item, j # t
        PROVE  items'[j].st = items[j].st /\ items'[j].needs = items[j].needs
    <3>1. CASE items[j].st = "absent"
      <4>1. j \notin e.list
        BY <2>2, <2>5, <3>1 DEF Listed, NotListed
      <4>2. items'[j] = Absent("absent")
        BY <2>3, <3>1, <4>1 DEF mergeItems
      <4> QED
        BY <1>2, <3>1, <4>2 DEF Absent
    <3>2. CASE items[j].st # "absent"
      <4>1. j \in e.list /\ items[j].st \notin NotListed
        BY <1>2, <2>2, <3>2 DEF Listed, NotListed
      <4>2. items'[j] = items[j] \/ items'[j] = [items[j] EXCEPT !.needs = items[j].needs]
        BY <2>2, <2>3, <2>5, <4>1 DEF mergeItems
      <4> QED
        BY <1>2, <4>2 DEF ItemRecord
    <3> QED
      BY <3>1, <3>2
  <2>6. items'[t].st = "waiting" /\ items'[t].needs = n
    BY <2>4 DEF NewTask
  <2>7. ~InLoop(loop, t)
    BY <1>2, <2>1 DEF InLoop, AtWorkOn
  <2>8. Promise!Added(t)
    <3>1. Life(t) = "absent" /\ Life(t)' = "waiting"
      BY <2>1, <2>3, <2>6, <2>7, LifeIs DEF LifeOf
    <3>2. \A i \in Item : i # t => Life(i)' = Life(i)
      BY <2>3, <2>5, LifeIs DEF LifeOf
    <3> QED
      BY <2>5, <2>6, <3>1, <3>2 DEF Promise!Added
  <2>9. LifeInv'
    <3>1. \A i \in Item : items'[i].st # "gone" /\ (items'[i].st = "absent" => items'[i].needs = {})
      BY <1>2, <2>5, <2>6
    <3>2. \A p \in Press : loop[p].pc \in AtItem \cup {"skip"} => loop[p].item # t
      BY <1>2, <2>1
    <3>3. \A j \in Item : j # t => items[j].needs \subseteq Item
      BY <1>2 DEF ItemRecord
    <3>4. \A j \in Item : items[j].st # "done" => items'[j].st # "done"
      BY <2>5, <2>6
    <3> QED
      BY <1>2, <2>3, <2>5, <3>1, <3>2, <3>3, <3>4 DEF LifeInv, AtItem
  <2> QED
    BY <2>8, <2>9 DEF Promise!Next
<1>4. CASE RunAgain(t)
  <2> DEFINE e == [e0 EXCEPT !.again = {t}]
  <2>1. Save(e) /\ items[t].st \in {"failed", "skipped", "stopped"}
    BY <1>4 DEF RunAgain, AsEdit, OperatorWaits
  <2>2. /\ e.list = Listed(items) /\ e.again = {t}
        /\ \A j \in Item : e.needs[j] = items[j].needs
    OBVIOUS
  <2> HIDE DEF e
  <2>3. items' = mergeItems(items, e) /\ loop' = loop
    BY <2>1 DEF Save
  <2>4. items'[t] = NewTask(items[t].needs)
    BY <1>2, <2>1, <2>2, <2>3 DEF mergeItems, Listed, NotListed
  <2>5. ASSUME NEW j \in Item, j # t
        PROVE  items'[j].st = items[j].st /\ items'[j].needs = items[j].needs
    <3>1. CASE items[j].st = "absent"
      <4>1. j \notin e.list
        BY <2>2, <3>1 DEF Listed, NotListed
      <4>2. items'[j] = Absent("absent")
        BY <2>3, <3>1, <4>1 DEF mergeItems
      <4> QED
        BY <1>2, <3>1, <4>2 DEF Absent
    <3>2. CASE items[j].st # "absent"
      <4>1. j \in e.list /\ items[j].st \notin NotListed
        BY <1>2, <2>2, <3>2 DEF Listed, NotListed
      <4>2. items'[j] = items[j] \/ items'[j] = [items[j] EXCEPT !.needs = items[j].needs]
        BY <2>2, <2>3, <2>5, <4>1 DEF mergeItems
      <4> QED
        BY <1>2, <4>2 DEF ItemRecord
    <3> QED
      BY <3>1, <3>2
  <2>6. items'[t].st = "waiting" /\ items'[t].needs = items[t].needs
    BY <2>4 DEF NewTask
  <2>7. \A i \in Item : i # t => Life(i)' = Life(i)
    BY <2>3, <2>5, LifeIs DEF LifeOf
  <2>8. \A i \in Item : items'[i].needs = items[i].needs
    BY <2>5, <2>6
  <2>9. [Promise!Next]_(Promise!lvars)
    <3>1. CASE InLoop(loop, t)
      <4>1. Life(t)' = Life(t)
        BY <2>1, <2>3, <2>6, <3>1, LifeIs DEF LifeOf, NotListed
      <4> QED
        BY <2>7, <2>8, <4>1, LifeStutters
    <3>2. CASE ~InLoop(loop, t)
      <4>1. Life(t) \in {"failed", "skipped", "stopped"} /\ Life(t)' = "waiting"
        BY <2>1, <2>3, <2>6, <3>2, LifeIs DEF LifeOf
      <4>2. Promise!Becomes(t, "waiting")
        BY <2>7, <2>8, <4>1, LifeBecomes
      <4>3. Promise!PutBack(t)
        BY <4>1, <4>2 DEF Promise!PutBack
      <4> QED
        BY <4>3 DEF Promise!Next
    <3> QED
      BY <3>1, <3>2
  <2>10. LifeInv'
    <3>1. \A i \in Item : items'[i].st # "gone" /\ (items'[i].st = "absent" => items'[i].needs = {})
      BY <1>2, <2>5, <2>6
    <3>2. \A j \in Item : items[j].needs \subseteq Item
      BY <1>2 DEF ItemRecord
    <3>3. \A j \in Item : /\ items[j].st # "done" => items'[j].st # "done"
                          /\ items[j].st = "waiting" => items'[j].st = "waiting"
                          /\ items[j].st \in {"running", "stopped", "waiting"}
                               => items'[j].st \in {"running", "stopped", "waiting"}
      BY <2>5, <2>6
    <3> QED
      BY <1>2, <2>3, <2>8, <3>1, <3>2, <3>3 DEF LifeInv, AtItem
  <2> QED
    BY <2>9, <2>10
<1> QED
  BY <1>1, <1>3, <1>4

(* A parked task is stopped at its card, or answered. *)
LEMMA LifeAnswered ==
  ASSUME IInv, IInv', LifeInv, NEW t \in Item, StopAtCard(t) \/ AnswerQueues(t)
  PROVE  LifeInv' /\ [Promise!Next]_(Promise!lvars)
<1>1. /\ items \in [Item -> ItemRecord] /\ \A j \in Item : items[j] \in ItemRecord
      /\ \A p \in Press : loop[p].pc \in AtItem \cup {"skip"} =>
           loop[p].item \in Item /\ items[loop[p].item].st # "parked"
      /\ loop' = loop
  BY DEF IInv, TypeOK, Kept, LoopInv, LoopAt, StopAtCard, AnswerQueues, AnswerOnly
<1>2. items[t].st = "parked"
  BY DEF StopAtCard, AnswerQueues, IInv, Kept, ItemInv, LifeInv
<1>3. /\ items'[t].st \in {"waiting", "stopped"} /\ items'[t].needs = items[t].needs
      /\ \A j \in Item : j # t => items'[j] = items[j]
  <2>1. CASE StopAtCard(t)
    BY <1>1, <2>1 DEF StopAtCard, ItemRecord
  <2>2. CASE AnswerQueues(t)
    <3> DEFINE r == [items[t] EXCEPT !.st = "waiting", !.resume = TRUE]
    <3>1. r.st = "waiting" /\ r.needs = items[t].needs /\ items' = setQueueItem(items, t, r)
      BY <1>1, <2>2 DEF AnswerQueues, ItemRecord
    <3> HIDE DEF r
    <3> QED
      BY <1>1, <1>2, <3>1 DEF setQueueItem, NotListed
  <2> QED
    BY <2>1, <2>2
<1>4. ~InLoop(loop, t)
  BY <1>1, <1>2 DEF InLoop, AtWorkOn
<1>5. Life(t) = "parked" /\ Life(t)' = items'[t].st
  BY <1>1, <1>2, <1>3, <1>4, LifeIs DEF LifeOf
<1>6. Promise!Becomes(t, items'[t].st)
  BY <1>1, <1>3, <1>5, LifeIs, LifeBecomes DEF LifeOf
<1>7. Promise!IsAnswered(t)
  BY <1>3, <1>5, <1>6 DEF Promise!IsAnswered
<1>8. LifeInv'
  <2>1. \A i \in Item : items'[i].st # "gone" /\ (items'[i].st = "absent" => items'[i].needs = {})
    BY <1>3 DEF LifeInv
  <2>2. \A p \in Press : loop[p].pc \in AtItem \cup {"skip"} => loop[p].item # t
    BY <1>1, <1>2
  <2>3. \A j \in Item : /\ items[j].needs \subseteq Item
                        /\ items[j].st # "done" => items'[j].st # "done"
    BY <1>1, <1>3 DEF ItemRecord
  <2> QED
    BY <1>1, <1>3, <2>1, <2>2, <2>3 DEF LifeInv, AtItem
<1> QED
  BY <1>7, <1>8 DEF Promise!Next

(* The bot dies: the task its loop was at was stopped, or waits if it was  *)
(* put back since.                                                          *)
LEMMA LifeOfADeadBot ==
  ASSUME OperatorWaits, IInv, IInv', LifeInv, Crash
  PROVE  LifeInv' /\ [Promise!Next]_(Promise!lvars)
<1>1. items' = items /\ \A p \in Press : loop'[p].pc = "off"
  BY DEF Crash, Idle
<1>2. \A i \in Item : ~InLoop(loop', i)
  BY <1>1 DEF InLoop, AtWorkOn, AtItem
<1>3. LifeInv'
  BY <1>1 DEF LifeInv, AtItem
<1>4. CASE \E t \in Item : InLoop(loop, t)
  <2>1. PICK p \in Press, t \in Item : AtWorkOn(loop[p], t)
    BY <1>4 DEF InLoop
  <2>2. InLoop(loop, t) /\ \A i \in Item : i # t => ~InLoop(loop, i)
    BY <2>1, HasTheLoop DEF AtWorkOn
  <2>3. items[t].st \in {"running", "stopped", "waiting"}
    BY <2>1 DEF LifeInv, AtWorkOn
  <2>4. Life(t) = "running" /\ Life(t)' \in {"stopped", "waiting"}
    BY <1>1, <1>2, <2>2, <2>3, LifeIs DEF LifeOf, NotListed
  <2>5. Promise!Becomes(t, LifeOf(items'[t].st, loop', t))
    BY <1>1, <1>2, <2>2, LifeOfTheOthers
  <2>6. LifeOf(items'[t].st, loop', t) = Life(t)'
    BY LifeIs
  <2>7. CASE Life(t)' = "stopped"
    <3>1. Promise!Becomes(t, "stopped")
      BY <2>5, <2>6, <2>7
    <3>2. Promise!Finishes(t)
      BY <2>4, <2>7, <3>1 DEF Promise!Finishes, Promise!Ends
    <3> QED
      BY <1>3, <3>2 DEF Promise!Next
  <2>8. CASE Life(t)' = "waiting"
    <3>1. Promise!Becomes(t, "waiting")
      BY <2>5, <2>6, <2>8
    <3>2. Promise!Abandoned(t)
      BY <2>4, <3>1 DEF Promise!Abandoned
    <3> QED
      BY <1>3, <3>2 DEF Promise!Next
  <2> QED
    BY <2>4, <2>7, <2>8
<1>5. CASE \A t \in Item : ~InLoop(loop, t)
  <2>1. UNCHANGED Promise!lvars
    BY <1>1, <1>2, <1>5, LifeIs, LifeStutters DEF LifeOf
  <2> QED
    BY <1>3, <2>1
<1> QED
  BY <1>4, <1>5

(* The bot, started again, says that what ran was stopped. *)
LEMMA LifeRecovered ==
  ASSUME IInv, IInv', LifeInv, RecoverWrites
  PROVE  LifeInv' /\ UNCHANGED Promise!lvars
<1>1. /\ \A j \in Item : items[j] \in ItemRecord
      /\ loop' = loop
      /\ \A p \in Press : loop[p].pc \in AtItem \cup {"skip"} => loop[p].item \in Item
  BY DEF IInv, TypeOK, RecoverWrites, RecoverOnly
<1>2. \A i \in Item : /\ items'[i].st = IF items[i].st = "running" THEN "stopped" ELSE items[i].st
                      /\ items'[i].needs = items[i].needs
  BY <1>1 DEF RecoverWrites, ItemRecord
<1>3. \A i \in Item : Life(i)' = Life(i)
  BY <1>1, <1>2, LifeIs DEF LifeOf, NotListed
<1>4. UNCHANGED Promise!lvars
  BY <1>2, <1>3, LifeStutters
<1>5. LifeInv'
  <2>1. \A j \in Item : /\ items[j].needs \subseteq Item
                        /\ items[j].st # "done" => items'[j].st # "done"
    BY <1>1, <1>2 DEF ItemRecord
  <2> QED
    BY <1>1, <1>2, <2>1 DEF LifeInv, AtItem
<1> QED
  BY <1>4, <1>5

(* Every step of the queue is one of QueueLife, or none. *)
LEMMA LifeStep ==
  ASSUME OperatorWaits, NoneTakenOut, IInv, IInv', LifeInv, [Next]_vars
  PROVE  LifeInv' /\ [Promise!Next]_(Promise!lvars)
<1>1. ASSUME UNCHANGED <<items, loop>>
      PROVE  LifeInv' /\ [Promise!Next]_(Promise!lvars)
  BY <1>1, LifeIsLeft DEF IInv
<1>2. ASSUME NEW p \in Press, PressRun(p) \/ LoopSteps(p)
      PROVE  LifeInv' /\ [Promise!Next]_(Promise!lvars)
  BY <1>2, LifeWhileTheLoopReads, LifeWhileTheLoopWorks, LifeTaken, LifeSkipped, LifeWritten DEF LoopSteps
<1>3. ASSUME NEW i \in Item, AnswerSteps(i)
      PROVE  LifeInv' /\ [Promise!Next]_(Promise!lvars)
  <2>1. CASE AnswerRecords(i)
    BY <1>1, <2>1 DEF AnswerRecords, AnswerOnly
  <2> QED
    BY <1>3, <2>1, LifeAnswered DEF AnswerSteps
<1>4. CASE RecoverReads \/ StopQueue \/ OtherTakes \/ OtherReleases \/ Close \/ UNCHANGED vars
  BY <1>1, <1>4 DEF RecoverReads, RecoverOnly, StopQueue, OtherTakes, OtherReleases, RunOnly, Close, vars
<1>5. CASE \E c \in Chat : \/ RunAsks(c) \/ OperatorAnswers(c) \/ OperatorStopsChat(c)
                           \/ \E how \in Over : RunEnds(c, how)
                           \/ BrowserReleased(c) \/ ParkSteps(c)
  BY <1>1, <1>5 DEF RunAsks, OperatorAnswers, OperatorStopsChat, RunEnds, RunOnly,
                     BrowserReleased, ParkSteps, ParkFires, ParkKeepsCard, ParkStops, ParkOnly
<1>6. CASE PageSteps
  BY <1>6, LifeOfTheList
<1>7. CASE Crash
  BY <1>7, LifeOfADeadBot
<1>8. CASE RecoverWrites
  BY <1>8, LifeRecovered
<1>9. CASE \E p \in Press : PressRun(p) \/ LoopSteps(p)
  BY <1>2, <1>9
<1>10. CASE \E i \in Item : AnswerSteps(i)
  BY <1>3, <1>10
<1> QED
  BY <1>4, <1>5, <1>6, <1>7, <1>8, <1>9, <1>10 DEF Next

LEMMA LifeInit ==
  ASSUME Init
  PROVE  LifeInv /\ Promise!Init
<1>1. PICK needs \in [Item -> SUBSET Start] :
        /\ \A i \in Item \ Start : needs[i] = {}
        /\ items = [i \in Item |-> IF i \in Start THEN NewTask(needs[i]) ELSE Absent("absent")]
  BY DEF Init
<1>2. \A i \in Item : /\ items[i].st \in {"waiting", "absent"} /\ items[i].needs \in SUBSET Item
                      /\ items[i].st = "absent" => items[i].needs = {}
  BY <1>1, QueueConstants DEF NewTask, Absent
<1>3. \A p \in Press : loop[p].pc = "off"
  BY DEF Init, Idle
<1>4. LifeInv
  BY <1>2, <1>3 DEF LifeInv, AtItem
<1>5. \A i \in Item : Life(i) \in {"waiting", "absent"}
  BY <1>2, <1>3, LifeIs DEF LifeOf, InLoop, AtWorkOn, AtItem
<1> QED
  BY <1>2, <1>4, <1>5 DEF Promise!Init

(***************************************************************************)
(* The queue keeps QueueLife's promise, as long as presses of Run wait for *)
(* one another and no task is taken out: one task at work at a time, none  *)
(* before the ones it needs, none skipped while all it needs are done, and *)
(* each one's life is as told, whatever is added, answered, stopped, put   *)
(* back or killed.                                                         *)
(***************************************************************************)
THEOREM LivesAsPromised == OperatorWaits /\ NoneTakenOut => (Spec => ImplementsQueueLife)
<1> SUFFICES ASSUME OperatorWaits, NoneTakenOut PROVE Spec => ImplementsQueueLife
  OBVIOUS
<1>1. Init => LifeInv /\ Promise!Init
  BY LifeInit
<1>2. IInv /\ IInv' /\ LifeInv /\ [Next]_vars => LifeInv' /\ [Promise!Next]_(Promise!lvars)
  BY LifeStep
<1>3. Spec => []IInv
  BY Inductive
<1> QED
  BY <1>1, <1>2, <1>3, PTL DEF Spec, ImplementsQueueLife, Promise!Spec
=============================================================================
