------------------------------ MODULE ChatSend ------------------------------
(***************************************************************************)
(* One conversation of the Copilot page and the messages the runner sends  *)
(* to it: the pacer, CopilotTransport.sendAndConfirm with its retries, and *)
(* waitForReply.  The page is not the runner's: a message clicked away may *)
(* land late or never, a blocker (a verification, an error banner) may     *)
(* come up at any moment, and the runner knows only what it reads - how    *)
(* many turns the page counts, the newest user message, and whether the    *)
(* newest answer has finished.                                             *)
(***************************************************************************)
EXTENDS Pacer, FiniteSets, SequencesExt

CONSTANTS
    Texts,          \* what messages may say
    HeadOf,         \* [Texts -> heads]: the first stretch of a text, all that is compared
    maxAttempts,    \* clicks of Send for one message
    ClicksLandInTime, \* no click of Send lands once the next attempt, or message, has looked
    MaxMessages,    \* bound: messages sent
    MaxBlockers,    \* bound: blockers that come up
    MaxTime         \* bound: ticks of the clock

Nothing == "nothing"   \* the newest user message of an empty conversation

ASSUME ChatAssumption ==
    /\ Nothing \notin Texts
    /\ maxAttempts \in Nat \ {0} /\ ClicksLandInTime \in BOOLEAN
    /\ MaxMessages \in Nat /\ MaxBlockers \in Nat /\ MaxTime \in Nat \ {0}

VARIABLES
    now,        \* the clock
    sentAt,     \* the pacer of the attempt at work
    lastSentAt, \* the program's last message
    passed,     \* history: when each message passed its pacer, and whose pacer that was
    sender,     \* the message being sent
    texts,      \* what each message so far says
    turns,      \* the conversation: the message of each turn
    finished,   \* the newest turn's answer has finished
    flight,     \* clicks of Send on their way: the message and the attempt
    counts,     \* the page says how many turns it has, even of those it does not show
    blocker,    \* something on the page only a person, or a reload, clears
    blockers,   \* blockers so far
    reply       \* history: the last reply, the message it was taken for and the one it answers

vars == <<now, sentAt, lastSentAt, passed, sender, texts, turns, finished, flight,
          counts, blocker, blockers, reply>>
pacing == <<now, sentAt, lastSentAt, passed>>
page == <<turns, finished, flight, counts, blocker, blockers>>

Steps == {"idle", "gap", "cap", "look", "clear", "click", "accept", "refused", "reply"}

Idle(pacer) ==
    [step |-> "idle", pacer |-> pacer, due |-> 0, attempt |-> 0, before |-> 0,
     shown |-> Nothing, baseline |-> Nothing, baseTurns |-> 0, sawNew |-> FALSE]

Init ==
    /\ now = 1
    /\ sentAt = <<>>
    /\ lastSentAt = NeverSent
    /\ passed = <<>>
    /\ sender = Idle(1)
    /\ texts = <<>>
    /\ turns = <<>>
    /\ finished = TRUE
    /\ flight = {}
    /\ counts \in BOOLEAN
    /\ blocker = FALSE
    /\ blockers = 0
    /\ reply = [to |-> 0, of |-> 0]

-----------------------------------------------------------------------------
Message == Len(texts)

\* What the page shows: a page that does not say its size shows a window that is full.
turnCount == IF counts THEN Len(turns) ELSE 0
lastUserTurnText == IF turns = <<>> THEN Nothing ELSE texts[Last(turns)]

(* Mutant: what the page showed before the message is not asked. *)
landedAtAnyTime(text, shownNow, shownBefore) ==
    shownNow # Nothing /\ HeadOf[shownNow] = HeadOf[text]

\* acceptance.ts: the newest user message changed, and begins as what was sent does.
landed(text, shownNow, shownBefore) ==
    /\ shownNow # Nothing
    /\ shownNow # shownBefore
    /\ HeadOf[shownNow] = HeadOf[text]

-----------------------------------------------------------------------------
(***************************************************************************)
(* The page.                                                               *)
(***************************************************************************)
Land == \E click \in flight :
    /\ flight' = flight \ {click}
    /\ turns' = Append(turns, click.message)
    /\ finished' = FALSE
    /\ UNCHANGED <<pacing, sender, texts, counts, blocker, blockers, reply>>

GetLost == \E click \in flight :
    /\ flight' = flight \ {click}
    /\ UNCHANGED <<pacing, sender, texts, turns, finished, counts, blocker, blockers, reply>>

AnswerFinishes ==
    /\ ~finished
    /\ finished' = TRUE
    /\ UNCHANGED <<pacing, sender, texts, turns, flight, counts, blocker, blockers, reply>>

BlockerComesUp ==
    /\ ~blocker /\ blockers < MaxBlockers
    /\ blocker' = TRUE
    /\ blockers' = blockers + 1
    /\ UNCHANGED <<pacing, sender, texts, turns, finished, flight, counts, reply>>

BlockerIsCleared ==
    /\ blocker
    /\ blocker' = FALSE
    /\ UNCHANGED <<pacing, sender, texts, turns, finished, flight, counts, blockers, reply>>

Waits == {"gap", "cap", "reply"}

Tick ==
    /\ now < MaxTime
    /\ sender.step \in Waits
    /\ now' = now + 1
    /\ UNCHANGED <<sentAt, lastSentAt, passed, sender, texts, page, reply>>

-----------------------------------------------------------------------------
(* Mutant: the time of the last message is the pacer's own. *)
runTaskForgets ==
    /\ sender.step = "idle" /\ sentAt # <<>>
    /\ sender' = Idle(sender.pacer + 1)
    /\ sentAt' = <<>> /\ lastSentAt' = NeverSent
    /\ UNCHANGED <<now, passed, texts, page, reply>>

(***************************************************************************)
(* The runner.                                                             *)
(***************************************************************************)
\* The page of a new chat: what was on its way lands, if at all, in the one left.
InNewChat ==
    /\ turns' = <<>> /\ flight' = {}
    /\ finished' = TRUE
    /\ UNCHANGED <<counts, blocker, blockers>>

(***************************************************************************)
(* An attempt at a task - the first, a continuation at a limit, one in a   *)
(* fresh chat; the lead's and each of its workers' likewise - has a pacer  *)
(* of its own, and goes on in the conversation there is or in a new one.   *)
(***************************************************************************)
runTask ==
    /\ sender.step = "idle" /\ sentAt # <<>>
    /\ sender' = Idle(sender.pacer + 1)
    /\ sentAt' = <<>>
    /\ InNewChat \/ UNCHANGED page
    /\ UNCHANGED <<now, lastSentAt, passed, texts, reply>>

NewMessage == \E text \in Texts, gap \in Gap :
    /\ sender.step = "idle"
    /\ Message < MaxMessages
    /\ texts' = Append(texts, text)
    /\ sender' = [sender EXCEPT !.step = "gap", !.due = GapOver(lastSentAt, gap)]
    /\ UNCHANGED <<pacing, page, reply>>

(***************************************************************************)
(* throttleSend, the pause over: what the cap asks for is worked out now.  *)
(* A message takes time, so that no two get here at one instant.           *)
(***************************************************************************)
GapIsOver ==
    /\ sender.step = "gap" /\ now >= sender.due
    /\ now > lastSentAt
    /\ \E n \in 0..Len(sentAt) :
          /\ ShiftedOff(sentAt, now, n)
          /\ sentAt' = SubSeq(sentAt, n + 1, Len(sentAt))
    /\ sender' = [sender EXCEPT !.step = "cap", !.due = CapOver(sentAt')]
    /\ UNCHANGED <<now, lastSentAt, passed, texts, page, reply>>

PassesPacer ==
    /\ sender.step = "cap" /\ now >= sender.due
    /\ sentAt' = Append(sentAt, now)
    /\ lastSentAt' = now
    /\ passed' = Append(passed, [at |-> now, pacer |-> sender.pacer])
    /\ sender' = [sender EXCEPT !.step = "look", !.due = 0, !.attempt = 1]
    /\ UNCHANGED <<now, texts, page, reply>>

\* From the message's acceptance on, its reply is waited for: a turn more than `before`.
Accepted(before) ==
    [Idle(sender.pacer) EXCEPT !.step = "reply", !.before = before, !.attempt = sender.attempt]

\* The clicks that may still land once the runner has looked.
StillInFlight == IF ClicksLandInTime THEN {} ELSE flight

(* Mutant: no attempt looks whether the one before it landed. *)
LookAtNothing ==
    /\ sender.step = "look"
    /\ sender' = [sender EXCEPT !.step = "clear", !.before = turnCount, !.shown = lastUserTurnText]
    /\ flight' = StillInFlight
    /\ UNCHANGED <<pacing, texts, turns, finished, counts, blocker, blockers, reply>>

(***************************************************************************)
(* Each attempt of sendAndConfirm looks first: a message that landed since *)
(* the first one began is not sent again.                                  *)
(***************************************************************************)
LookFirst ==
    /\ sender.step = "look"
    /\ sender' =
         IF sender.attempt > 1 /\ landed(texts[Message], lastUserTurnText, sender.baseline)
           THEN Accepted(sender.baseTurns)
         ELSE IF sender.attempt = 1
           THEN [sender EXCEPT !.step = "clear", !.before = turnCount, !.shown = lastUserTurnText,
                               !.baseTurns = turnCount, !.baseline = lastUserTurnText]
         ELSE [sender EXCEPT !.step = "clear", !.before = turnCount, !.shown = lastUserTurnText]
    /\ flight' = StillInFlight
    /\ UNCHANGED <<pacing, texts, turns, finished, counts, blocker, blockers, reply>>

\* The runner gives the message up: its attempt ends, and it may still land.
GivenUp == [Idle(sender.pacer) EXCEPT !.attempt = sender.attempt]

\* send's clearBlockers: past it when there is none, given up when it was not cleared in time.
ClearsBlockers ==
    /\ sender.step = "clear"
    /\ sender' = IF blocker THEN GivenUp ELSE [sender EXCEPT !.step = "click"]
    /\ UNCHANGED <<pacing, texts, page, reply>>

ClicksSend ==
    /\ sender.step = "click"
    /\ flight' = flight \cup {[message |-> Message, attempt |-> sender.attempt]}
    /\ sender' = [sender EXCEPT !.step = "accept"]
    /\ UNCHANGED <<pacing, texts, turns, finished, counts, blocker, blockers, reply>>

\* waitForAccepted, its polls: the conversation grew, or its newest message is this one.
SeesItAccepted ==
    /\ sender.step = "accept"
    /\ turnCount > sender.before \/ landed(texts[Message], lastUserTurnText, sender.shown)
    /\ sender' = Accepted(sender.before)
    /\ UNCHANGED <<pacing, texts, page, reply>>

\* A blocker, or thirty seconds without it: not accepted.
SeesItRefused ==
    /\ sender.step = "accept"
    /\ sender' = [sender EXCEPT !.step = "refused"]
    /\ UNCHANGED <<pacing, texts, page, reply>>

\* Tried again once no blocker is left, unless it was the last attempt.
TriesAgain ==
    /\ sender.step = "refused"
    /\ sender' = IF blocker \/ sender.attempt = maxAttempts THEN GivenUp
                 ELSE [sender EXCEPT !.step = "look", !.attempt = @ + 1]
    /\ UNCHANGED <<pacing, texts, page, reply>>

(***************************************************************************)
(* A poll of waitForReply: the newest answer is the reply once a new turn  *)
(* was seen and that answer has finished.                                  *)
(***************************************************************************)
PollsReply ==
    LET sawNew == sender.sawNew \/ turnCount > sender.before
    IN  /\ sender.step = "reply"
        /\ \/ /\ sawNew /\ finished
              /\ now > lastSentAt
              /\ reply' = [to |-> Message, of |-> Last(turns)]
              /\ sender' = Idle(sender.pacer)
           \/ /\ ~(sawNew /\ finished)
              /\ ~(blocker /\ finished)
              /\ sawNew # sender.sawNew
              /\ sender' = [sender EXCEPT !.sawNew = TRUE]
              /\ UNCHANGED reply
           \/ /\ ~(sawNew /\ finished)
              /\ blocker /\ finished
              /\ sender' = GivenUp
              /\ UNCHANGED reply
    /\ UNCHANGED <<pacing, texts, page>>

\* The reply did not finish in time.
ReplyTimesOut ==
    /\ sender.step = "reply"
    /\ now > lastSentAt
    /\ sender' = GivenUp
    /\ UNCHANGED <<pacing, texts, page, reply>>

Runner == \/ GapIsOver \/ PassesPacer \/ LookFirst \/ ClearsBlockers \/ ClicksSend
          \/ SeesItAccepted \/ SeesItRefused \/ TriesAgain \/ PollsReply \/ ReplyTimesOut

Next == \/ Land \/ GetLost \/ AnswerFinishes \/ BlockerComesUp \/ BlockerIsCleared \/ Tick
        \/ runTask \/ NewMessage \/ Runner

Spec == Init /\ [][Next]_vars
-----------------------------------------------------------------------------
TypeOK ==
    /\ now \in 1..MaxTime /\ lastSentAt \in 0..MaxTime
    /\ sentAt \in Seq(1..MaxTime)
    /\ sender.step \in Steps /\ sender.attempt \in 0..maxAttempts
    /\ texts \in Seq(Texts)
    /\ turns \in Seq(DOMAIN texts)
    /\ flight \subseteq [message : DOMAIN texts, attempt : 1..maxAttempts]
    /\ reply \in [to : 0..MaxMessages, of : 0..MaxMessages]

\* The message stands in the conversation right after one that says the same.
ReadsAsTheOneBefore(m) ==
    \E i \in 2..Len(turns) : /\ turns[i] = m /\ turns[i - 1] # m
                             /\ texts[turns[i - 1]] = texts[m]

TimesInChat(m) == Cardinality({i \in DOMAIN turns : turns[i] = m})

(***************************************************************************)
(* A message is put in the chat once, however often the page refused it,   *)
(* lost it, or took it without saying so - unless it reads as the message  *)
(* before it, which the look before a retry cannot tell from it.           *)
(***************************************************************************)
SentOnce ==
    \A m \in DOMAIN texts : TimesInChat(m) <= 1 \/ ReadsAsTheOneBefore(m)

\* acceptance.ts:6, as it stands: a retry never sends a message that already landed.
NeverTwice == \A m \in DOMAIN texts : TimesInChat(m) <= 1

(***************************************************************************)
(* A message the runner takes for accepted is the newest in the chat, and  *)
(* what it then takes for the reply is the answer to it - also when it     *)
(* begins as the one before does, after messages given up on, and when the *)
(* page does not say how many turns it has.                                *)
(***************************************************************************)
ReplyIsToTheMessage ==
    /\ sender.step = "reply" => turns # <<>> /\ Last(turns) = Message
    /\ reply.of = reply.to

(***************************************************************************)
(* The pause between two messages is one that the settings may draw, or a  *)
(* longer one, also from one attempt's pacer to the next one's.            *)
(***************************************************************************)
GapIsKept ==
    \A i \in 2..Len(passed) : \E gap \in Gap : passed[i].at >= passed[i - 1].at + gap

\* The messages of the hour that ends with the one at i.
TheHourTo(i) ==
    {j \in DOMAIN passed : passed[j].at <= passed[i].at /\ passed[i].at < passed[j].at + Hour}

\* No pacer lets more messages than the cap through in an hour, a message counted once.
EachPacerKeepsTheCap ==
    \A i \in DOMAIN passed :
       Cardinality({j \in TheHourTo(i) : passed[j].pacer = passed[i].pacer}) <= maxMessagesPerHour

(***************************************************************************)
(* No hour holds more messages than the cap (pacing.ts:30,                 *)
(* architecture.md:340).  Each attempt has a pacer that knows of none      *)
(* before it: TLC finds it violated.                                       *)
(***************************************************************************)
CapIsKept == \A i \in DOMAIN passed : Cardinality(TheHourTo(i)) <= maxMessagesPerHour
=============================================================================
