---------------------------- MODULE ChatSend_proofs ----------------------------
(***************************************************************************)
(* Proofs of ChatSend, for any pauses, cap, hour, texts and attempts.      *)
(*                                                                         *)
(* The pacing (throttleSend) is proved of every behaviour.  The invariant  *)
(* says what a pacer's times are: those of the last messages that passed,  *)
(* and all it let through that are less than an hour old.                  *)
(*                                                                         *)
(* What is in the chat (sendAndConfirm, waitForReply) is proved of the     *)
(* behaviours in which no click of Send lands once the runner has looked   *)
(* again.  The invariant says what a look remembers: the conversation as   *)
(* it was some turns ago, all the later ones being the message itself.     *)
(***************************************************************************)
EXTENDS ChatSend, TLAPS, SequenceTheorems, FiniteSetTheorems

-----------------------------------------------------------------------------
(* The inductive invariant of the pacing.                                  *)

Kept == Len(sentAt)
Gone == Len(passed) - Len(sentAt)

Senders == [step : Steps, pacer : Nat, due : Nat, attempt : Nat, before : Nat,
            shown : Texts \cup {Nothing}, baseline : Texts \cup {Nothing}, baseTurns : Nat,
            sawNew : BOOLEAN]

Shape ==
    /\ now \in Nat \ {0} /\ lastSentAt \in Nat
    /\ sentAt \in Seq(Nat)
    /\ passed \in Seq([at : Nat, pacer : Nat])
    /\ sender \in Senders
    /\ texts \in Seq(Texts)
    /\ turns \in Seq(Nat) /\ \A i \in DOMAIN turns : turns[i] \in DOMAIN texts
    /\ flight \in SUBSET [message : Nat, attempt : Nat]
    /\ \A click \in flight : click.message \in DOMAIN texts
    /\ sender.step # "idle" => texts # <<>>

\* The messages passed one after the other, each some time after the one before; the last is the program's last.
InOrder ==
    /\ \A i \in DOMAIN passed : \A j \in 1..(i - 1) : passed[j].at < passed[i].at
    /\ \A i \in DOMAIN passed : passed[i].at > 0 /\ passed[i].at <= lastSentAt
                                /\ passed[i].pacer <= sender.pacer
    /\ lastSentAt <= now
    /\ passed = <<>> => lastSentAt = NeverSent
    /\ passed # <<>> => lastSentAt = passed[Len(passed)].at

\* The pacer's times are those of its last messages; its others are over an hour old.
IsTheEnd ==
    /\ Kept <= Len(passed)
    /\ \A i \in 1..Kept : passed[Gone + i].at = sentAt[i] /\ passed[Gone + i].pacer = sender.pacer
    /\ \A j \in 1..Gone : passed[j].pacer = sender.pacer => passed[j].at + Hour < now

\* Of the times, the last of the cap's number may be of one hour.
WithinCap ==
    /\ \A i \in 1..Kept : i + maxMessagesPerHour <= Kept => sentAt[i] + Hour <= lastSentAt
    /\ sender.step = "cap" =>
          /\ Kept <= maxMessagesPerHour /\ lastSentAt < now
          /\ Kept = maxMessagesPerHour => sender.due = sentAt[1] + Hour

\* A pause that was drawn is over, or is what the message waits for.
Pauses ==
    /\ sender.step = "gap" /\ passed # <<>> => \E gap \in Gap : sender.due = lastSentAt + gap
    /\ sender.step = "cap" /\ passed # <<>> => \E gap \in Gap : lastSentAt + gap <= now

IInv == Shape /\ InOrder /\ IsTheEnd /\ WithinCap /\ Pauses /\ GapIsKept /\ EachPacerKeepsTheCap

-----------------------------------------------------------------------------
(* The states' shape.                                                      *)
LEMMA AnIdleSender ==
    ASSUME NEW pacer \in Nat, NEW attempt \in Nat, NEW before \in Nat
    PROVE  /\ Idle(pacer) \in Senders /\ Idle(pacer).step = "idle" /\ Idle(pacer).pacer = pacer
           /\ [Idle(pacer) EXCEPT !.attempt = attempt] \in Senders
           /\ [Idle(pacer) EXCEPT !.attempt = attempt].step = "idle"
           /\ [Idle(pacer) EXCEPT !.attempt = attempt].pacer = pacer
           /\ [Idle(pacer) EXCEPT !.step = "reply", !.before = before, !.attempt = attempt] \in Senders
           /\ [Idle(pacer) EXCEPT !.step = "reply", !.before = before, !.attempt = attempt].step = "reply"
           /\ [Idle(pacer) EXCEPT !.step = "reply", !.before = before, !.attempt = attempt].pacer = pacer
BY DEF Idle, Senders, Steps

LEMMA OneMore ==
    ASSUME NEW s \in Senders
    PROVE  /\ Idle(s.pacer + 1) \in Senders /\ Idle(s.pacer + 1).step = "idle"
           /\ Idle(s.pacer + 1).pacer = s.pacer + 1
           /\ [s EXCEPT !.step = "look", !.attempt = @ + 1] \in Senders
           /\ [s EXCEPT !.step = "look", !.attempt = @ + 1].pacer = s.pacer
<1> DEFINE n == s.attempt + 1
<1>1. s.pacer + 1 \in Nat /\ n \in Nat
    BY DEF Senders
<1>2. [s EXCEPT !.step = "look", !.attempt = @ + 1] = [s EXCEPT !.step = "look", !.attempt = n]
    BY DEF Senders
<1> HIDE DEF n
<1>3. [s EXCEPT !.step = "look", !.attempt = n] \in Senders
    BY <1>1 DEF Senders, Steps
<1>4. [s EXCEPT !.step = "look", !.attempt = n].pacer = s.pacer
    BY DEF Senders
<1> QED BY <1>1, <1>2, <1>3, <1>4, AnIdleSender

LEMMA WhatItShows ==
    ASSUME Shape
    PROVE  turnCount \in Nat /\ lastUserTurnText \in Texts \cup {Nothing}
<1>1. turnCount \in Nat
    BY DEF Shape, turnCount
<1>2. turns # <<>> => Last(turns) \in DOMAIN texts
    BY DEF Shape, Last
<1>3. \A i \in DOMAIN texts : texts[i] \in Texts
    BY DEF Shape
<1> QED BY <1>1, <1>2, <1>3 DEF lastUserTurnText

LEMMA ThePage ==
    ASSUME Shape, Land \/ GetLost \/ AnswerFinishes \/ BlockerComesUp \/ BlockerIsCleared \/ Tick
    PROVE  Shape'
<1>1. CASE Land
  <2>1. PICK click \in flight : flight' = flight \ {click} /\ turns' = Append(turns, click.message)
      BY <1>1 DEF Land
  <2>2. click.message \in Nat /\ click.message \in DOMAIN texts
      BY DEF Shape
  <2>3. /\ turns' \in Seq(Nat) /\ DOMAIN turns' = 1..(Len(turns) + 1) /\ DOMAIN turns = 1..Len(turns)
        /\ \A i \in 1..Len(turns) : turns'[i] = turns[i]
        /\ turns'[Len(turns) + 1] = click.message
        /\ Len(turns) \in Nat
      BY <2>1, <2>2, AppendProperties DEF Shape
  <2>4. \A i \in DOMAIN turns' : turns'[i] \in DOMAIN texts
    <3>1. \A i \in 1..Len(turns) : turns[i] \in DOMAIN texts
        BY <2>3 DEF Shape
    <3>2. \A i \in 1..(Len(turns) + 1) : i \in 1..Len(turns) \/ i = Len(turns) + 1
        BY <2>3
    <3> QED BY <2>2, <2>3, <3>1, <3>2
  <2> QED BY <1>1, <2>1, <2>3, <2>4 DEF Land, Shape, pacing
<1>2. CASE GetLost
    BY <1>2 DEF GetLost, Shape, pacing
<1>3. CASE AnswerFinishes \/ BlockerComesUp \/ BlockerIsCleared
    BY <1>3 DEF AnswerFinishes, BlockerComesUp, BlockerIsCleared, Shape, pacing
<1>4. CASE Tick
    BY <1>4 DEF Tick, Shape, page
<1> QED BY <1>1, <1>2, <1>3, <1>4

LEMMA TheRunnerPaces ==
    ASSUME Shape, runTask \/ NewMessage \/ GapIsOver \/ PassesPacer
    PROVE  Shape'
<1>1. CASE runTask
  <2>1. sender' \in Senders /\ sender'.step = "idle"
      BY <1>1, OneMore DEF runTask, Shape
  <2>2. sentAt' \in Seq(Nat)
      BY <1>1 DEF runTask
  <2>3. CASE UNCHANGED page
      BY <1>1, <2>1, <2>2, <2>3 DEF runTask, Shape, page
  <2>4. CASE InNewChat
    <3>1. turns' \in Seq(Nat) /\ DOMAIN turns' = {} /\ flight' = {}
        BY <2>4 DEF InNewChat
    <3> QED BY <1>1, <2>1, <2>2, <3>1 DEF runTask, Shape
  <2> QED BY <1>1, <2>3, <2>4 DEF runTask
<1>2. CASE NewMessage
  <2>1. PICK text \in Texts, gap \in Gap :
           /\ texts' = Append(texts, text)
           /\ sender' = [sender EXCEPT !.step = "gap", !.due = GapOver(lastSentAt, gap)]
      BY <1>2 DEF NewMessage
  <2>2. GapOver(lastSentAt, gap) \in Nat
      BY PacerAssumption DEF GapOver, Shape
  <2>3. sender' \in Senders
      BY <2>1, <2>2 DEF Shape, Senders, Steps
  <2>4. texts' \in Seq(Texts) /\ DOMAIN texts \subseteq DOMAIN texts' /\ texts' # <<>>
    <3>1. texts \in Seq(Texts)
        BY DEF Shape
    <3>2. texts' \in Seq(Texts) /\ Len(texts') = Len(texts) + 1
        BY <2>1, <3>1, AppendProperties
    <3> QED BY <3>1, <3>2
  <2> QED BY <1>2, <2>3, <2>4 DEF NewMessage, Shape, pacing, page
<1>3. CASE GapIsOver
  <2>1. PICK n \in 0..Len(sentAt) : sentAt' = SubSeq(sentAt, n + 1, Len(sentAt))
      BY <1>3 DEF GapIsOver
  <2>2. sentAt' \in Seq(Nat)
      BY <2>1, SubSeqProperties DEF Shape
  <2>3. CapOver(sentAt') \in Nat
      BY <2>2, PacerAssumption DEF CapOver
  <2>4. sender' \in Senders
      BY <1>3, <2>3 DEF GapIsOver, Shape, Senders, Steps
  <2> QED BY <1>3, <2>2, <2>4 DEF GapIsOver, Shape, page
<1>4. CASE PassesPacer
  <2>1. sender' \in Senders
      BY <1>4 DEF PassesPacer, Shape, Senders, Steps
  <2>2. sentAt' \in Seq(Nat) /\ lastSentAt' \in Nat
      BY <1>4, AppendProperties DEF PassesPacer, Shape
  <2>3. [at |-> now, pacer |-> sender.pacer] \in [at : Nat, pacer : Nat]
      BY DEF Shape, Senders
  <2>4. passed' \in Seq([at : Nat, pacer : Nat])
      BY <1>4, <2>3, AppendProperties DEF PassesPacer, Shape
  <2> QED BY <1>4, <2>1, <2>2, <2>4 DEF PassesPacer, Shape, page
<1> QED BY <1>1, <1>2, <1>3, <1>4

LEMMA TheRunnerSends ==
    ASSUME Shape, LookFirst \/ ClearsBlockers \/ ClicksSend \/ SeesItAccepted \/ SeesItRefused \/ TriesAgain
    PROVE  Shape'
<1>0. sender \in Senders /\ sender.pacer \in Nat /\ sender.attempt \in Nat /\ sender.before \in Nat
      /\ sender.baseTurns \in Nat
    BY DEF Shape, Senders
<1>1. GivenUp \in Senders /\ Accepted(sender.before) \in Senders /\ Accepted(sender.baseTurns) \in Senders
    BY <1>0, AnIdleSender DEF GivenUp, Accepted
<1>2. CASE LookFirst
  <2>1. turnCount \in Nat /\ lastUserTurnText \in Texts \cup {Nothing}
      BY WhatItShows
  <2> HIDE DEF Accepted
  <2>2. sender' \in Senders
      BY <1>0, <1>1, <1>2, <2>1 DEF LookFirst, Senders, Steps
  <2> QED BY <1>2, <2>2 DEF LookFirst, StillInFlight, Shape, pacing
<1>3. CASE ClearsBlockers \/ SeesItRefused
  <2>1. sender' \in Senders
      BY <1>0, <1>1, <1>3 DEF ClearsBlockers, SeesItRefused, Senders, Steps
  <2> QED BY <1>3, <2>1 DEF ClearsBlockers, SeesItRefused, Shape, pacing, page
<1>4. CASE SeesItAccepted
    BY <1>1, <1>4 DEF SeesItAccepted, Shape, pacing, page
<1>5. CASE TriesAgain
  <2>1. sender' \in Senders
    <3>1. [sender EXCEPT !.step = "look", !.attempt = @ + 1] \in Senders
        BY <1>0, OneMore
    <3> QED BY <1>1, <1>5, <3>1 DEF TriesAgain
  <2> QED BY <1>5, <2>1 DEF TriesAgain, Shape, pacing, page
<1>6. CASE ClicksSend
  <2>1. sender' \in Senders
      BY <1>0, <1>6 DEF ClicksSend, Senders, Steps
  <2>2. Message \in Nat /\ Message \in DOMAIN texts
      BY <1>6 DEF ClicksSend, Shape, Message
  <2>3. flight' = flight \cup {[message |-> Message, attempt |-> sender.attempt]}
      BY <1>6 DEF ClicksSend
  <2>4. flight' \in SUBSET [message : Nat, attempt : Nat]
      BY <1>0, <2>2, <2>3 DEF Shape
  <2>5. \A click \in flight' : click.message \in DOMAIN texts
      BY <2>2, <2>3 DEF Shape
  <2> QED BY <1>6, <2>1, <2>4, <2>5 DEF ClicksSend, Shape, pacing
<1> QED BY <1>2, <1>3, <1>4, <1>5, <1>6

LEMMA TheRunnerWaits ==
    ASSUME Shape, PollsReply \/ ReplyTimesOut
    PROVE  Shape'
<1>0. sender \in Senders /\ sender.pacer \in Nat /\ sender.attempt \in Nat
    BY DEF Shape, Senders
<1>1. GivenUp \in Senders /\ Idle(sender.pacer) \in Senders
    BY <1>0, AnIdleSender DEF GivenUp
<1>2. [sender EXCEPT !.sawNew = TRUE] \in Senders
    BY <1>0 DEF Senders
<1>3. sender' \in Senders
    BY <1>1, <1>2 DEF PollsReply, ReplyTimesOut
<1>4. sender'.step # "idle" => texts # <<>>
    BY DEF PollsReply, ReplyTimesOut, Shape
<1> QED BY <1>3, <1>4 DEF PollsReply, ReplyTimesOut, Shape, pacing, page

LEMMA ShapeStep ==
    ASSUME Shape, [Next]_vars
    PROVE  Shape'
<1>1. CASE UNCHANGED vars
    BY <1>1 DEF vars, Shape
<1> QED BY <1>1, ThePage, TheRunnerPaces, TheRunnerSends, TheRunnerWaits DEF Next, Runner

-----------------------------------------------------------------------------
(* The pacing.                                                             *)
Pacing == InOrder /\ IsTheEnd /\ WithinCap /\ Pauses /\ GapIsKept /\ EachPacerKeepsTheCap

\* The messages that passed and the pacer's times, and what they are.
LEMMA WhatPassed ==
    ASSUME Shape
    PROVE  /\ Len(passed) \in Nat /\ DOMAIN passed = 1..Len(passed) /\ Kept \in Nat
           /\ \A i \in 1..Len(passed) : passed[i].at \in Nat /\ passed[i].pacer \in Nat
           /\ \A i \in 1..Kept : sentAt[i] \in Nat
           /\ now \in Nat /\ lastSentAt \in Nat /\ Hour \in Nat /\ maxMessagesPerHour \in Nat \ {0}
           /\ passed = <<>> <=> Len(passed) = 0
<1>1. passed \in Seq([at : Nat, pacer : Nat])
    BY DEF Shape
<1>2. \A i \in 1..Len(passed) : passed[i] \in [at : Nat, pacer : Nat]
    BY <1>1, ElementOfSeq
<1>3. \A i \in 1..Len(passed) : passed[i].at \in Nat /\ passed[i].pacer \in Nat
    BY <1>2
<1>4. Kept \in Nat /\ \A i \in 1..Kept : sentAt[i] \in Nat
    BY DEF Shape, Kept
<1>5. now \in Nat /\ lastSentAt \in Nat /\ Hour \in Nat /\ maxMessagesPerHour \in Nat \ {0}
    BY PacerAssumption DEF Shape
<1> QED BY <1>1, <1>3, <1>4, <1>5

\* The pacer's times are those of the last messages.
LEMMA TheLast ==
    ASSUME Shape, IsTheEnd
    PROVE  /\ Gone \in Nat /\ Kept \in Nat /\ Gone + Kept = Len(passed)
           /\ \A i \in 1..Kept : Gone + i \in 1..Len(passed)
           /\ \A j \in 1..Gone : j \in 1..Len(passed)
           /\ \A j \in 1..Len(passed) : j \in 1..Gone \/ (j - Gone \in 1..Kept /\ Gone + (j - Gone) = j)
<1>1. Len(passed) \in Nat /\ Kept \in Nat /\ Kept <= Len(passed) /\ Gone = Len(passed) - Kept
    BY WhatPassed DEF IsTheEnd, Gone, Kept
<1> QED BY <1>1

\* A step that lets no message through, and works out no pause and no cap.
LEMMA NobodyPasses ==
    ASSUME Shape, Shape', Pacing, UNCHANGED <<sentAt, lastSentAt, passed>>, now' >= now,
           sender'.pacer = sender.pacer,
           sender'.step \in {"gap", "cap"} => sender'.step = sender.step /\ sender'.due = sender.due
    PROVE  Pacing'
<1>0. now \in Nat /\ now' \in Nat /\ lastSentAt \in Nat
    BY DEF Shape
<1>1. InOrder'
    BY <1>0 DEF Pacing, InOrder
<1>2. IsTheEnd'
  <2>1. \A j \in 1..Gone : passed[j].at \in Nat
      BY WhatPassed, TheLast DEF Pacing
  <2>2. \A j \in 1..Gone : passed[j].at + Hour < now => passed[j].at + Hour < now'
      BY <1>0, <2>1, PacerAssumption
  <2> QED BY <2>2 DEF Pacing, IsTheEnd, Kept, Gone
<1>3. WithinCap'
    BY <1>0 DEF Pacing, WithinCap, Kept
<1>4. Pauses'
    BY <1>0, PacerAssumption DEF Pacing, Pauses
<1>5. GapIsKept' /\ EachPacerKeepsTheCap'
    BY DEF Pacing, GapIsKept, EachPacerKeepsTheCap, TheHourTo
<1> QED BY <1>1, <1>2, <1>3, <1>4, <1>5 DEF Pacing

LEMMA PacingRunTask ==
    ASSUME Shape, Shape', Pacing, runTask
    PROVE  Pacing'
<1>0. /\ UNCHANGED <<now, lastSentAt, passed>> /\ sentAt' = <<>>
      /\ sender'.step = "idle" /\ sender'.pacer = sender.pacer + 1
      /\ sender.pacer \in Nat /\ passed \in Seq([at : Nat, pacer : Nat])
    BY OneMore DEF runTask, Shape, Senders
<1>1. \A i \in DOMAIN passed : passed[i].pacer \in Nat
    BY WhatPassed
<1>2. InOrder'
    BY <1>0, <1>1 DEF Pacing, InOrder
<1>3. IsTheEnd'
  <2>1. Kept' = 0 /\ Gone' = Len(passed)
      BY <1>0 DEF Kept, Gone
  <2>2. \A j \in DOMAIN passed : passed[j].pacer # sender.pacer + 1
      BY <1>0, <1>1 DEF Pacing, InOrder
  <2> QED BY <1>0, <2>1, <2>2 DEF IsTheEnd
<1>4. WithinCap'
    BY <1>0, PacerAssumption DEF WithinCap, Kept
<1>5. Pauses' /\ GapIsKept' /\ EachPacerKeepsTheCap'
    BY <1>0 DEF Pacing, Pauses, GapIsKept, EachPacerKeepsTheCap, TheHourTo
<1> QED BY <1>2, <1>3, <1>4, <1>5 DEF Pacing

LEMMA PacingNewMessage ==
    ASSUME Shape, Shape', Pacing, NewMessage
    PROVE  Pacing'
<1>1. PICK text \in Texts, gap \in Gap :
         sender' = [sender EXCEPT !.step = "gap", !.due = GapOver(lastSentAt, gap)]
    BY DEF NewMessage
<1>2. /\ UNCHANGED <<now, sentAt, lastSentAt, passed>>
      /\ sender'.step = "gap" /\ sender'.pacer = sender.pacer /\ sender'.due = GapOver(lastSentAt, gap)
    BY <1>1 DEF NewMessage, pacing, Shape, Senders
<1>3. InOrder' /\ IsTheEnd'
    BY <1>2 DEF Pacing, InOrder, IsTheEnd, Kept, Gone
<1>4. WithinCap'
    BY <1>2 DEF Pacing, WithinCap, Kept
<1>5. Pauses'
  <2>1. passed # <<>> => lastSentAt # NeverSent
      BY DEF Pacing, InOrder, Shape, NeverSent
  <2> QED BY <1>2, <2>1 DEF Pauses, GapOver
<1>6. GapIsKept' /\ EachPacerKeepsTheCap'
    BY <1>2 DEF Pacing, GapIsKept, EachPacerKeepsTheCap, TheHourTo
<1> QED BY <1>3, <1>4, <1>5, <1>6 DEF Pacing

LEMMA PacingGapIsOver ==
    ASSUME Shape, Shape', Pacing, GapIsOver
    PROVE  Pacing'
<1>1. PICK n \in 0..Len(sentAt) : /\ ShiftedOff(sentAt, now, n)
                                  /\ sentAt' = SubSeq(sentAt, n + 1, Len(sentAt))
    BY DEF GapIsOver
<1>2. /\ UNCHANGED <<now, lastSentAt, passed>>
      /\ sender'.step = "cap" /\ sender'.pacer = sender.pacer /\ sender'.due = CapOver(sentAt')
      /\ sender.step = "gap" /\ now >= sender.due /\ now > lastSentAt
    BY DEF GapIsOver, Shape, Senders
<1>3. /\ Kept' = Kept - n /\ Gone' = Gone + n /\ Kept \in Nat /\ Gone \in Nat /\ n \in Nat /\ n <= Kept
      /\ Len(passed) \in Nat /\ Kept' \in Nat /\ Gone' \in Nat /\ Kept <= Len(passed)
      /\ \A i \in 1..Kept' : sentAt'[i] = sentAt[n + i]
  <2>1. /\ Kept \in Nat /\ Gone \in Nat /\ Len(passed) \in Nat /\ Gone + Kept = Len(passed)
        /\ n \in Nat /\ n <= Kept
      BY WhatPassed, TheLast DEF Pacing, Kept
  <2>2. sentAt \in Seq(Nat) /\ Len(sentAt) \in Nat /\ n \in 0..Len(sentAt)
      BY DEF Shape
  <2>3. Len(sentAt') = Len(sentAt) - n
      BY <1>1, <2>2, SubSeqProperties
  <2>4. \A i \in 1..(Len(sentAt) - n) : sentAt'[i] = sentAt[n + i]
    <3>1. \A i \in 1..(Len(sentAt) - n) : sentAt'[i] = sentAt[(n + 1) + i - 1] /\ (n + 1) + i - 1 = n + i
        BY <1>1, <2>2, SubSeqProperties
    <3> QED BY <3>1
  <2>5. Kept' = Kept - n
      BY <2>3 DEF Kept
  <2>6. Gone' = Gone + n
      BY <1>2, <2>1, <2>2, <2>3 DEF Gone
  <2>7. \A i \in 1..Kept' : sentAt'[i] = sentAt[n + i]
      BY <2>4, <2>5 DEF Kept
  <2> QED BY <2>1, <2>5, <2>6, <2>7
<1>4. \A i \in 1..Kept : sentAt[i] \in Nat
    BY DEF Shape, Kept
<1>5. \A i \in 1..n : now - sentAt[i] > Hour
    BY <1>1 DEF ShiftedOff
<1>6. n < Kept => now - sentAt[n + 1] <= Hour
    BY <1>1 DEF ShiftedOff, Kept
<1>7. now \in Nat /\ lastSentAt \in Nat /\ Hour \in Nat /\ maxMessagesPerHour \in Nat \ {0}
    BY PacerAssumption DEF Shape
<1>8. InOrder'
    BY <1>2 DEF Pacing, InOrder
<1>9. IsTheEnd'
  <2>1. \A i \in 1..Kept' : passed[Gone' + i].at = sentAt'[i] /\ passed[Gone' + i].pacer = sender.pacer
    <3>1. \A i \in 1..Kept' : n + i \in 1..Kept /\ Gone + (n + i) = Gone' + i
        BY <1>3
    <3> QED BY <1>3, <3>1 DEF Pacing, IsTheEnd
  <2>2. \A j \in 1..Gone' : passed[j].pacer = sender.pacer => passed[j].at + Hour < now
    <3> SUFFICES ASSUME NEW j \in 1..Gone', passed[j].pacer = sender.pacer
                 PROVE  passed[j].at + Hour < now
        OBVIOUS
    <3>1. CASE j \in 1..Gone
        BY <3>1 DEF Pacing, IsTheEnd
    <3>2. CASE j \notin 1..Gone
      <4>1. j - Gone \in 1..n /\ j - Gone \in 1..Kept /\ Gone + (j - Gone) = j
          BY <1>3, <3>2
      <4>2. passed[j].at = sentAt[j - Gone]
          BY <4>1 DEF Pacing, IsTheEnd
      <4> QED BY <1>4, <1>5, <1>7, <4>1, <4>2
    <3> QED BY <3>1, <3>2
  <2> QED BY <1>2, <1>3, <2>1, <2>2 DEF IsTheEnd
<1>10. \A i \in 1..Kept' : sentAt'[i] + Hour > lastSentAt
  <2> SUFFICES ASSUME NEW i \in 1..Kept'
               PROVE  sentAt'[i] + Hour > lastSentAt
      OBVIOUS
  <2>1. n < Kept /\ n + 1 \in 1..Kept /\ n + i \in 1..Kept
      BY <1>3
  <2>2. sentAt[n + 1] <= sentAt[n + i]
    <3>1. CASE i = 1
        BY <1>4, <2>1, <3>1
    <3>2. CASE i # 1
      <4>1. Gone + (n + 1) \in 1..((Gone + (n + i)) - 1)
          BY <1>3, <2>1, <3>2
      <4>2. Gone + (n + i) \in DOMAIN passed
          BY <2>1, WhatPassed, TheLast DEF Pacing
      <4>3. passed[Gone + (n + 1)].at < passed[Gone + (n + i)].at
          BY <4>1, <4>2 DEF Pacing, InOrder
      <4>4. passed[Gone + (n + 1)].at = sentAt[n + 1] /\ passed[Gone + (n + i)].at = sentAt[n + i]
          BY <2>1 DEF Pacing, IsTheEnd
      <4> QED BY <1>4, <2>1, <4>3, <4>4
    <3> QED BY <3>1, <3>2
  <2>3. now - sentAt[n + 1] <= Hour /\ now > lastSentAt /\ sentAt'[i] = sentAt[n + i]
      BY <1>2, <1>3, <1>6, <2>1
  <2>4. sentAt[n + 1] \in Nat /\ sentAt[n + i] \in Nat
      BY <1>4, <2>1
  <2> QED BY <1>7, <2>2, <2>3, <2>4
<1>11. WithinCap'
  <2>1. Kept' <= maxMessagesPerHour
    <3> SUFFICES ASSUME Kept' > maxMessagesPerHour
                 PROVE  FALSE
        BY <1>3, <1>7
    <3>1. 1 \in 1..Kept' /\ n + 1 \in 1..Kept /\ (n + 1) + maxMessagesPerHour <= Kept
        BY <1>3, <1>7
    <3>2. sentAt[n + 1] + Hour <= lastSentAt
        BY <3>1 DEF Pacing, WithinCap
    <3>3. sentAt'[1] = sentAt[n + 1]
        BY <1>3, <3>1
    <3> QED BY <1>4, <1>7, <1>10, <3>1, <3>2, <3>3
  <2>2. \A i \in 1..Kept' : ~(i + maxMessagesPerHour <= Kept')
      BY <1>3, <1>7, <2>1
  <2>3. Kept' = maxMessagesPerHour => sender'.due = sentAt'[1] + Hour
      BY <1>2, <1>7 DEF CapOver, Kept
  <2> QED BY <1>2, <2>1, <2>2, <2>3 DEF WithinCap
<1>12. Pauses'
  <2>1. passed # <<>> => \E gap \in Gap : lastSentAt + gap <= now
    <3>1. sender.due \in Nat
        BY DEF Shape, Senders
    <3> QED BY <1>2, <3>1 DEF Pacing, Pauses
  <2> QED BY <1>2, <2>1 DEF Pauses
<1>13. GapIsKept' /\ EachPacerKeepsTheCap'
    BY <1>2 DEF Pacing, GapIsKept, EachPacerKeepsTheCap, TheHourTo
<1> QED BY <1>8, <1>9, <1>11, <1>12, <1>13 DEF Pacing

\* The interval of the indices at which messages of this hour may be, and its size.
LEMMA TheLastOnes ==
    ASSUME NEW n \in Nat, NEW cap \in Nat \ {0}, NEW S, n >= cap, S \subseteq (n - cap + 1)..n
    PROVE  Cardinality(S) <= cap
<1>1. IsFiniteSet((n - cap + 1)..n) /\ Cardinality((n - cap + 1)..n) = n - (n - cap + 1) + 1
    BY FS_Interval
<1>2. Cardinality(S) <= Cardinality((n - cap + 1)..n)
    BY <1>1, FS_Subset
<1>3. IsFiniteSet(S) /\ Cardinality(S) \in Nat
    BY <1>1, FS_Subset, FS_CardinalityType
<1> QED BY <1>1, <1>2, <1>3

LEMMA PacingPasses ==
    ASSUME Shape, Shape', Pacing, PassesPacer
    PROVE  Pacing'
<1> DEFINE new == [at |-> now, pacer |-> sender.pacer]
           L == Len(passed)
<1>1. /\ sentAt' = Append(sentAt, now) /\ lastSentAt' = now /\ now' = now
      /\ passed' = Append(passed, new)
      /\ sender'.step = "look" /\ sender'.pacer = sender.pacer
      /\ sender.step = "cap" /\ now >= sender.due
    BY DEF PassesPacer, Shape, Senders
<1>2. /\ L \in Nat /\ DOMAIN passed = 1..L
      /\ \A i \in 1..L : passed[i].at \in Nat /\ passed[i].pacer \in Nat
      /\ \A i \in 1..Kept : sentAt[i] \in Nat
      /\ now \in Nat /\ lastSentAt \in Nat /\ Hour \in Nat /\ maxMessagesPerHour \in Nat \ {0}
      /\ passed = <<>> <=> L = 0
    BY WhatPassed
<1>3. /\ Gone \in Nat /\ Kept \in Nat /\ Gone + Kept = L
      /\ \A i \in 1..Kept : Gone + i \in 1..L
      /\ \A j \in 1..Gone : j \in 1..L
      /\ \A j \in 1..L : j \in 1..Gone \/ (j - Gone \in 1..Kept /\ Gone + (j - Gone) = j)
    BY TheLast DEF Pacing
<1>4. /\ Len(passed') = L + 1 /\ DOMAIN passed' = 1..(L + 1) /\ passed'[L + 1] = new
      /\ \A i \in 1..L : passed'[i] = passed[i]
  <2>1. passed \in Seq([at : Nat, pacer : Nat]) /\ new \in [at : Nat, pacer : Nat]
      BY <1>2 DEF Shape, Senders
  <2> QED BY <1>1, <2>1, AppendProperties
<1>5. /\ Kept' = Kept + 1 /\ Gone' = Gone /\ sentAt'[Kept + 1] = now
      /\ \A i \in 1..Kept : sentAt'[i] = sentAt[i]
  <2>1. sentAt \in Seq(Nat)
      BY DEF Shape
  <2>2. /\ Len(sentAt') = Len(sentAt) + 1 /\ sentAt'[Len(sentAt) + 1] = now
        /\ \A i \in 1..Len(sentAt) : sentAt'[i] = sentAt[i]
      BY <1>1, <1>2, <2>1, AppendProperties
  <2> QED BY <1>2, <1>3, <1>4, <2>2 DEF Kept, Gone
<1>6. lastSentAt < now /\ Kept <= maxMessagesPerHour
      /\ (Kept = maxMessagesPerHour => sender.due = sentAt[1] + Hour)
    BY <1>1 DEF Pacing, WithinCap
<1>7. \A i \in 1..L : passed[i].at > 0 /\ passed[i].at < now /\ passed[i].pacer <= sender.pacer
    BY <1>2, <1>6 DEF Pacing, InOrder
<1>8. new.at = now /\ new.pacer = sender.pacer /\ sender.pacer \in Nat /\ now > 0
    BY DEF Shape, Senders
<1> HIDE DEF new, L
<1>9. InOrder'
  <2>1. \A i \in 1..(L + 1) : \A j \in 1..(i - 1) : passed'[j].at < passed'[i].at
    <3> SUFFICES ASSUME NEW i \in 1..(L + 1), NEW j \in 1..(i - 1)
                 PROVE  passed'[j].at < passed'[i].at
        OBVIOUS
    <3>1. j \in 1..L /\ passed'[j] = passed[j]
        BY <1>2, <1>4
    <3>2. CASE i = L + 1
        BY <1>4, <1>7, <1>8, <3>1, <3>2
    <3>3. CASE i # L + 1
      <4>1. i \in 1..L /\ i \in DOMAIN passed /\ passed'[i] = passed[i]
          BY <1>2, <1>4, <3>3
      <4> QED BY <3>1, <4>1 DEF Pacing, InOrder
    <3> QED BY <3>2, <3>3
  <2>2. \A i \in 1..(L + 1) : passed'[i].at > 0 /\ passed'[i].at <= now /\ passed'[i].pacer <= sender.pacer
    <3> SUFFICES ASSUME NEW i \in 1..(L + 1)
                 PROVE  passed'[i].at > 0 /\ passed'[i].at <= now /\ passed'[i].pacer <= sender.pacer
        OBVIOUS
    <3>1. CASE i = L + 1
        BY <1>2, <1>4, <1>8, <3>1
    <3>2. CASE i # L + 1
      <4>1. i \in 1..L /\ passed'[i] = passed[i]
          BY <1>2, <1>4, <3>2
      <4> QED BY <1>2, <1>7, <4>1
    <3> QED BY <3>1, <3>2
  <2>3. passed' # <<>> /\ passed'[Len(passed')].at = now
      BY <1>2, <1>4, <1>8
  <2> QED BY <1>1, <1>2, <1>4, <2>1, <2>2, <2>3 DEF InOrder
<1>10. IsTheEnd'
  <2>1. \A i \in 1..Kept' : passed'[Gone' + i].at = sentAt'[i] /\ passed'[Gone' + i].pacer = sender.pacer
    <3> SUFFICES ASSUME NEW i \in 1..Kept'
                 PROVE  passed'[Gone' + i].at = sentAt'[i] /\ passed'[Gone' + i].pacer = sender.pacer
        OBVIOUS
    <3>1. CASE i = Kept + 1
      <4>1. Gone' + i = L + 1
          BY <1>3, <1>5, <3>1
      <4> QED BY <1>4, <1>5, <1>8, <3>1, <4>1
    <3>2. CASE i # Kept + 1
      <4>1. i \in 1..Kept
          BY <1>3, <1>5, <3>2
      <4>2. Gone + i \in 1..L
          BY <1>3, <4>1
      <4> QED BY <1>4, <1>5, <4>1, <4>2 DEF Pacing, IsTheEnd
    <3> QED BY <3>1, <3>2
  <2>2. \A j \in 1..Gone' : passed'[j].pacer = sender.pacer => passed'[j].at + Hour < now
      BY <1>3, <1>4, <1>5 DEF Pacing, IsTheEnd
  <2>3. Kept' <= Len(passed') /\ sender'.pacer = sender.pacer /\ now' = now
      BY <1>1, <1>2, <1>3, <1>4, <1>5
  <2> QED BY <2>1, <2>2, <2>3 DEF IsTheEnd
<1>11. WithinCap'
  <2>1. \A i \in 1..Kept' : i + maxMessagesPerHour <= Kept' => sentAt'[i] + Hour <= now
    <3> SUFFICES ASSUME NEW i \in 1..Kept', i + maxMessagesPerHour <= Kept'
                 PROVE  sentAt'[i] + Hour <= now
        OBVIOUS
    <3>1. i = 1 /\ Kept = maxMessagesPerHour /\ 1 \in 1..Kept
        BY <1>2, <1>3, <1>5, <1>6
    <3>2. sender.due = sentAt[1] + Hour /\ sentAt'[1] = sentAt[1] /\ sentAt[1] \in Nat
        BY <1>2, <1>5, <1>6, <3>1
    <3> QED BY <1>1, <1>2, <3>1, <3>2
  <2> QED BY <1>1, <2>1 DEF WithinCap
<1>12. Pauses'
    BY <1>1 DEF Pauses
<1>13. GapIsKept'
  <2> SUFFICES ASSUME NEW i \in 2..(L + 1)
               PROVE  \E gap \in Gap : passed'[i].at >= passed'[i - 1].at + gap
      BY <1>4 DEF GapIsKept
  <2>1. CASE i = L + 1
    <3>1. L \in 1..L /\ i - 1 = L /\ passed # <<>>
        BY <1>2, <2>1
    <3>2. lastSentAt = passed[L].at
        BY <3>1 DEF Pacing, InOrder, L
    <3>3. PICK gap \in Gap : lastSentAt + gap <= now
        BY <1>1, <3>1 DEF Pacing, Pauses
    <3>4. passed'[i].at = now /\ passed'[i - 1].at = lastSentAt
        BY <1>4, <1>8, <2>1, <3>1, <3>2
    <3>5. gap \in Nat
        BY PacerAssumption
    <3> QED BY <1>2, <3>3, <3>4, <3>5
  <2>2. CASE i # L + 1
    <3>1. i \in 2..L /\ i \in 1..L /\ i - 1 \in 1..L
        BY <1>2, <2>2
    <3>2. passed'[i] = passed[i] /\ passed'[i - 1] = passed[i - 1]
        BY <1>4, <3>1
    <3>3. \E gap \in Gap : passed[i].at >= passed[i - 1].at + gap
        BY <3>1 DEF Pacing, GapIsKept, L
    <3> QED BY <3>2, <3>3
  <2> QED BY <2>1, <2>2
<1>14. EachPacerKeepsTheCap'
  <2> SUFFICES ASSUME NEW i \in 1..(L + 1)
               PROVE  Cardinality({j \in TheHourTo(i)' : passed'[j].pacer = passed'[i].pacer})
                         <= maxMessagesPerHour
      BY <1>4 DEF EachPacerKeepsTheCap, TheHourTo
  <2> DEFINE S == {j \in TheHourTo(i)' : passed'[j].pacer = passed'[i].pacer}
  <2>1. CASE i # L + 1
    <3>1. i \in 1..L /\ passed'[i] = passed[i]
        BY <1>2, <1>4, <2>1
    <3>2. L + 1 \notin TheHourTo(i)'
        BY <1>2, <1>4, <1>7, <1>8, <3>1 DEF TheHourTo
    <3>3. S = {j \in TheHourTo(i) : passed[j].pacer = passed[i].pacer}
      <4>1. \A j : j \in S <=> (j \in TheHourTo(i) /\ passed[j].pacer = passed[i].pacer)
        <5> TAKE j
        <5>1. CASE j \in 1..L
            BY <1>2, <1>4, <3>1, <5>1 DEF TheHourTo
        <5>2. CASE j \notin 1..L
          <6>1. j \notin TheHourTo(i)
              BY <1>2, <5>2 DEF TheHourTo
          <6>2. j \in TheHourTo(i)' => j = L + 1
              BY <1>2, <1>4, <5>2 DEF TheHourTo
          <6> QED BY <3>2, <6>1, <6>2
        <5> QED BY <5>1, <5>2
      <4> QED BY <4>1
    <3> HIDE DEF S
    <3>4. Cardinality({j \in TheHourTo(i) : passed[j].pacer = passed[i].pacer}) <= maxMessagesPerHour
        BY <1>2, <3>1 DEF Pacing, EachPacerKeepsTheCap
    <3> QED BY <3>3, <3>4 DEF S
  <2>2. CASE i = L + 1
    <3>1. \A j \in S : /\ j \in 1..(L + 1) /\ passed'[j].pacer = sender.pacer
                       /\ now < passed'[j].at + Hour
        BY <1>4, <1>8, <2>2 DEF TheHourTo
    <3>2. \A j \in S : ~(j \in 1..Gone)
      <4> SUFFICES ASSUME NEW j \in S, j \in 1..Gone
                   PROVE  FALSE
          OBVIOUS
      <4>1. j \in 1..L /\ passed'[j] = passed[j]
          BY <1>3, <1>4
      <4>2. passed[j].at + Hour < now
          BY <3>1, <4>1 DEF Pacing, IsTheEnd
      <4> QED BY <1>2, <3>1, <4>1, <4>2
    <3>3. CASE Kept < maxMessagesPerHour
      <4>1. S \subseteq (Gone + 1)..(L + 1)
          BY <1>2, <1>3, <3>1, <3>2
      <4>2. IsFiniteSet((Gone + 1)..(L + 1))
            /\ Cardinality((Gone + 1)..(L + 1)) = (L + 1) - (Gone + 1) + 1
          BY <1>2, <1>3, FS_Interval
      <4>3. Cardinality(S) <= Cardinality((Gone + 1)..(L + 1)) /\ Cardinality(S) \in Nat
          BY <4>1, <4>2, FS_Subset, FS_CardinalityType
      <4> QED BY <1>2, <1>3, <3>3, <4>2, <4>3
    <3>4. CASE Kept = maxMessagesPerHour
      <4>1. 1 \in 1..Kept /\ Gone + 1 \in 1..L /\ sentAt[1] + Hour <= now /\ sentAt[1] \in Nat
          BY <1>1, <1>2, <1>3, <1>6, <3>4
      <4>2. passed'[Gone + 1].at = sentAt[1]
          BY <1>4, <4>1 DEF Pacing, IsTheEnd
      <4>3. Gone + 1 \notin S
          BY <1>2, <3>1, <4>1, <4>2
      <4>4. S \subseteq ((L + 1) - maxMessagesPerHour + 1)..(L + 1)
          BY <1>2, <1>3, <3>1, <3>2, <3>4, <4>3
      <4> HIDE DEF S
      <4>5. L + 1 \in Nat /\ L + 1 >= maxMessagesPerHour
          BY <1>2, <1>3, <3>4
      <4>6. Cardinality(S) <= maxMessagesPerHour
          BY <1>2, <4>4, <4>5, TheLastOnes
      <4> QED BY <4>6 DEF S
    <3> QED BY <1>2, <1>3, <1>6, <3>3, <3>4
  <2> QED BY <2>1, <2>2
<1> QED BY <1>9, <1>10, <1>11, <1>12, <1>13, <1>14 DEF Pacing

LEMMA PacingStep ==
    ASSUME Shape, Shape', Pacing, [Next]_vars
    PROVE  Pacing'
<1>0. now \in Nat /\ now + 1 >= now /\ sender \in Senders /\ sender.pacer \in Nat /\ sender.attempt \in Nat
      /\ sender.before \in Nat /\ sender.baseTurns \in Nat
    BY DEF Shape, Senders
<1>1. CASE UNCHANGED vars
    BY <1>0, <1>1, NobodyPasses DEF vars
<1>2. CASE Land \/ GetLost \/ AnswerFinishes \/ BlockerComesUp \/ BlockerIsCleared
  <2>1. UNCHANGED <<pacing, sender>>
      BY <1>2 DEF Land, GetLost, AnswerFinishes, BlockerComesUp, BlockerIsCleared
  <2> QED BY <1>0, <2>1, NobodyPasses DEF pacing
<1>3. CASE Tick
    BY <1>0, <1>3, NobodyPasses DEF Tick
<1>4. CASE LookFirst \/ ClearsBlockers \/ ClicksSend \/ SeesItAccepted \/ SeesItRefused \/ TriesAgain
           \/ PollsReply \/ ReplyTimesOut
  <2>1. UNCHANGED pacing
      BY <1>4 DEF LookFirst, ClearsBlockers, ClicksSend, SeesItAccepted, SeesItRefused, TriesAgain,
                  PollsReply, ReplyTimesOut
  <2>2. sender'.pacer = sender.pacer /\ sender'.step \notin {"gap", "cap"}
    <3>1. GivenUp.pacer = sender.pacer /\ GivenUp.step = "idle"
        BY DEF GivenUp, Idle
    <3>2. \A before \in Nat : Accepted(before).pacer = sender.pacer /\ Accepted(before).step = "reply"
        BY DEF Accepted, Idle
    <3>3. Idle(sender.pacer).pacer = sender.pacer /\ Idle(sender.pacer).step = "idle"
        BY <1>0, AnIdleSender
    <3> HIDE DEF GivenUp, Accepted, Idle
    <3>4. CASE LookFirst
        BY <1>0, <3>2, <3>4 DEF LookFirst, Senders
    <3>5. CASE ClearsBlockers
        BY <1>0, <3>1, <3>5 DEF ClearsBlockers, Senders
    <3>6. CASE ClicksSend
        BY <1>0, <3>6 DEF ClicksSend, Senders
    <3>7. CASE SeesItAccepted
        BY <1>0, <3>2, <3>7 DEF SeesItAccepted
    <3>8. CASE SeesItRefused
        BY <1>0, <3>8 DEF SeesItRefused, Senders
    <3>9. CASE TriesAgain
        BY <1>0, <3>1, <3>9 DEF TriesAgain, Senders
    <3>10. CASE PollsReply
        BY <1>0, <3>1, <3>3, <3>10 DEF PollsReply, Senders
    <3>11. CASE ReplyTimesOut
        BY <3>1, <3>11 DEF ReplyTimesOut
    <3> QED BY <1>4, <3>4, <3>5, <3>6, <3>7, <3>8, <3>9, <3>10, <3>11
  <2> QED BY <1>0, <2>1, <2>2, NobodyPasses DEF pacing
<1> QED BY <1>1, <1>2, <1>3, <1>4, PacingRunTask, PacingNewMessage, PacingGapIsOver, PacingPasses
        DEF Next, Runner

-----------------------------------------------------------------------------
(* The theorems of the pacing.                                             *)

(***************************************************************************)
(* What a pacer keeps is the end of what it let through (throttleSend),    *)
(* and the pauses of all pacers are measured from one time, in every state.*)
(***************************************************************************)
THEOREM Inductive == Spec => []IInv
<1>1. Init => IInv
  <2> SUFFICES ASSUME Init
               PROVE  IInv
      OBVIOUS
  <2>1. Idle(1) \in Senders /\ Idle(1).step = "idle" /\ Idle(1).pacer = 1
      BY AnIdleSender
  <2>2. Shape
      BY <2>1 DEF Init, Shape, NeverSent
  <2>3. InOrder /\ IsTheEnd
      BY DEF Init, InOrder, IsTheEnd, Kept, Gone, NeverSent
  <2>4. WithinCap /\ Pauses /\ GapIsKept /\ EachPacerKeepsTheCap
      BY <2>1 DEF Init, WithinCap, Pauses, GapIsKept, EachPacerKeepsTheCap, Kept
  <2> QED BY <2>2, <2>3, <2>4 DEF IInv
<1>2. IInv /\ [Next]_vars => IInv'
    BY ShapeStep, PacingStep DEF IInv, Pacing
<1> QED BY <1>1, <1>2, PTL DEF Spec

(***************************************************************************)
(* pacing.ts: two messages are never closer than a pause the settings may  *)
(* draw, whichever attempts' pacers let them through.                      *)
(***************************************************************************)
THEOREM PausesAreKept == Spec => []GapIsKept
<1>1. IInv => GapIsKept
    BY DEF IInv
<1> QED BY <1>1, Inductive, PTL

(***************************************************************************)
(* pacing.ts: whatever the cap, the hour and the times at which messages   *)
(* are asked for, no pacer lets more than the cap through in an hour - an  *)
(* attempt at a task has one of its own, so a task may (CapIsKept).        *)
(***************************************************************************)
THEOREM EachPacerKeepsIt == Spec => []EachPacerKeepsTheCap
<1>1. IInv => EachPacerKeepsTheCap
    BY DEF IInv
<1> QED BY <1>1, Inductive, PTL

-----------------------------------------------------------------------------
(* The bounds of its numbers: with the shape, the type invariant.          *)

Times == 1..MaxTime
Tried == {"look", "clear", "click", "accept", "refused"}

Bounded ==
    /\ now <= MaxTime /\ lastSentAt <= MaxTime
    /\ sentAt \in Seq(Times)
    /\ sender.attempt <= maxAttempts
    /\ sender.step \in Tried => sender.attempt >= 1
    /\ sender.sawNew => turns # <<>>
    /\ Len(texts) <= MaxMessages
    /\ \A click \in flight : click.attempt \in 1..maxAttempts
    /\ reply \in [to : 0..MaxMessages, of : 0..MaxMessages]

LEMMA BoundedThePage ==
    ASSUME Shape, Bounded, Land \/ GetLost \/ AnswerFinishes \/ BlockerComesUp \/ BlockerIsCleared \/ Tick
    PROVE  Bounded'
<1>1. CASE Land
  <2>1. PICK click \in flight : flight' = flight \ {click} /\ turns' = Append(turns, click.message)
      BY <1>1 DEF Land
  <2>2. click.message \in Nat /\ turns \in Seq(Nat)
      BY DEF Shape
  <2>3. turns' # <<>>
      BY <2>1, <2>2, AppendProperties
  <2>4. UNCHANGED <<now, sentAt, lastSentAt, sender, texts, reply>>
      BY <1>1 DEF Land, pacing
  <2> QED BY <2>1, <2>3, <2>4 DEF Bounded
<1>2. CASE GetLost \/ AnswerFinishes \/ BlockerComesUp \/ BlockerIsCleared
    BY <1>2 DEF GetLost, AnswerFinishes, BlockerComesUp, BlockerIsCleared, pacing, Bounded
<1>3. CASE Tick
  <2>1. now' <= MaxTime
      BY <1>3, ChatAssumption DEF Tick, Shape
  <2> QED BY <1>3, <2>1 DEF Tick, page, Bounded
<1> QED BY <1>1, <1>2, <1>3

LEMMA BoundedPacing ==
    ASSUME Shape, Bounded, runTask \/ NewMessage \/ GapIsOver \/ PassesPacer
    PROVE  Bounded'
<1>0. sender \in Senders
    BY DEF Shape
<1>1. CASE runTask
  <2>1. sentAt' \in Seq(Times)
      BY <1>1 DEF runTask
  <2>2. sender'.attempt = 0 /\ sender'.step = "idle" /\ sender'.sawNew = FALSE
      BY <1>1 DEF runTask, Idle
  <2>3. flight' \subseteq flight
      BY <1>1 DEF runTask, InNewChat, page
  <2>4. 0 <= maxAttempts
      BY ChatAssumption
  <2> QED BY <1>1, <2>1, <2>2, <2>3, <2>4 DEF runTask, Bounded, Tried
<1>2. CASE NewMessage
  <2>1. PICK text \in Texts, gap \in Gap :
           /\ texts' = Append(texts, text)
           /\ sender' = [sender EXCEPT !.step = "gap", !.due = GapOver(lastSentAt, gap)]
      BY <1>2 DEF NewMessage
  <2>2. Len(texts') <= MaxMessages
    <3>1. texts \in Seq(Texts) /\ Len(texts) < MaxMessages
        BY <1>2 DEF NewMessage, Shape, Message
    <3>2. Len(texts') = Len(texts) + 1
        BY <2>1, <3>1, AppendProperties
    <3> QED BY <3>1, <3>2, ChatAssumption
  <2>3. sender'.attempt = sender.attempt /\ sender'.step = "gap" /\ sender'.sawNew = sender.sawNew
      BY <1>0, <2>1 DEF Senders
  <2> QED BY <1>2, <2>2, <2>3 DEF NewMessage, pacing, page, Bounded, Tried
<1>3. CASE GapIsOver
  <2>1. PICK n \in 0..Len(sentAt) : sentAt' = SubSeq(sentAt, n + 1, Len(sentAt))
      BY <1>3 DEF GapIsOver
  <2>2. sentAt' \in Seq(Times)
      BY <2>1, SubSeqProperties DEF Bounded
  <2>3. sender'.attempt = sender.attempt /\ sender'.step = "cap" /\ sender'.sawNew = sender.sawNew
      BY <1>0, <1>3 DEF GapIsOver, Senders
  <2> QED BY <1>3, <2>2, <2>3 DEF GapIsOver, page, Bounded, Tried
<1>4. CASE PassesPacer
  <2>1. now \in Times
      BY ChatAssumption DEF Shape, Bounded, Times
  <2>2. sentAt' \in Seq(Times)
      BY <1>4, <2>1, AppendProperties DEF PassesPacer, Bounded
  <2>3. sender'.attempt = 1 /\ sender'.sawNew = sender.sawNew
      BY <1>0, <1>4 DEF PassesPacer, Senders
  <2>4. 1 <= maxAttempts
      BY ChatAssumption
  <2> QED BY <1>4, <2>1, <2>2, <2>3, <2>4 DEF PassesPacer, page, Bounded, Times
<1> QED BY <1>1, <1>2, <1>3, <1>4

LEMMA BoundedSending ==
    ASSUME Shape, Bounded,
           LookFirst \/ ClearsBlockers \/ ClicksSend \/ SeesItAccepted \/ SeesItRefused \/ TriesAgain
    PROVE  Bounded'
<1>0. sender \in Senders /\ sender.attempt \in Nat
    BY DEF Shape, Senders
<1>1. /\ GivenUp.attempt = sender.attempt /\ GivenUp.step = "idle" /\ GivenUp.sawNew = FALSE
      /\ \A before : /\ Accepted(before).attempt = sender.attempt /\ Accepted(before).step = "reply"
                     /\ Accepted(before).sawNew = FALSE
    BY DEF GivenUp, Accepted, Idle
<1>2. UNCHANGED <<now, sentAt, lastSentAt, texts, turns, reply>>
    BY DEF LookFirst, ClearsBlockers, ClicksSend, SeesItAccepted, SeesItRefused, TriesAgain, pacing, page
<1>3. CASE LookFirst
  <2>1. sender'.attempt = sender.attempt /\ sender'.sawNew \in {FALSE, sender.sawNew}
      BY <1>0, <1>1, <1>3 DEF LookFirst, Senders
  <2>2. flight' \subseteq flight
      BY <1>3 DEF LookFirst, StillInFlight
  <2>3. sender.attempt >= 1
      BY <1>3 DEF LookFirst, Bounded, Tried
  <2> QED BY <1>2, <2>1, <2>2, <2>3 DEF Bounded
<1>4. CASE ClearsBlockers \/ SeesItRefused \/ SeesItAccepted
  <2>1. sender'.attempt = sender.attempt /\ sender'.sawNew \in {FALSE, sender.sawNew}
    <3>1. CASE ClearsBlockers
        BY <1>0, <1>1, <3>1 DEF ClearsBlockers, Senders
    <3>2. CASE SeesItRefused
        BY <1>0, <3>2 DEF SeesItRefused, Senders
    <3>3. CASE SeesItAccepted
        BY <1>1, <3>3 DEF SeesItAccepted
    <3> QED BY <1>4, <3>1, <3>2, <3>3
  <2>2. flight' = flight /\ sender.attempt >= 1
      BY <1>4 DEF ClearsBlockers, SeesItRefused, SeesItAccepted, page, Bounded, Tried
  <2> QED BY <1>2, <2>1, <2>2 DEF Bounded
<1>5. CASE ClicksSend
  <2>1. sender'.attempt = sender.attempt /\ sender'.sawNew = sender.sawNew
      BY <1>0, <1>5 DEF ClicksSend, Senders
  <2>2. sender.attempt \in 1..maxAttempts
      BY <1>0, <1>5, ChatAssumption DEF ClicksSend, Bounded, Tried
  <2>3. \A click \in flight' : click.attempt \in 1..maxAttempts
      BY <1>5, <2>2 DEF ClicksSend, Bounded
  <2> QED BY <1>2, <2>1, <2>2, <2>3 DEF Bounded
<1>6. CASE TriesAgain
  <2>1. CASE sender' = GivenUp
      BY <1>1, <1>2, <1>6, <2>1 DEF TriesAgain, page, Bounded, Tried
  <2>2. CASE sender' # GivenUp
    <3>1. /\ sender' = [sender EXCEPT !.step = "look", !.attempt = @ + 1]
          /\ sender.attempt # maxAttempts
        BY <1>6, <2>2 DEF TriesAgain
    <3>2. sender'.attempt = sender.attempt + 1 /\ sender'.sawNew = sender.sawNew
        BY <1>0, <3>1 DEF Senders
    <3>3. sender'.attempt <= maxAttempts /\ sender'.attempt >= 1
        BY <1>0, <3>1, <3>2, ChatAssumption DEF Bounded
    <3> QED BY <1>2, <1>6, <3>2, <3>3 DEF TriesAgain, page, Bounded
  <2> QED BY <2>1, <2>2
<1> QED BY <1>3, <1>4, <1>5, <1>6

LEMMA BoundedWaiting ==
    ASSUME Shape, Bounded, PollsReply \/ ReplyTimesOut
    PROVE  Bounded'
<1>0. sender \in Senders /\ sender.attempt \in Nat /\ sender.before \in Nat /\ turns \in Seq(Nat)
    BY DEF Shape, Senders
<1>1. /\ GivenUp.attempt = sender.attempt /\ GivenUp.step = "idle" /\ GivenUp.sawNew = FALSE
      /\ Idle(sender.pacer).attempt = 0 /\ Idle(sender.pacer).step = "idle" /\ Idle(sender.pacer).sawNew = FALSE
    BY DEF GivenUp, Idle
<1>2. UNCHANGED <<now, sentAt, lastSentAt, texts, turns, flight>>
    BY DEF PollsReply, ReplyTimesOut, pacing, page
<1>3. sender.sawNew \/ turnCount > sender.before => turns # <<>>
    BY <1>0 DEF turnCount, Bounded
<1>4. CASE sender' = GivenUp /\ reply' = reply
    BY <1>1, <1>2, <1>4 DEF Bounded, Tried
<1>5. CASE sender' = [sender EXCEPT !.sawNew = TRUE] /\ reply' = reply
           /\ (sender.sawNew \/ turnCount > sender.before)
  <2>1. /\ sender'.attempt = sender.attempt /\ sender'.step = sender.step
        /\ sender'.sawNew = TRUE
      BY <1>0, <1>5 DEF Senders
  <2> QED BY <1>2, <1>3, <1>5, <2>1 DEF Bounded
<1>6. CASE sender' = Idle(sender.pacer) /\ reply' = [to |-> Message, of |-> Last(turns)]
           /\ (sender.sawNew \/ turnCount > sender.before)
  <2>1. Len(texts) \in Nat /\ DOMAIN texts = 1..Len(texts) /\ Len(texts) <= MaxMessages
      BY DEF Shape, Bounded
  <2>2. Last(turns) \in DOMAIN texts
      BY <1>0, <1>3, <1>6 DEF Shape, Last
  <2>3. reply' \in [to : 0..MaxMessages, of : 0..MaxMessages]
      BY <1>6, <2>1, <2>2, ChatAssumption DEF Message
  <2>4. 0 <= maxAttempts
      BY ChatAssumption
  <2> QED BY <1>1, <1>2, <1>6, <2>3, <2>4 DEF Bounded, Tried
<1>7. sender.sawNew \in BOOLEAN /\ (turnCount > sender.before) \in BOOLEAN
    BY <1>0 DEF Senders
<1> QED BY <1>4, <1>5, <1>6, <1>7 DEF PollsReply, ReplyTimesOut

LEMMA BoundedStep ==
    ASSUME Shape, Bounded, [Next]_vars
    PROVE  Bounded'
<1>1. CASE UNCHANGED vars
    BY <1>1 DEF vars, Bounded
<1> QED BY <1>1, BoundedThePage, BoundedPacing, BoundedSending, BoundedWaiting DEF Next, Runner

LEMMA TypeOKIs ==
    ASSUME Shape, Bounded
    PROVE  TypeOK
<1>1. now \in 1..MaxTime /\ lastSentAt \in 0..MaxTime
    BY ChatAssumption DEF Shape, Bounded
<1>2. sentAt \in Seq(1..MaxTime)
    BY DEF Bounded, Times
<1>3. sender.step \in Steps /\ sender.attempt \in 0..maxAttempts
    BY ChatAssumption DEF Shape, Senders, Bounded
<1>4. turns \in Seq(DOMAIN texts)
    BY DEF Shape
<1>5. flight \subseteq [message : DOMAIN texts, attempt : 1..maxAttempts]
    BY DEF Shape, Bounded
<1> QED BY <1>1, <1>2, <1>3, <1>4, <1>5 DEF TypeOK, Shape, Bounded

(***************************************************************************)
(* Every variable of the pacer, the sender and the page keeps its shape    *)
(* and its bounds: no click of a message that was not asked for, none past *)
(* the attempts of Settings, no turn of a message never composed.          *)
(***************************************************************************)
THEOREM TypeCorrect == Spec => []TypeOK
<1>1. Init => Bounded
  <2>1. <<>> \in Seq(Times) /\ Len(<<>>) = 0
      OBVIOUS
  <2> QED BY <2>1, ChatAssumption DEF Init, Bounded, Idle, Tried, NeverSent
<1>2. IInv /\ Bounded /\ [Next]_vars => Bounded'
    BY BoundedStep DEF IInv
<1>3. IInv /\ Bounded => TypeOK
    BY TypeOKIs DEF IInv
<1> QED BY <1>1, <1>2, <1>3, Inductive, PTL DEF Spec

-----------------------------------------------------------------------------
(* The inductive invariant of what is in the chat, with ClicksLandInTime.  *)

\* The runner has looked at the chat for the message it is sending.
Looked == sender.step \in {"clear", "click", "accept", "refused"} \/ (sender.step = "look" /\ sender.attempt > 1)

\* The newest message that may have been clicked.
Newest == IF sender.step \in {"gap", "cap"} \/ (sender.step = "look" /\ ~Looked) THEN Message - 1 ELSE Message

\* The chat as it was n turns long, all that came since being the message itself.
ShowedAt(n, shown) ==
    /\ n \in 0..Len(turns)
    /\ shown = IF n = 0 THEN Nothing ELSE texts[turns[n]]
    /\ \A i \in (n + 1)..Len(turns) : turns[i] = Message

IsInChat(m) == \E i \in DOMAIN turns : turns[i] = m

\* The messages land one after the other, and the one click in flight is the newest one's.
InTurn ==
    /\ \A i \in DOMAIN turns : \A j \in 1..i : turns[j] <= turns[i]
    /\ \A i \in DOMAIN turns : turns[i] <= Newest
    /\ \A click \in flight : click.message = Newest
    /\ \A click, other \in flight : click = other
    /\ sender.step \in {"clear", "click"} => flight = {}
    /\ sender.step \in {"look", "clear", "click", "accept", "refused"} => sender.attempt >= 1

\* What each look remembers of the chat: the message's first one, and the last.
IsRemembered ==
    /\ Looked => \E n \in 0..Len(turns) : /\ ShowedAt(n, sender.baseline)
                                          /\ \A i \in 1..n : turns[i] # Message
    /\ sender.step \in {"clear", "click", "accept"} =>
          \E n \in 0..Len(turns) :
             ShowedAt(n, sender.shown) /\ sender.before = IF counts THEN n ELSE 0

\* One turn at most, and none while a click may still make one.
OnceAtMost(m) ==
    /\ \A i, j \in DOMAIN turns : turns[i] = m /\ turns[j] = m => i = j
    /\ (\E click \in flight : click.message = m) => ~IsInChat(m)

Once ==
    /\ \A m \in DOMAIN texts : ReadsAsTheOneBefore(m) \/ OnceAtMost(m)
    /\ sender.step \in {"clear", "click"} => ReadsAsTheOneBefore(Message) \/ ~IsInChat(Message)

ChatInv == Shape /\ InTurn /\ IsRemembered /\ Once /\ ReplyIsToTheMessage

-----------------------------------------------------------------------------
(* What is in the chat.                                                    *)
LEMMA TheChat ==
    ASSUME Shape
    PROVE  /\ Len(turns) \in Nat /\ DOMAIN turns = 1..Len(turns)
           /\ Message \in Nat /\ DOMAIN texts = 1..Message
           /\ \A i \in 1..Len(turns) : turns[i] \in 1..Message
           /\ \A m \in 1..Message : texts[m] \in Texts /\ texts[m] # Nothing
           /\ turns = <<>> <=> Len(turns) = 0
           /\ Len(turns) > 0 => Last(turns) = turns[Len(turns)]
           /\ lastUserTurnText = IF Len(turns) = 0 THEN Nothing ELSE texts[turns[Len(turns)]]
           /\ turnCount = IF counts THEN Len(turns) ELSE 0
<1>1. turns \in Seq(Nat) /\ texts \in Seq(Texts)
    BY DEF Shape
<1>2. Message \in Nat /\ DOMAIN texts = 1..Message
    BY <1>1 DEF Message
<1>3. \A i \in 1..Len(turns) : turns[i] \in 1..Message
    BY <1>1, <1>2 DEF Shape
<1>4. \A m \in 1..Message : texts[m] \in Texts /\ texts[m] # Nothing
    BY <1>1, <1>2, ChatAssumption
<1>5. turns = <<>> <=> Len(turns) = 0
    BY <1>1
<1> QED BY <1>1, <1>2, <1>3, <1>4, <1>5 DEF Last, lastUserTurnText, turnCount

\* Whose step leaves the chat alone, or only loses a click.
LEMMA ChatMoves ==
    ASSUME InTurn, IsRemembered, Once,
           UNCHANGED <<texts, turns, counts>>, flight' \subseteq flight, Newest' = Newest,
           Looked' => Looked /\ sender'.baseline = sender.baseline,
           sender'.step \in {"clear", "click"} => sender.step \in {"clear", "click"},
           sender'.step \in {"clear", "click", "accept"} =>
              /\ sender.step \in {"clear", "click", "accept"}
              /\ sender'.shown = sender.shown /\ sender'.before = sender.before,
           sender'.step \in {"look", "clear", "click", "accept", "refused"} => sender'.attempt >= 1
    PROVE  InTurn' /\ IsRemembered' /\ Once'
<1>1. InTurn'
    BY DEF InTurn
<1>2. Message' = Message
    BY DEF Message
<1>3. ASSUME Looked'
      PROVE  \E n \in 0..Len(turns) : /\ ShowedAt(n, sender.baseline)'
                                       /\ \A i \in 1..n : turns[i] # Message
  <2>1. PICK n \in 0..Len(turns) : ShowedAt(n, sender.baseline) /\ \A i \in 1..n : turns[i] # Message
      BY <1>3 DEF IsRemembered
  <2>2. ShowedAt(n, sender.baseline)'
      BY <1>2, <1>3, <2>1 DEF ShowedAt
  <2> QED BY <2>1, <2>2
<1>4. ASSUME sender'.step \in {"clear", "click", "accept"}
      PROVE  \E n \in 0..Len(turns) :
                ShowedAt(n, sender.shown)' /\ sender'.before = IF counts THEN n ELSE 0
  <2>1. PICK n \in 0..Len(turns) : ShowedAt(n, sender.shown) /\ sender.before = IF counts THEN n ELSE 0
      BY <1>4 DEF IsRemembered
  <2>2. ShowedAt(n, sender.shown)'
      BY <1>2, <1>4, <2>1 DEF ShowedAt
  <2> QED BY <1>4, <2>1, <2>2
<1>5. Once'
    BY DEF Once, ReadsAsTheOneBefore, OnceAtMost, IsInChat, Message
<1> QED BY <1>1, <1>2, <1>3, <1>4, <1>5 DEF IsRemembered

LEMMA ChatLands ==
    ASSUME Shape, Shape', InTurn, IsRemembered, Once, ReplyIsToTheMessage, Land
    PROVE  InTurn' /\ IsRemembered' /\ Once' /\ ReplyIsToTheMessage'
<1> DEFINE L == Len(turns)
<1>1. PICK click \in flight : flight' = flight \ {click} /\ turns' = Append(turns, click.message)
    BY DEF Land
<1>2. UNCHANGED <<sender, texts, counts, reply>>
    BY DEF Land
<1>3. click.message = Newest /\ flight' = {} /\ sender.step \notin {"clear", "click"}
    BY <1>1 DEF InTurn
<1>4. /\ L \in Nat /\ DOMAIN turns = 1..L /\ Message \in Nat /\ DOMAIN texts = 1..Message
      /\ \A i \in 1..L : turns[i] \in 1..Message
    BY TheChat
<1>5. Newest' = Newest /\ (Looked' <=> Looked) /\ Message' = Message
    BY <1>2 DEF Newest, Looked, Message
<1>6. Newest \in 1..Message
    BY <1>1, <1>3, <1>4 DEF Shape
<1>7. /\ Len(turns') = L + 1 /\ DOMAIN turns' = 1..(L + 1) /\ turns'[L + 1] = Newest
      /\ \A i \in 1..L : turns'[i] = turns[i]
  <2>1. turns \in Seq(Nat) /\ Newest \in Nat
      BY <1>4, <1>6 DEF Shape
  <2> QED BY <1>1, <1>3, <2>1, AppendProperties
<1> HIDE DEF L
<1>8. InTurn'
  <2>1. \A i \in 1..(L + 1) : turns'[i] <= Newest
    <3>1. \A i \in 1..L : turns'[i] <= Newest
        BY <1>4, <1>7 DEF InTurn
    <3>2. \A i \in 1..(L + 1) : i \in 1..L \/ i = L + 1
        BY <1>4
    <3> QED BY <1>4, <1>6, <1>7, <3>1, <3>2
  <2>2. \A i \in 1..(L + 1) : \A j \in 1..i : turns'[j] <= turns'[i]
    <3> SUFFICES ASSUME NEW i \in 1..(L + 1), NEW j \in 1..i
                 PROVE  turns'[j] <= turns'[i]
        OBVIOUS
    <3>1. CASE i = L + 1
        BY <1>4, <1>6, <1>7, <2>1, <3>1
    <3>2. CASE i # L + 1
      <4>1. i \in 1..L /\ j \in 1..L
          BY <1>4, <3>2
      <4> QED BY <1>4, <1>7, <4>1 DEF InTurn
    <3> QED BY <3>1, <3>2
  <2> QED BY <1>2, <1>3, <1>5, <1>7, <2>1, <2>2 DEF InTurn
<1>9. \A n \in 0..L : \A shown : Looked /\ ShowedAt(n, shown) => ShowedAt(n, shown)'
  <2> SUFFICES ASSUME NEW n \in 0..L, NEW shown, Looked, ShowedAt(n, shown)
               PROVE  ShowedAt(n, shown)'
      OBVIOUS
  <2>1. Newest = Message
      BY DEF Newest, Looked
  <2>2. n \in 0..(L + 1) /\ (n # 0 => n \in 1..L)
      BY <1>4
  <2>3. shown = IF n = 0 THEN Nothing ELSE texts[turns'[n]]
      BY <1>7, <2>2 DEF ShowedAt
  <2>4. \A i \in (n + 1)..(L + 1) : turns'[i] = Message
    <3> SUFFICES ASSUME NEW i \in (n + 1)..(L + 1)
                 PROVE  turns'[i] = Message
        OBVIOUS
    <3>1. CASE i = L + 1
        BY <1>7, <2>1, <3>1
    <3>2. CASE i # L + 1
      <4>1. i \in (n + 1)..L /\ i \in 1..L
          BY <1>4, <3>2
      <4> QED BY <1>7, <4>1 DEF ShowedAt, L
    <3> QED BY <3>1, <3>2
  <2> QED BY <1>2, <1>5, <1>7, <2>2, <2>3, <2>4 DEF ShowedAt
<1>10. IsRemembered'
  <2>1. ASSUME Looked
        PROVE  \E n \in 0..(L + 1) : /\ ShowedAt(n, sender.baseline)'
                                     /\ \A i \in 1..n : turns'[i] # Message
    <3>1. PICK n \in 0..L : ShowedAt(n, sender.baseline) /\ \A i \in 1..n : turns[i] # Message
        BY <2>1 DEF IsRemembered, L
    <3>2. n \in 0..(L + 1) /\ \A i \in 1..n : turns'[i] # Message
        BY <1>4, <1>7, <3>1
    <3>3. ShowedAt(n, sender.baseline)'
        BY <1>2, <1>9, <2>1, <3>1
    <3> QED BY <3>2, <3>3
  <2>2. ASSUME sender.step \in {"clear", "click", "accept"}
        PROVE  \E n \in 0..(L + 1) : ShowedAt(n, sender.shown)' /\ sender.before = IF counts THEN n ELSE 0
    <3>1. PICK n \in 0..L : ShowedAt(n, sender.shown) /\ sender.before = IF counts THEN n ELSE 0
        BY <2>2 DEF IsRemembered, L
    <3>2. ShowedAt(n, sender.shown)'
        BY <1>2, <1>9, <2>2, <3>1 DEF Looked
    <3>3. n \in 0..(L + 1)
        BY <1>4
    <3> QED BY <3>1, <3>2, <3>3
  <2> QED BY <1>2, <1>5, <1>7, <2>1, <2>2 DEF IsRemembered
<1>11. Once'
  <2>1. \A m \in DOMAIN texts : ReadsAsTheOneBefore(m) => ReadsAsTheOneBefore(m)'
    <3> SUFFICES ASSUME NEW m \in DOMAIN texts, ReadsAsTheOneBefore(m)
                 PROVE  ReadsAsTheOneBefore(m)'
        OBVIOUS
    <3>1. PICK i \in 2..L : turns[i] = m /\ turns[i - 1] # m /\ texts[turns[i - 1]] = texts[m]
        BY DEF ReadsAsTheOneBefore, L
    <3>2. i \in 1..L /\ i - 1 \in 1..L /\ i \in 2..(L + 1)
        BY <1>4
    <3>3. turns'[i] = m /\ turns'[i - 1] # m /\ texts'[turns'[i - 1]] = texts'[m]
        BY <1>2, <1>7, <3>1, <3>2
    <3> QED BY <1>7, <3>2, <3>3 DEF ReadsAsTheOneBefore
  <2>2. \A m \in DOMAIN texts : OnceAtMost(m) => OnceAtMost(m)'
    <3> SUFFICES ASSUME NEW m \in DOMAIN texts, OnceAtMost(m)
                 PROVE  OnceAtMost(m)'
        OBVIOUS
    <3>1. m = Newest => \A i \in 1..L : turns[i] # m
        BY <1>3, <1>4 DEF OnceAtMost, IsInChat
    <3>2. \A i, j \in 1..(L + 1) : turns'[i] = m /\ turns'[j] = m => i = j
      <4> SUFFICES ASSUME NEW i \in 1..(L + 1), NEW j \in 1..(L + 1), turns'[i] = m, turns'[j] = m
                   PROVE  i = j
          OBVIOUS
      <4>1. CASE m = Newest
        <5>1. \A k \in 1..(L + 1) : k \in 1..L => turns'[k] # m
            BY <1>7, <3>1, <4>1
        <5> QED BY <1>4, <5>1
      <4>2. CASE m # Newest
        <5>1. i \in 1..L /\ j \in 1..L
            BY <1>4, <1>7, <4>2
        <5> QED BY <1>4, <1>7, <5>1 DEF OnceAtMost
      <4> QED BY <4>1, <4>2
    <3> QED BY <1>3, <1>7, <3>2 DEF OnceAtMost
  <2> QED BY <1>2, <1>3, <2>1, <2>2 DEF Once
<1>12. ReplyIsToTheMessage'
  <2>1. ASSUME sender.step = "reply"
        PROVE  turns' # <<>> /\ Last(turns') = Message
    <3>1. Newest = Message
        BY <2>1 DEF Newest
    <3> QED BY <1>4, <1>7, <3>1 DEF Last
  <2> QED BY <1>2, <1>5, <2>1 DEF ReplyIsToTheMessage
<1> QED BY <1>8, <1>10, <1>11, <1>12

LEMMA ChatNewMessage ==
    ASSUME Shape, Shape', InTurn, IsRemembered, Once, ReplyIsToTheMessage, NewMessage
    PROVE  InTurn' /\ IsRemembered' /\ Once' /\ ReplyIsToTheMessage'
<1>1. PICK text \in Texts, gap \in Gap :
         /\ texts' = Append(texts, text)
         /\ sender' = [sender EXCEPT !.step = "gap", !.due = GapOver(lastSentAt, gap)]
    BY DEF NewMessage
<1>2. UNCHANGED <<turns, flight, counts, reply>> /\ sender.step = "idle"
    BY DEF NewMessage, page
<1>3. sender'.step = "gap"
    BY <1>1 DEF Shape, Senders
<1>4. /\ Len(turns) \in Nat /\ DOMAIN turns = 1..Len(turns)
      /\ Message \in Nat /\ DOMAIN texts = 1..Message
      /\ \A i \in 1..Len(turns) : turns[i] \in 1..Message
    BY TheChat
<1>5. Message' = Message + 1 /\ DOMAIN texts' = 1..(Message + 1) /\ \A m \in 1..Message : texts'[m] = texts[m]
  <2>1. texts \in Seq(Texts)
      BY DEF Shape
  <2> QED BY <1>1, <2>1, AppendProperties DEF Message
<1>6. Newest = Message /\ Newest' = Message /\ ~Looked'
    BY <1>2, <1>3, <1>4, <1>5 DEF Newest, Looked
<1>7. InTurn'
    BY <1>2, <1>3, <1>6 DEF InTurn
<1>8. IsRemembered'
    BY <1>3, <1>6 DEF IsRemembered
<1>9. Once'
  <2>1. \A m \in 1..Message : ReadsAsTheOneBefore(m) => ReadsAsTheOneBefore(m)'
    <3> SUFFICES ASSUME NEW m \in 1..Message, ReadsAsTheOneBefore(m)
                 PROVE  ReadsAsTheOneBefore(m)'
        OBVIOUS
    <3>1. PICK i \in 2..Len(turns) : turns[i] = m /\ turns[i - 1] # m /\ texts[turns[i - 1]] = texts[m]
        BY DEF ReadsAsTheOneBefore
    <3>2. turns[i - 1] \in 1..Message
        BY <1>4
    <3>3. texts'[turns[i - 1]] = texts'[m]
        BY <1>5, <3>1, <3>2
    <3> QED BY <1>2, <3>1, <3>3 DEF ReadsAsTheOneBefore
  <2>2. \A m \in 1..Message : OnceAtMost(m) => OnceAtMost(m)'
      BY <1>2 DEF OnceAtMost, IsInChat
  <2>3. \A m \in 1..(Message + 1) : m = Message + 1 => OnceAtMost(m)'
    <3>1. \A i \in 1..Len(turns) : turns[i] # Message + 1
        BY <1>4
    <3> QED BY <1>2, <1>4, <3>1 DEF OnceAtMost, IsInChat
  <2>4. \A m \in 1..(Message + 1) : m \in 1..Message \/ m = Message + 1
      BY <1>4
  <2> QED BY <1>3, <1>4, <1>5, <2>1, <2>2, <2>3, <2>4 DEF Once
<1>10. ReplyIsToTheMessage'
    BY <1>2, <1>3 DEF ReplyIsToTheMessage
<1> QED BY <1>7, <1>8, <1>9, <1>10

\* The chat has grown since it was looked at: its newest message is the one being sent.
LEMMA ItsTurnIsLast ==
    ASSUME Shape, NEW n \in 0..Len(turns), n # Len(turns),
           \A i \in (n + 1)..Len(turns) : turns[i] = Message
    PROVE  turns # <<>> /\ Last(turns) = Message
<1>1. Len(turns) \in Nat /\ (turns = <<>> <=> Len(turns) = 0) /\ (Len(turns) > 0 => Last(turns) = turns[Len(turns)])
    BY TheChat
<1>2. Len(turns) \in (n + 1)..Len(turns) /\ Len(turns) > 0
    BY <1>1
<1> QED BY <1>1, <1>2

\* What landed is told from what was there when the chat was looked at.
LEMMA LandedIsLast ==
    ASSUME Shape, NEW shown, NEW n \in 0..Len(turns), ShowedAt(n, shown),
           landed(texts[Message], lastUserTurnText, shown)
    PROVE  turns # <<>> /\ Last(turns) = Message
<1>1. n # Len(turns)
    BY TheChat DEF ShowedAt, landed
<1> QED BY <1>1, ItsTurnIsLast DEF ShowedAt

LEMMA ChatIsAccepted ==
    ASSUME Shape, Shape', InTurn, IsRemembered, Once, ReplyIsToTheMessage, SeesItAccepted
    PROVE  InTurn' /\ IsRemembered' /\ Once' /\ ReplyIsToTheMessage'
<1>1. /\ UNCHANGED <<texts, turns, flight, counts, reply>> /\ sender.step = "accept"
      /\ sender' = Accepted(sender.before)
      /\ turnCount > sender.before \/ landed(texts[Message], lastUserTurnText, sender.shown)
    BY DEF SeesItAccepted, page
<1>2. sender'.step = "reply"
    BY <1>1 DEF Accepted, Idle
<1>3. Newest' = Newest /\ ~Looked' /\ Message' = Message
    BY <1>1, <1>2 DEF Newest, Looked, Message
<1>4. InTurn' /\ IsRemembered' /\ Once'
    BY <1>1, <1>2, <1>3, ChatMoves
<1>5. PICK n \in 0..Len(turns) : ShowedAt(n, sender.shown) /\ sender.before = IF counts THEN n ELSE 0
    BY <1>1 DEF IsRemembered
<1>6. turns # <<>> /\ Last(turns) = Message
  <2>1. CASE turnCount > sender.before
    <3>1. Len(turns) \in Nat /\ turnCount = IF counts THEN Len(turns) ELSE 0
        BY TheChat
    <3>2. ~(turnCount > turnCount)
        BY <3>1
    <3>3. n # Len(turns)
        BY <1>5, <2>1, <3>1, <3>2
    <3> QED BY <1>5, <3>3, ItsTurnIsLast DEF ShowedAt
  <2>2. CASE landed(texts[Message], lastUserTurnText, sender.shown)
      BY <1>5, <2>2, LandedIsLast
  <2> QED BY <1>1, <2>1, <2>2
<1>7. ReplyIsToTheMessage'
    BY <1>1, <1>3, <1>6 DEF ReplyIsToTheMessage
<1> QED BY <1>4, <1>7

\* A message that is in the chat, and did not show as landed, reads as the one before it.
LEMMA UnseenReadsTheSame ==
    ASSUME Shape, InTurn, Newest = Message,
           NEW n \in 0..Len(turns), ShowedAt(n, sender.baseline), \A i \in 1..n : turns[i] # Message,
           ~landed(texts[Message], lastUserTurnText, sender.baseline), IsInChat(Message)
    PROVE  ReadsAsTheOneBefore(Message)
<1> DEFINE L == Len(turns)
<1>1. /\ L \in Nat /\ DOMAIN turns = 1..L /\ Message \in Nat
      /\ \A i \in 1..L : turns[i] \in 1..Message
      /\ \A m \in 1..Message : texts[m] \in Texts /\ texts[m] # Nothing
      /\ lastUserTurnText = IF L = 0 THEN Nothing ELSE texts[turns[L]]
    BY TheChat
<1>2. PICK i \in 1..L : turns[i] = Message
    BY <1>1 DEF IsInChat
<1>3. i > n /\ n + 1 \in 1..L /\ L \in (n + 1)..L /\ L > 0 /\ n + 1 \in (n + 1)..L
    BY <1>1, <1>2
<1>4. turns[L] = Message /\ turns[n + 1] = Message /\ Message \in 1..Message
    BY <1>1, <1>3 DEF ShowedAt
<1>5. texts[Message] = sender.baseline
    BY <1>1, <1>3, <1>4 DEF landed
<1>6. n # 0 /\ texts[turns[n]] = texts[Message]
    BY <1>1, <1>4, <1>5 DEF ShowedAt
<1>7. n + 1 \in 2..L /\ (n + 1) - 1 = n /\ turns[n] # Message
    BY <1>1, <1>3, <1>6
<1> QED BY <1>4, <1>6, <1>7 DEF ReadsAsTheOneBefore

LEMMA ChatIsLookedAt ==
    ASSUME ClicksLandInTime, Shape, Shape', InTurn, IsRemembered, Once, ReplyIsToTheMessage, LookFirst
    PROVE  InTurn' /\ IsRemembered' /\ Once' /\ ReplyIsToTheMessage'
<1> DEFINE L == Len(turns)
<1>1. /\ UNCHANGED <<texts, turns, counts, reply>> /\ flight' = {} /\ sender.step = "look"
      /\ sender.attempt \in Nat /\ sender.attempt >= 1
    BY DEF LookFirst, StillInFlight, InTurn, Shape, Senders
<1>2. /\ L \in Nat /\ DOMAIN turns = 1..L /\ Message \in Nat /\ DOMAIN texts = 1..Message
      /\ \A i \in 1..L : turns[i] \in 1..Message
      /\ lastUserTurnText = IF L = 0 THEN Nothing ELSE texts[turns[L]]
      /\ turnCount = IF counts THEN L ELSE 0
    BY TheChat
<1>3. Message' = Message /\ (IsInChat(Message)' <=> IsInChat(Message))
    BY <1>1 DEF Message, IsInChat
<1>4. Newest <= Message
    BY <1>2 DEF Newest
<1>5. \A m \in DOMAIN texts : ReadsAsTheOneBefore(m)' \/ OnceAtMost(m)'
    BY <1>1 DEF Once, ReadsAsTheOneBefore, OnceAtMost, IsInChat
<1>6. ReadsAsTheOneBefore(Message)' <=> ReadsAsTheOneBefore(Message)
    BY <1>1, <1>3 DEF ReadsAsTheOneBefore
<1>7. L \in 0..L /\ \A i \in (L + 1)..L : turns[i] = Message
    BY <1>2
<1>8. ASSUME Newest' = Message, sender'.attempt >= 1
      PROVE  InTurn'
  <2>1. \A i \in 1..L : turns[i] <= Message
      BY <1>2
  <2> QED BY <1>1, <1>2, <1>8, <2>1 DEF InTurn
<1> HIDE DEF L
<1>9. CASE sender.attempt > 1 /\ landed(texts[Message], lastUserTurnText, sender.baseline)
  <2>1. sender' = Accepted(sender.baseTurns)
      BY <1>9 DEF LookFirst
  <2>2. sender'.step = "reply" /\ sender'.attempt = sender.attempt
      BY <2>1 DEF Accepted, Idle
  <2>3. Newest' = Message /\ ~Looked'
      BY <1>3, <2>2 DEF Newest, Looked
  <2>4. PICK n \in 0..L : ShowedAt(n, sender.baseline)
      BY <1>1, <1>9 DEF IsRemembered, Looked, L
  <2>5. turns # <<>> /\ Last(turns) = Message
      BY <1>9, <2>4, LandedIsLast DEF L
  <2>6. ReplyIsToTheMessage'
      BY <1>1, <1>3, <2>5 DEF ReplyIsToTheMessage
  <2>7. InTurn'
      BY <1>1, <1>8, <2>2, <2>3
  <2> QED BY <1>1, <1>5, <2>2, <2>3, <2>6, <2>7 DEF IsRemembered, Once
<1>10. CASE sender.attempt > 1 /\ ~landed(texts[Message], lastUserTurnText, sender.baseline)
  <2>1. sender' = [sender EXCEPT !.step = "clear", !.before = turnCount, !.shown = lastUserTurnText]
      BY <1>10 DEF LookFirst
  <2>2. /\ sender'.step = "clear" /\ sender'.attempt = sender.attempt /\ sender'.before = turnCount
        /\ sender'.shown = lastUserTurnText /\ sender'.baseline = sender.baseline
      BY <2>1 DEF Shape, Senders
  <2>3. Newest' = Message /\ Newest = Message /\ Looked
      BY <1>1, <1>3, <1>10, <2>2 DEF Newest, Looked
  <2>4. PICK n \in 0..L : ShowedAt(n, sender.baseline) /\ \A i \in 1..n : turns[i] # Message
      BY <2>3 DEF IsRemembered, L
  <2>5. ShowedAt(n, sender.baseline)' /\ ShowedAt(L, sender.shown)'
      BY <1>1, <1>2, <1>3, <1>7, <2>2, <2>4 DEF ShowedAt, L
  <2>6. IsRemembered'
      BY <1>1, <1>2, <1>3, <1>7, <2>2, <2>4, <2>5 DEF IsRemembered, L
  <2>7. ReadsAsTheOneBefore(Message) \/ ~IsInChat(Message)
      BY <1>10, <2>3, <2>4, UnseenReadsTheSame DEF L
  <2>8. Once'
      BY <1>1, <1>3, <1>5, <1>6, <2>7 DEF Once
  <2>9. InTurn'
      BY <1>1, <1>8, <2>2, <2>3
  <2> QED BY <1>1, <2>2, <2>6, <2>8, <2>9 DEF ReplyIsToTheMessage
<1>11. CASE sender.attempt = 1
  <2>1. sender' = [sender EXCEPT !.step = "clear", !.before = turnCount, !.shown = lastUserTurnText,
                                 !.baseTurns = turnCount, !.baseline = lastUserTurnText]
      BY <1>11 DEF LookFirst
  <2>2. /\ sender'.step = "clear" /\ sender'.attempt = sender.attempt /\ sender'.before = turnCount
        /\ sender'.shown = lastUserTurnText /\ sender'.baseline = lastUserTurnText
      BY <2>1 DEF Shape, Senders
  <2>3. Newest' = Message /\ Newest = Message - 1
      BY <1>1, <1>3, <1>11, <2>2 DEF Newest, Looked
  <2>4. \A i \in 1..L : turns[i] # Message
      BY <1>2, <2>3 DEF InTurn
  <2>5. ShowedAt(L, sender.baseline)' /\ ShowedAt(L, sender.shown)'
      BY <1>1, <1>2, <1>3, <1>7, <2>2 DEF ShowedAt, L
  <2>6. IsRemembered'
      BY <1>1, <1>2, <1>3, <1>7, <2>2, <2>4, <2>5 DEF IsRemembered, L
  <2>7. ~IsInChat(Message)
      BY <1>2, <2>4 DEF IsInChat
  <2>8. Once'
      BY <1>1, <1>3, <1>5, <2>7 DEF Once
  <2>9. InTurn'
      BY <1>1, <1>8, <2>2, <2>3
  <2> QED BY <1>1, <2>2, <2>6, <2>8, <2>9 DEF ReplyIsToTheMessage
<1> QED BY <1>1, <1>9, <1>10, <1>11

LEMMA ChatIsClicked ==
    ASSUME Shape, Shape', InTurn, IsRemembered, Once, ReplyIsToTheMessage, ClicksSend
    PROVE  InTurn' /\ IsRemembered' /\ Once' /\ ReplyIsToTheMessage'
<1> DEFINE click == [message |-> Message, attempt |-> sender.attempt]
<1>1. /\ UNCHANGED <<texts, turns, counts, reply>> /\ sender.step = "click"
      /\ sender' = [sender EXCEPT !.step = "accept"]
      /\ flight' = {click}
    BY DEF ClicksSend, InTurn
<1>2. click.message = Message
    OBVIOUS
<1> HIDE DEF click
<1>3. /\ sender'.step = "accept" /\ sender'.attempt = sender.attempt /\ sender'.before = sender.before
      /\ sender'.shown = sender.shown /\ sender'.baseline = sender.baseline
    BY <1>1 DEF Shape, Senders
<1>4. Newest' = Message /\ Newest = Message /\ Looked /\ Message' = Message
    BY <1>1, <1>3 DEF Newest, Looked, Message
<1>5. InTurn'
    BY <1>1, <1>2, <1>3, <1>4 DEF InTurn
<1>6. IsRemembered'
  <2>1. PICK n \in 0..Len(turns) : ShowedAt(n, sender.baseline) /\ \A i \in 1..n : turns[i] # Message
      BY <1>4 DEF IsRemembered
  <2>2. ShowedAt(n, sender.baseline)'
      BY <1>1, <1>3, <1>4, <2>1 DEF ShowedAt
  <2>3. PICK k \in 0..Len(turns) : ShowedAt(k, sender.shown) /\ sender.before = IF counts THEN k ELSE 0
      BY <1>1 DEF IsRemembered
  <2>4. ShowedAt(k, sender.shown)'
      BY <1>1, <1>3, <1>4, <2>3 DEF ShowedAt
  <2>5. \E i \in 0..Len(turns) : ShowedAt(i, sender.baseline)' /\ \A j \in 1..i : turns[j] # Message
      BY <2>1, <2>2
  <2>6. \E i \in 0..Len(turns) : ShowedAt(i, sender.shown)' /\ sender'.before = IF counts THEN i ELSE 0
      BY <1>3, <2>3, <2>4
  <2> QED BY <1>1, <1>4, <2>5, <2>6 DEF IsRemembered
<1>7. Once'
  <2>1. \A m \in DOMAIN texts : m # Message => (OnceAtMost(m) => OnceAtMost(m)')
      BY <1>1, <1>2 DEF OnceAtMost, IsInChat
  <2>2. \A m \in DOMAIN texts : ReadsAsTheOneBefore(m) => ReadsAsTheOneBefore(m)'
      BY <1>1 DEF ReadsAsTheOneBefore
  <2>3. ~IsInChat(Message) => OnceAtMost(Message)'
      BY <1>1, <1>4 DEF OnceAtMost, IsInChat
  <2>4. ReadsAsTheOneBefore(Message) \/ ~IsInChat(Message)
      BY <1>1 DEF Once
  <2> QED BY <1>1, <1>3, <1>4, <2>1, <2>2, <2>3, <2>4 DEF Once
<1>8. ReplyIsToTheMessage'
    BY <1>1, <1>3 DEF ReplyIsToTheMessage
<1> QED BY <1>5, <1>6, <1>7, <1>8

LEMMA ChatIsWaitedFor ==
    ASSUME Shape, Shape', InTurn, IsRemembered, Once, ReplyIsToTheMessage,
           GapIsOver \/ PassesPacer \/ ClearsBlockers \/ SeesItRefused \/ TriesAgain
              \/ PollsReply \/ ReplyTimesOut
    PROVE  InTurn' /\ IsRemembered' /\ Once' /\ ReplyIsToTheMessage'
<1>1. UNCHANGED <<texts, turns, flight, counts>> /\ Message' = Message
    BY DEF GapIsOver, PassesPacer, ClearsBlockers, SeesItRefused, TriesAgain, PollsReply,
           ReplyTimesOut, page, Message
<1>2. sender \in Senders /\ sender.attempt \in Nat /\ Idle(sender.pacer).step = "idle" /\ GivenUp.step = "idle"
    BY DEF Shape, Senders, Idle, GivenUp
<1>3. sender.step \in {"look", "clear", "click", "accept", "refused"} => sender.attempt >= 1
    BY DEF InTurn
<1> HIDE DEF Idle, GivenUp
<1>4. CASE sender'.step = "idle" /\ sender.step \notin {"gap", "cap", "look"}
  <2>1. Newest' = Newest /\ ~Looked'
      BY <1>1, <1>4 DEF Newest, Looked
  <2>2. InTurn' /\ IsRemembered' /\ Once'
      BY <1>1, <1>4, <2>1, ChatMoves
  <2>3. reply' = reply \/ reply'.of = reply'.to
      BY <1>4 DEF GapIsOver, PassesPacer, ClearsBlockers, SeesItRefused, TriesAgain, PollsReply,
                  ReplyTimesOut, ReplyIsToTheMessage
  <2> QED BY <1>1, <1>4, <2>2, <2>3 DEF ReplyIsToTheMessage
<1>6. CASE GapIsOver \/ PassesPacer
  <2>1. /\ sender.step \in {"gap", "cap"} /\ UNCHANGED reply
        /\ sender'.step = "cap" \/ (sender'.step = "look" /\ sender'.attempt = 1)
      BY <1>2, <1>6 DEF GapIsOver, PassesPacer, Senders
  <2>2. Newest' = Newest /\ ~Looked'
      BY <1>1, <2>1 DEF Newest, Looked
  <2>3. InTurn' /\ IsRemembered' /\ Once'
      BY <1>1, <2>1, <2>2, ChatMoves
  <2> QED BY <2>1, <2>3 DEF ReplyIsToTheMessage
<1>7. CASE ClearsBlockers
  <2>1. CASE blocker
    <3>1. sender'.step = "idle" /\ sender.step = "clear"
        BY <1>2, <1>7, <2>1 DEF ClearsBlockers
    <3> QED BY <1>4, <3>1
  <2>2. CASE ~blocker
    <3>1. /\ sender'.step = "click" /\ sender.step = "clear" /\ sender'.attempt = sender.attempt
          /\ sender'.before = sender.before /\ sender'.shown = sender.shown
          /\ sender'.baseline = sender.baseline /\ UNCHANGED reply
        BY <1>2, <1>7, <2>2 DEF ClearsBlockers, Senders
    <3>2. Newest' = Newest /\ Looked' /\ Looked
        BY <1>1, <3>1 DEF Newest, Looked
    <3>3. InTurn' /\ IsRemembered' /\ Once'
        BY <1>1, <1>3, <3>1, <3>2, ChatMoves
    <3> QED BY <3>1, <3>3 DEF ReplyIsToTheMessage
  <2> QED BY <2>1, <2>2
<1>8. CASE SeesItRefused
  <2>1. /\ sender'.step = "refused" /\ sender.step = "accept" /\ sender'.attempt = sender.attempt
        /\ sender'.baseline = sender.baseline /\ UNCHANGED reply
      BY <1>2, <1>8 DEF SeesItRefused, Senders
  <2>2. Newest' = Newest /\ Looked' /\ Looked
      BY <1>1, <2>1 DEF Newest, Looked
  <2>3. InTurn' /\ IsRemembered' /\ Once'
      BY <1>1, <1>3, <2>1, <2>2, ChatMoves
  <2> QED BY <2>1, <2>3 DEF ReplyIsToTheMessage
<1>9. CASE TriesAgain
  <2>1. CASE blocker \/ sender.attempt = maxAttempts
    <3>1. sender'.step = "idle" /\ sender.step = "refused"
        BY <1>2, <1>9, <2>1 DEF TriesAgain
    <3> QED BY <1>4, <3>1
  <2>2. CASE ~(blocker \/ sender.attempt = maxAttempts)
    <3>1. sender' = [sender EXCEPT !.step = "look", !.attempt = @ + 1] /\ sender.step = "refused"
          /\ UNCHANGED reply
        BY <1>9, <2>2 DEF TriesAgain
    <3>2. /\ sender'.step = "look" /\ sender'.attempt = sender.attempt + 1
          /\ sender'.baseline = sender.baseline
        BY <1>2, <3>1 DEF Senders
    <3>3. sender.attempt >= 1 /\ sender'.attempt > 1
        BY <1>2, <1>3, <3>1, <3>2
    <3>4. Newest' = Newest /\ Looked' /\ Looked
        BY <1>1, <3>1, <3>2, <3>3 DEF Newest, Looked
    <3>5. sender'.attempt >= 1
        BY <1>2, <3>2, <3>3
    <3>6. InTurn' /\ IsRemembered' /\ Once'
        BY <1>1, <3>2, <3>4, <3>5, ChatMoves
    <3> QED BY <3>1, <3>2, <3>6 DEF ReplyIsToTheMessage
  <2> QED BY <2>1, <2>2
<1>10. CASE ReplyTimesOut
  <2>1. sender'.step = "idle" /\ sender.step = "reply"
      BY <1>2, <1>10 DEF ReplyTimesOut
  <2> QED BY <1>4, <2>1
<1>11. CASE PollsReply
  <2>1. CASE sender' = Idle(sender.pacer) \/ sender' = GivenUp
    <3>1. sender'.step = "idle" /\ sender.step = "reply"
        BY <1>2, <1>11, <2>1 DEF PollsReply
    <3> QED BY <1>4, <3>1
  <2>2. CASE sender' = [sender EXCEPT !.sawNew = TRUE] /\ UNCHANGED reply
    <3>1. sender'.step = "reply" /\ sender.step = "reply"
        BY <1>2, <1>11, <2>2 DEF PollsReply, Senders
    <3>2. Newest' = Newest /\ ~Looked'
        BY <1>1, <3>1 DEF Newest, Looked
    <3>3. InTurn' /\ IsRemembered' /\ Once'
        BY <1>1, <3>1, <3>2, ChatMoves
    <3> QED BY <1>1, <2>2, <3>1, <3>3 DEF ReplyIsToTheMessage
  <2> QED BY <1>11, <2>1, <2>2 DEF PollsReply
<1> QED BY <1>6, <1>7, <1>8, <1>9, <1>10, <1>11

\* The next attempt, in the conversation there is or in a new one.
LEMMA ChatOfTheNextAttempt ==
    ASSUME Shape, InTurn, IsRemembered, Once, ReplyIsToTheMessage, runTask
    PROVE  InTurn' /\ IsRemembered' /\ Once' /\ ReplyIsToTheMessage'
<1>1. /\ sender.step = "idle" /\ sender'.step = "idle"
      /\ UNCHANGED <<texts, counts, reply>> /\ Message' = Message
    BY OneMore DEF runTask, Shape, InNewChat, page, Message
<1>2. Newest' = Newest /\ ~Looked'
    BY <1>1 DEF Newest, Looked
<1>3. CASE UNCHANGED page
  <2>1. UNCHANGED <<turns, flight>>
      BY <1>3 DEF page
  <2>2. InTurn' /\ IsRemembered' /\ Once'
      BY <1>1, <1>2, <2>1, ChatMoves
  <2> QED BY <1>1, <2>2 DEF ReplyIsToTheMessage
<1>4. CASE InNewChat
  <2>1. turns' = <<>> /\ DOMAIN turns' = {} /\ flight' = {}
      BY <1>4 DEF InNewChat
  <2>2. InTurn'
      BY <1>1, <2>1 DEF InTurn
  <2>3. IsRemembered'
      BY <1>1, <1>2 DEF IsRemembered
  <2>4. Once'
      BY <1>1, <2>1 DEF Once, OnceAtMost
  <2> QED BY <1>1, <2>2, <2>3, <2>4 DEF ReplyIsToTheMessage
<1> QED BY <1>3, <1>4 DEF runTask

LEMMA ChatStep ==
    ASSUME ClicksLandInTime, ChatInv, [Next]_vars
    PROVE  ChatInv'
<1>1. Shape /\ Shape'
    BY ShapeStep DEF ChatInv
<1>2. CASE UNCHANGED vars \/ GetLost \/ AnswerFinishes \/ BlockerComesUp \/ BlockerIsCleared \/ Tick
  <2>1. UNCHANGED <<sender, texts, turns, counts, reply>> /\ flight' \subseteq flight
      BY <1>2 DEF vars, GetLost, AnswerFinishes, BlockerComesUp, BlockerIsCleared, Tick, page
  <2>2. Newest' = Newest /\ (Looked' <=> Looked) /\ Message' = Message
      BY <2>1 DEF Newest, Looked, Message
  <2>3. sender.step \in {"look", "clear", "click", "accept", "refused"} => sender.attempt >= 1
      BY DEF ChatInv, InTurn
  <2>4. InTurn' /\ IsRemembered' /\ Once'
      BY <2>1, <2>2, <2>3, ChatMoves DEF ChatInv
  <2>5. ReplyIsToTheMessage'
      BY <2>1, <2>2 DEF ChatInv, ReplyIsToTheMessage
  <2> QED BY <1>1, <2>4, <2>5 DEF ChatInv
<1>3. CASE Land
    BY <1>1, <1>3, ChatLands DEF ChatInv
<1>4. CASE NewMessage
    BY <1>1, <1>4, ChatNewMessage DEF ChatInv
<1>5. CASE LookFirst
    BY <1>1, <1>5, ChatIsLookedAt DEF ChatInv
<1>6. CASE ClicksSend
    BY <1>1, <1>6, ChatIsClicked DEF ChatInv
<1>7. CASE SeesItAccepted
    BY <1>1, <1>7, ChatIsAccepted DEF ChatInv
<1>8. CASE GapIsOver \/ PassesPacer \/ ClearsBlockers \/ SeesItRefused \/ TriesAgain
              \/ PollsReply \/ ReplyTimesOut
    BY <1>1, <1>8, ChatIsWaitedFor DEF ChatInv
<1>9. CASE runTask
    BY <1>1, <1>9, ChatOfTheNextAttempt DEF ChatInv
<1> QED BY <1>2, <1>3, <1>4, <1>5, <1>6, <1>7, <1>8, <1>9 DEF Next, Runner

(***************************************************************************)
(* What the looks of sendAndConfirm remember of the conversation is so in  *)
(* every state, where no click lands once the runner has looked again.     *)
(***************************************************************************)
THEOREM ChatInductive == ASSUME ClicksLandInTime PROVE Spec => []ChatInv
<1>1. Init => ChatInv
  <2> SUFFICES ASSUME Init
               PROVE  ChatInv
      OBVIOUS
  <2>1. Idle(1) \in Senders /\ Idle(1).step = "idle" /\ Idle(1).pacer = 1
      BY AnIdleSender
  <2>2. Shape
      BY <2>1 DEF Init, Shape, NeverSent
  <2>3. InTurn /\ IsRemembered /\ Once /\ ReplyIsToTheMessage
      BY <2>1 DEF Init, InTurn, IsRemembered, Looked, Once, ReplyIsToTheMessage
  <2> QED BY <2>2, <2>3 DEF ChatInv
<1>2. ChatInv /\ [Next]_vars => ChatInv'
    BY ChatStep
<1> QED BY <1>1, <1>2, PTL DEF Spec

(***************************************************************************)
(* sendAndConfirm, when no click lands once the runner has looked again:   *)
(* however many attempts a message took, and whatever the page lost or     *)
(* kept to itself, it stands in the chat once - unless it reads as the     *)
(* message before it.                                                      *)
(***************************************************************************)
THEOREM MessagesAreSentOnce == ASSUME ClicksLandInTime PROVE Spec => []SentOnce
<1>1. ChatInv => SentOnce
  <2> SUFFICES ASSUME ChatInv, NEW m \in DOMAIN texts, ~ReadsAsTheOneBefore(m)
               PROVE  TimesInChat(m) <= 1
      BY DEF SentOnce
  <2> DEFINE S == {i \in DOMAIN turns : turns[i] = m}
  <2>1. \A i, j \in S : i = j
      BY DEF ChatInv, Once, OnceAtMost
  <2>2. CASE S = {}
      BY <2>2, FS_EmptySet DEF TimesInChat
  <2>3. CASE S # {}
    <3>1. PICK i \in S : S = {i}
        BY <2>1, <2>3
    <3>2. Cardinality({i}) = 1
        BY FS_Singleton
    <3>3. TimesInChat(m) = Cardinality(S)
        BY DEF TimesInChat
    <3> HIDE DEF S
    <3> QED BY <3>1, <3>2, <3>3
  <2> QED BY <2>2, <2>3
<1> QED BY <1>1, ChatInductive, PTL

(***************************************************************************)
(* waitForAccepted and waitForReply, when no click lands once the runner   *)
(* has looked again: what is taken for accepted is the newest in the chat, *)
(* and what is taken for its reply answers it.                             *)
(***************************************************************************)
THEOREM RepliesAreToTheMessage == ASSUME ClicksLandInTime PROVE Spec => []ReplyIsToTheMessage
<1>1. ChatInv => ReplyIsToTheMessage
    BY DEF ChatInv
<1> QED BY <1>1, ChatInductive, PTL
=============================================================================
