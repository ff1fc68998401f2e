-------------------------------- MODULE Pacer --------------------------------
(***************************************************************************)
(* util/pacing.ts: the pause the operator sets between two messages, and   *)
(* the cap on the messages of an hour.  A pacer is the times of the        *)
(* messages it let through (sentAt); the time of the program's last        *)
(* message (lastSentAt) is one for every pacer.                            *)
(***************************************************************************)
EXTENDS Naturals, Sequences

CONSTANTS
    Hour,               \* the length of an hour, in ticks of the clock
    Gap,                \* the pauses the settings may draw, in ticks
    maxMessagesPerHour  \* the cap

ASSUME PacerAssumption ==
    /\ Hour \in Nat \ {0} /\ maxMessagesPerHour \in Nat \ {0}
    /\ Gap \subseteq Nat /\ Gap # {}

NeverSent == 0

\* When the pause that was drawn is over: at once before the program's first message.
GapOver(lastSentAt, gap) == IF lastSentAt = NeverSent THEN 0 ELSE lastSentAt + gap

(***************************************************************************)
(* How many times are shifted off the front: those of over an hour ago.  A *)
(* message of exactly an hour ago is still one.                            *)
(***************************************************************************)
ShiftedOff(sentAt, now, n) ==
    /\ \A i \in 1..n : now - sentAt[i] > Hour
    /\ n < Len(sentAt) => now - sentAt[n + 1] <= Hour

(* Mutant: the cap is asked for one message late. *)
CapOverOneMore(sentAt) ==
    IF Len(sentAt) > maxMessagesPerHour THEN Head(sentAt) + Hour ELSE 0

\* When the cap lets one more through: once the oldest kept is an hour old.
CapOver(sentAt) ==
    IF Len(sentAt) >= maxMessagesPerHour THEN Head(sentAt) + Hour ELSE 0
=============================================================================
