------------------------------ MODULE SessionRun ------------------------------
(***************************************************************************)
(* One run of a session, as the service has it (api/operator.service.ts):  *)
(* started, registered, worked and forgotten, while the operator presses   *)
(* Stop, switches between asking and not asking, answers cards and saves   *)
(* Settings, and the bot may be closed.  Whether a command of the run is   *)
(* refused, let run or put to the operator is exec/authorizer.ts, by rules *)
(* that change under it (config/live.ts).                                  *)
(*                                                                         *)
(* The browser takes one run at a time and a run asks one thing at a time, *)
(* so one session and one card are all there is.  What the work is between *)
(* two commands is TaskLoop's; how a parked card is answered for a later   *)
(* run, and a start that other users of the browser keep out, are          *)
(* OperatorQueue's.  Of the reasons to refuse a run without asking (the    *)
(* lock, no isolation, no programs listed) the lock stands for all.        *)
(***************************************************************************)
VARIABLES
    phase,      \* where the run is
    status,     \* of the session, on disk
    settings,   \* as saved, with the lock as the machine's file has it
    run,        \* its mode, the rules its steps are judged by, and Stop
    step        \* the command at hand, or what else is asked, and who let it run

vars == <<phase, status, settings, run, step>>

(***************************************************************************)
(* A command may be one nobody is asked about by a run without asking      *)
(* (plain), one the rules refuse such a run (watched: a program given a    *)
(* string to run, say), a fetch from the network, one that reaches a       *)
(* platform with the operator's access, one of a program set to read only  *)
(* that may write (unclear), or one that runs a script the bot wrote.      *)
(***************************************************************************)
Commands == {"plain", "watched", "fetch", "platform", "unclear", "script"}

Modes == {"confirm", "unattended"}
Rules == [lock : BOOLEAN, fetch : {"ask", "run", "refuse"}, scripts : {"ask", "run"},
          questions : {"ask", "agree"}]

Registered == {"gate", "between", "proposed", "card", "decided", "step", "closing", "left"}
Phases == Registered \cup {"free", "preflight", "loaded", "window"}

NoStep == [kind |-> "none", by |-> "nobody"]

\* The answer a question got carries a command, allowed with it: the next reply's one step.
ChosenRun == [kind |-> "answer", by |-> "answer"]
Nothing(rules) == [mode |-> "confirm", rules |-> rules, stopped |-> FALSE]

Init ==
    /\ phase = "free" /\ status = "idle"
    /\ settings \in Rules
    /\ run = Nothing(settings)
    /\ step = NoStep

Running == phase \in Registered
Unattended == run.mode = "unattended"

-----------------------------------------------------------------------------
(***************************************************************************)
(* The start, and the end.                                                 *)
(***************************************************************************)
unattendedPrecondition(mode, rules) == mode = "unattended" => ~rules.lock

GoTo(next) == phase' = next /\ UNCHANGED <<status, settings, run, step>>

\* The browser is looked at and taken at once.
start(mode) ==
    /\ phase = "free"
    /\ phase' = "preflight"
    /\ run' = [Nothing(settings) EXCEPT !.mode = mode]
    /\ UNCHANGED <<status, settings, step>>

NotStarted == phase = "preflight" /\ GoTo("free")

\* The run's own rules, made of the settings read now.
LoadsSettings ==
    /\ phase = "preflight"
    /\ unattendedPrecondition(run.mode, settings)
    /\ phase' = "loaded"
    /\ run' = [run EXCEPT !.rules = settings]
    /\ UNCHANGED <<status, settings, step>>

\* Once its record is written: from here Stop and Settings find the run.
Registers == phase = "loaded" /\ GoTo("gate")

\* Refused by version control at its turn: the session is left as it is.
GateRefuses == phase = "gate" /\ GoTo("left")

Begins ==
    /\ phase = "gate"
    /\ phase' = "between"
    /\ status' = "running"
    /\ UNCHANGED <<settings, run, step>>

\* The work is over, stopped or broken off.
WorkEnds == phase = "between" /\ GoTo("closing")

\* The window closed or kept, then the session idle.
ClosesWindow ==
    /\ phase = "closing"
    /\ phase' = "left"
    /\ status' = "idle"
    /\ UNCHANGED <<settings, run, step>>

\* What was left behind is looked at and counted, and then the run is no more.
Forgets ==
    /\ phase = "left"
    /\ phase' = "window"
    /\ run' = Nothing(settings)
    /\ step' = NoStep
    /\ UNCHANGED <<status, settings>>

\* The notice in the chat's window shown, the browser is free.
releaseBrowser ==
    /\ phase = "window"
    /\ phase' = "free"
    /\ run' = Nothing(settings)
    /\ UNCHANGED <<status, settings, step>>

-----------------------------------------------------------------------------
(***************************************************************************)
(* A command: proposed, judged, put to the operator, run.                  *)
(***************************************************************************)
\* What a run without asking asks about all the same.
ForTheOperator(kind) ==
    \/ kind \in {"fetch", "platform", "unclear"}
    \/ kind = "script" /\ run.rules.scripts # "run"

\* The rules that refuse, as the run is watched or not.
staticCheck(kind, mode) == kind = "watched" => mode = "confirm"

Refused(kind) ==
    \/ ~staticCheck(kind, run.mode)
    \/ kind = "fetch" /\ Unattended /\ run.rules.fetch = "refuse"

\* Settings that agree to what the chat proposes agree to platforms: one is then as any command.
AsJudged(kind) == IF kind = "platform" /\ run.rules.questions = "agree" THEN "plain" ELSE kind

\* Without asking, or as the command of the answer a question got: the holds apply to both.
LetRun(kind) ==
    \/ Unattended /\ (~ForTheOperator(kind) \/ (kind = "fetch" /\ run.rules.fetch = "run"))
    \/ step.by = "answer" /\ kind \in {"plain", "watched"}

Skips(kind) ==
    /\ phase' = "between"
    /\ step' = [kind |-> kind, by |-> "nobody"]
    /\ UNCHANGED <<status, settings>>

Decides(kind, by) ==
    /\ phase' = "decided"
    /\ step' = [kind |-> kind, by |-> by]
    /\ UNCHANGED <<status, settings>>

PutsCard(kind) ==
    /\ phase' = "card"
    /\ step' = [kind |-> kind, by |-> "nobody"]
    /\ UNCHANGED <<status, settings>>

\* Written down as waiting, before it is judged: of the answer just given, or of a later reply.
Proposes == \E kind \in Commands, by \in {"nobody", "answer"} :
    /\ phase = "between" /\ ~run.stopped
    /\ by = "answer" => step = ChosenRun
    /\ phase' = "proposed"
    /\ step' = [kind |-> kind, by |-> by]
    /\ UNCHANGED <<status, settings, run>>

\* The run's Stop is asked first, then the rules, and then the operator.
authorize ==
    /\ phase = "proposed"
    /\ LET kind == AsJudged(step.kind)
           asked == ~run.stopped /\ ~Refused(kind)
       IN  \/ ~asked /\ Skips(kind)
           \/ asked /\ LetRun(kind) /\ Decides(kind, IF Unattended THEN "rules" ELSE "answer")
           \/ asked /\ ~LetRun(kind) /\ PutsCard(kind)
    /\ UNCHANGED run

\* A question Settings do not agree to; or a plan, a model to choose, a subtask to try again.
PutsQuestion ==
    /\ phase = "between" /\ ~run.stopped
    /\ \/ run.rules.questions = "ask" /\ PutsCard("question")
       \/ PutsCard("choice")
    /\ UNCHANGED run

\* A question answered as the chat recommends, without a card.
AgreesToQuestion ==
    /\ phase = "between" /\ ~run.stopped
    /\ run.rules.questions = "agree"
    /\ step' \in {NoStep, ChosenRun}
    /\ UNCHANGED <<phase, status, settings, run>>

\* Stop is looked for once more, after the answer is written down.
StartsStep ==
    /\ phase = "decided"
    /\ IF run.stopped THEN GoTo("between") ELSE GoTo("step")

StepEnds == phase = "step" /\ GoTo("between")

-----------------------------------------------------------------------------
(***************************************************************************)
(* What the operator may do.                                               *)
(***************************************************************************)
(* Mutant: what was judged as a watched run's is not judged again. *)
AnsweredRunAsAsked(by, mode) == Decides(step.kind, by)

\* A run nobody watches from now on is put to its rules before the step goes.
AnsweredRun(by, mode) ==
    IF staticCheck(step.kind, mode) THEN Decides(step.kind, by) ELSE Skips(step.kind)

\* run, skip or abort; a skip lets the work go on, an abort ends it, which WorkEnds does.
decide ==
    /\ phase = "card" /\ step.kind \in Commands
    /\ AnsweredRun("operator", run.mode) \/ Skips(step.kind)
    /\ UNCHANGED run

\* run, and the rest without asking, if such a run is allowed; the step goes either way.
decideRunAll ==
    /\ phase = "card" /\ step.kind \in Commands
    /\ LET mode == IF unattendedPrecondition("unattended", run.rules) THEN "unattended" ELSE run.mode
       IN  /\ run' = [run EXCEPT !.mode = mode]
           /\ AnsweredRun("operator", mode)

\* An answer to a question may carry a command: the click allows it, once.
AnswersQuestion ==
    /\ phase = "card" /\ step.kind \in {"question", "choice"}
    /\ phase' = "between"
    /\ step' = NoStep \/ (step.kind = "question" /\ step' = ChosenRun)
    /\ UNCHANGED <<status, settings, run>>

(* Mutant: the switch is for the steps after this one. *)
LetGoOfNone == FALSE

\* A card nobody will answer, once the run asks no more.
LetGo == phase = "card" /\ step.kind \in Commands /\ ~ForTheOperator(step.kind)

(* Mutant: the switch is not asked whether such a run is allowed. *)
SwitchesUnasked(mode) ==
    /\ Running /\ run.mode # mode
    /\ run' = [run EXCEPT !.mode = mode]
    /\ IF mode = "unattended" /\ LetGo THEN AnsweredRun("rules", mode)
       ELSE UNCHANGED <<phase, status, settings, step>>

setRunMode(mode) ==
    /\ Running /\ run.mode # mode
    /\ unattendedPrecondition(mode, run.rules)
    /\ run' = [run EXCEPT !.mode = mode]
    /\ IF mode = "unattended" /\ LetGo THEN AnsweredRun("rules", mode)
       ELSE UNCHANGED <<phase, status, settings, step>>

(* Mutant: Stop leaves the card for its answer. *)
StopLeavesCard ==
    /\ Running
    /\ run' = [run EXCEPT !.stopped = TRUE]
    /\ status' = "stopping"
    /\ UNCHANGED <<phase, settings, step>>

\* The card that waits is answered with it.
stop ==
    /\ Running
    /\ run' = [run EXCEPT !.stopped = TRUE]
    /\ status' = "stopping"
    /\ phase' = IF phase = "card" THEN "between" ELSE phase
    /\ UNCHANGED <<settings, step>>

\* What a step is judged by is taken at once, and the lock with any such change, of these or `other`.
take(saved, other) ==
    IF [saved EXCEPT !.lock = run.rules.lock] = run.rules /\ ~other THEN run.rules ELSE saved

\* Saved, and taken by the run there is: one that is locked asks from here on.
saveSettings == \E saved \in {rules \in Rules : rules.lock = settings.lock}, other \in BOOLEAN :
    LET taken == take(saved, other)
    IN  /\ settings' = saved
        /\ run' = IF Running
                    THEN [run EXCEPT !.rules = taken, !.mode = IF taken.lock THEN "confirm" ELSE @]
                    ELSE run
        /\ UNCHANGED <<phase, status, step>>

\* The machine's administrator puts the lock there, or takes it away.
LockChanges ==
    /\ settings' = [settings EXCEPT !.lock = ~@]
    /\ UNCHANGED <<phase, status, run, step>>

\* The bot is closed and started again: no run, and no session that reads as at work.
Restarts ==
    /\ phase' = "free" /\ status' = "idle"
    /\ run' = Nothing(settings)
    /\ step' = NoStep
    /\ UNCHANGED settings

-----------------------------------------------------------------------------
\* The steps the run takes by itself.
Work ==
    \/ NotStarted \/ LoadsSettings \/ Registers \/ GateRefuses \/ Begins
    \/ Proposes \/ authorize \/ PutsQuestion \/ AgreesToQuestion \/ StartsStep \/ StepEnds
    \/ WorkEnds \/ ClosesWindow \/ Forgets \/ releaseBrowser

Operator ==
    \/ \E mode \in Modes : start(mode) \/ setRunMode(mode)
    \/ decide \/ decideRunAll \/ AnswersQuestion \/ stop \/ saveSettings

Next == Work \/ Operator \/ LockChanges \/ Restarts

Spec == Init /\ [][Next]_vars

(***************************************************************************)
(* The run's own steps go on: a command has its time limits, the awaits    *)
(* are of files and of the window.  Nothing is assumed of the operator.    *)
(***************************************************************************)
FairSpec == Spec /\ WF_vars(Work)

-----------------------------------------------------------------------------
TypeOK ==
    /\ phase \in Phases
    /\ status \in {"idle", "running", "stopping"}
    /\ settings \in Rules
    /\ run \in [mode : Modes, rules : Rules, stopped : BOOLEAN]
    /\ step \in [kind : Commands \cup {"question", "choice", "answer", "none"},
                by : {"nobody", "operator", "rules", "answer"}]
    /\ phase = "card" => step.kind \in Commands \cup {"question", "choice"}
    /\ phase \in {"proposed", "decided", "step"} => step.kind \in Commands

(***************************************************************************)
(* A command is let run by the rules of the run as it is when that is      *)
(* decided (what is saved or switched between that and its start is not    *)
(* looked at again).  What is held for the operator is let run by their    *)
(* own answer to its card: not by a switch or the mode, unless Settings    *)
(* let it, nor by the answer to a question that carried it.  What a run    *)
(* without asking refuses is let run only while the run is watched         *)
(* (authorizer.ts:92, :140; taskRunner.ts:1296).                           *)
(***************************************************************************)
GoesByItsRules ==
    [][ phase # "decided" /\ phase' = "decided" =>
          /\ step'.kind = "watched" => run'.mode = "confirm"
          /\ phase = "proposed" /\ step.kind = "platform" => run.rules.questions = "agree"
          /\ step'.by = "rules" =>
                /\ run'.mode = "unattended" /\ step'.kind \notin {"platform", "unclear"}
                /\ step'.kind = "fetch" => run'.rules.fetch = "run"
                /\ step'.kind = "script" => run'.rules.scripts = "run"
          /\ step'.by = "answer" =>
                run'.mode = "confirm" /\ step'.kind \in {"plain", "watched"} /\ step.by = "answer"
      ]_vars

(***************************************************************************)
(* operator.service.ts:2610, "leaving a step on screen asking a question   *)
(* nobody will answer again": a run that does not ask waits at no card but *)
(* those that are the operator's in every mode, whatever order switches,   *)
(* answers and saves come in.                                              *)
(***************************************************************************)
NobodyLeftAsked == phase = "card" /\ Unattended => step.kind \notin {"plain", "watched"}

\* A run that knows of the lock asks, whatever it was started as or is switched to.
LockIsKept == Running /\ run.rules.lock => run.mode = "confirm"

\* A session no run has reads idle.  It does not when Stop comes after the run's last word.
RestsIdle == phase = "free" => status = "idle"

\* Stop ends the run, whatever it waits for and whatever the operator does next.
StopEnds == run.stopped ~> ~Running
=============================================================================
