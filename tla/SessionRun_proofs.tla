--------------------------- MODULE SessionRun_proofs ---------------------------
(***************************************************************************)
(* What SessionRun's run shows for one session holds of it in every state  *)
(* and at every step.  The lock is kept only because a run that is about   *)
(* to be registered was asked about it already (LockKnown); a card is left *)
(* to nobody only if it was put so, or if the run went over to not asking  *)
(* while it waited.                                                        *)
(***************************************************************************)
EXTENDS SessionRun, TLAPS

\* From the moment its rules are made, a locked run is one that asks.
LockKnown == phase = "loaded" \/ Running => (run.rules.lock => run.mode = "confirm")

IInv == TypeOK /\ LockKnown /\ NobodyLeftAsked

-----------------------------------------------------------------------------
(* The shape of what a run is made of. *)
LEMMA FreshRun ==
    ASSUME NEW rules \in Rules
    PROVE  /\ Nothing(rules) \in [mode : Modes, rules : Rules, stopped : BOOLEAN]
           /\ Nothing(rules).mode = "confirm"
BY DEF Nothing, Modes

(* A run after Stop, or with another mode, is one of the same shape. *)
LEMMA ChangedRun ==
    ASSUME NEW r \in [mode : Modes, rules : Rules, stopped : BOOLEAN],
           NEW mode \in Modes, NEW rules \in Rules
    PROVE  /\ [r EXCEPT !.stopped = TRUE] \in [mode : Modes, rules : Rules, stopped : BOOLEAN]
           /\ [r EXCEPT !.stopped = TRUE].mode = r.mode
           /\ [r EXCEPT !.stopped = TRUE].rules = r.rules
           /\ [r EXCEPT !.mode = mode] \in [mode : Modes, rules : Rules, stopped : BOOLEAN]
           /\ [r EXCEPT !.mode = mode].mode = mode
           /\ [r EXCEPT !.mode = mode].rules = r.rules
           /\ [r EXCEPT !.rules = rules] \in [mode : Modes, rules : Rules, stopped : BOOLEAN]
           /\ [r EXCEPT !.rules = rules].rules = rules
           /\ [r EXCEPT !.rules = rules].mode = r.mode
           /\ [r EXCEPT !.rules = rules, !.mode = mode] \in [mode : Modes, rules : Rules, stopped : BOOLEAN]
           /\ [r EXCEPT !.rules = rules, !.mode = mode].rules = rules
           /\ [r EXCEPT !.rules = rules, !.mode = mode].mode = mode
OBVIOUS

LEMMA IInvInit == Init => IInv
BY FreshRun DEF Init, IInv, TypeOK, LockKnown, NobodyLeftAsked, Phases, Registered, Running,
   NoStep, Unattended

-----------------------------------------------------------------------------
(* The start and the end of a run keep it: only a run that passed the      *)
(* precondition is ever registered.                                        *)
LEMMA WayInAndOutKept ==
    ASSUME IInv,
           \/ \E mode \in Modes : start(mode)
           \/ NotStarted \/ LoadsSettings \/ Registers \/ GateRefuses \/ Begins
           \/ WorkEnds \/ ClosesWindow \/ Forgets \/ releaseBrowser \/ LockChanges \/ Restarts
    PROVE  IInv'
<1> USE DEF IInv, TypeOK, LockKnown, NobodyLeftAsked, Running, Registered, Phases, Unattended
<1>1. ASSUME NEW mode \in Modes, start(mode)
      PROVE  IInv'
    BY <1>1, FreshRun, ChangedRun DEF start
<1>2. CASE LoadsSettings
    BY <1>2, ChangedRun DEF LoadsSettings, unattendedPrecondition, Modes
<1>3. CASE NotStarted \/ Registers \/ GateRefuses \/ WorkEnds
    BY <1>3 DEF NotStarted, Registers, GateRefuses, WorkEnds, GoTo
<1>4. CASE Begins \/ ClosesWindow
    BY <1>4 DEF Begins, ClosesWindow
<1>5. CASE Forgets \/ releaseBrowser \/ Restarts
    BY <1>5, FreshRun DEF Forgets, releaseBrowser, Restarts, NoStep
<1>6. CASE LockChanges
  <2>1. settings' \in Rules
      BY <1>6 DEF LockChanges, Rules
  <2> QED BY <1>6, <2>1 DEF LockChanges
<1> QED BY <1>1, <1>2, <1>3, <1>4, <1>5, <1>6

(* A command and a question keep it: what is put on a card of a run that   *)
(* does not ask is the operator's in every mode.                           *)
LEMMA CommandKept ==
    ASSUME IInv, Proposes \/ authorize \/ PutsQuestion \/ AgreesToQuestion \/ StartsStep \/ StepEnds
    PROVE  IInv'
<1> USE DEF IInv, TypeOK, LockKnown, NobodyLeftAsked, Running, Registered, Phases, Unattended
<1>1. CASE Proposes
    BY <1>1 DEF Proposes
<1>2. CASE authorize
  <2> DEFINE kind == AsJudged(step.kind)
             by == IF Unattended THEN "rules" ELSE "answer"
  <2>1. kind \in Commands /\ by \in {"rules", "answer"}
      BY <1>2 DEF authorize, AsJudged, Commands
  <2>2. /\ phase = "proposed" /\ UNCHANGED run
        /\ \/ Skips(kind)
           \/ Decides(kind, by)
           \/ ~Refused(kind) /\ ~LetRun(kind) /\ PutsCard(kind)
      BY <1>2 DEF authorize
  <2> HIDE DEF kind, by
  <2>3. CASE Skips(kind)
      BY <2>1, <2>2, <2>3 DEF Skips
  <2>4. CASE Decides(kind, by)
      BY <2>1, <2>2, <2>4 DEF Decides
  <2>5. CASE ~Refused(kind) /\ ~LetRun(kind) /\ PutsCard(kind)
    <3>1. ASSUME run.mode = "unattended"
          PROVE  kind \notin {"plain", "watched"}
        BY <2>5, <3>1 DEF Refused, staticCheck, LetRun, ForTheOperator
    <3> QED BY <2>1, <2>2, <2>5, <3>1 DEF PutsCard
  <2> QED BY <2>2, <2>3, <2>4, <2>5
<1>3. CASE PutsQuestion \/ AgreesToQuestion
    BY <1>3 DEF PutsQuestion, PutsCard, AgreesToQuestion, NoStep, ChosenRun
<1>4. CASE StartsStep \/ StepEnds
    BY <1>4 DEF StartsStep, StepEnds, GoTo
<1> QED BY <1>1, <1>2, <1>3, <1>4

(* Every answer ends the card it answers. *)
LEMMA AnswersKept ==
    ASSUME IInv, decide \/ decideRunAll \/ AnswersQuestion \/ stop
    PROVE  IInv'
<1> USE DEF IInv, TypeOK, LockKnown, NobodyLeftAsked, Running, Registered, Phases, Unattended,
        AnsweredRun, Skips, Decides
<1>1. CASE decide
    BY <1>1 DEF decide
<1>2. CASE decideRunAll
  <2> DEFINE mode == IF unattendedPrecondition("unattended", run.rules) THEN "unattended" ELSE run.mode
  <2>1. mode \in Modes /\ (run.rules.lock => mode = "confirm")
      BY <1>2 DEF decideRunAll, unattendedPrecondition, Modes
  <2>2. run' = [run EXCEPT !.mode = mode] /\ AnsweredRun("operator", mode)
      BY <1>2 DEF decideRunAll
  <2> HIDE DEF mode
  <2>3. run' \in [mode : Modes, rules : Rules, stopped : BOOLEAN]
        /\ run'.mode = mode /\ run'.rules = run.rules
      BY <2>1, <2>2, ChangedRun
  <2>4. phase = "card" /\ step.kind \in Commands
      BY <1>2 DEF decideRunAll
  <2> QED BY <2>1, <2>2, <2>3, <2>4
<1>3. CASE AnswersQuestion
    BY <1>3 DEF AnswersQuestion, NoStep, ChosenRun
<1>4. CASE stop
  <2>1. run' \in [mode : Modes, rules : Rules, stopped : BOOLEAN]
        /\ run'.mode = run.mode /\ run'.rules = run.rules
      BY <1>4, ChangedRun DEF stop
  <2> QED BY <1>4, <2>1 DEF stop
<1> QED BY <1>1, <1>2, <1>3, <1>4

(* The switch leaves no card that nobody will answer. *)
LEMMA SwitchKept ==
    ASSUME IInv, NEW mode \in Modes, setRunMode(mode)
    PROVE  IInv'
<1> USE DEF IInv, TypeOK, LockKnown, NobodyLeftAsked, Running, Registered, Phases, Unattended
<1>1. run' \in [mode : Modes, rules : Rules, stopped : BOOLEAN]
      /\ run'.mode = mode /\ run'.rules = run.rules
    BY ChangedRun DEF setRunMode
<1>2. run.rules.lock => mode = "confirm"
    BY DEF setRunMode, unattendedPrecondition, Modes
<1>3. CASE mode = "unattended" /\ LetGo
    BY <1>1, <1>2, <1>3 DEF setRunMode, LetGo, AnsweredRun, Skips, Decides
<1>4. CASE ~(mode = "unattended" /\ LetGo)
  <2>1. UNCHANGED <<phase, status, settings, step>>
      BY <1>4 DEF setRunMode
  <2>2. phase = "card" /\ mode = "unattended" => step.kind \notin {"plain", "watched"}
      BY <1>4 DEF LetGo, ForTheOperator, Commands
  <2> QED BY <1>1, <1>2, <2>1, <2>2
<1> QED BY <1>3, <1>4

(* A save that brings the lock ends running without asking. *)
LEMMA SaveKept == IInv /\ saveSettings => IInv'
<1> SUFFICES ASSUME IInv, saveSettings
             PROVE  IInv'
    OBVIOUS
<1> USE DEF IInv, TypeOK, LockKnown, NobodyLeftAsked, Running, Registered, Phases, Unattended
<1>1. PICK saved \in {rules \in Rules : rules.lock = settings.lock}, other \in BOOLEAN :
        /\ settings' = saved
        /\ run' = IF Running
                    THEN [run EXCEPT !.rules = take(saved, other),
                                     !.mode = IF take(saved, other).lock THEN "confirm" ELSE @]
                    ELSE run
        /\ UNCHANGED <<phase, status, step>>
    BY DEF saveSettings
<1>2. saved \in Rules
    BY <1>1
<1>3. take(saved, other) \in Rules
    BY <1>2 DEF take
<1>4. CASE ~Running
    BY <1>1, <1>2, <1>4
<1>5. CASE Running
  <2> DEFINE mode == IF take(saved, other).lock THEN "confirm" ELSE run.mode
  <2>1. mode \in Modes
      BY DEF Modes
  <2>2. run' = [run EXCEPT !.rules = take(saved, other), !.mode = mode]
      BY <1>1, <1>5, Zenon
  <2>3. take(saved, other).lock => mode = "confirm"
      OBVIOUS
  <2>4. mode = "unattended" => run.mode = "unattended"
      OBVIOUS
  <2> HIDE DEF mode
  <2>5. run' \in [mode : Modes, rules : Rules, stopped : BOOLEAN]
        /\ run'.mode = mode /\ run'.rules = take(saved, other)
      BY <1>3, <2>1, <2>2, ChangedRun
  <2> QED BY <1>1, <1>2, <1>3, <1>5, <2>3, <2>4, <2>5
<1> QED BY <1>4, <1>5

-----------------------------------------------------------------------------
(* Every step of the run, the operator and the machine keeps it. *)
THEOREM Inductive == IInv /\ [Next]_vars => IInv'
<1> SUFFICES ASSUME IInv, [Next]_vars
             PROVE  IInv'
    OBVIOUS
<1>1. CASE Work
    BY <1>1, WayInAndOutKept, CommandKept DEF Work
<1>2. CASE Operator
    BY <1>2, WayInAndOutKept, AnswersKept, SwitchKept, SaveKept DEF Operator
<1>3. CASE LockChanges \/ Restarts
    BY <1>3, WayInAndOutKept
<1>4. CASE UNCHANGED vars
    BY <1>4 DEF vars, IInv, TypeOK, LockKnown, NobodyLeftAsked, Running, Unattended
<1> QED BY <1>1, <1>2, <1>3, <1>4 DEF Next

(* It holds in every state of every behaviour. *)
THEOREM Invariant == Spec => []IInv
BY IInvInit, Inductive, PTL DEF Spec

(* Every variable has its shape, and a command at hand is one of the kinds. *)
THEOREM TypeCorrect == Spec => []TypeOK
<1>1. IInv => TypeOK
    BY DEF IInv
<1> QED BY <1>1, Invariant, PTL

(* A run that knows of the machine's lock - of its own start, or taken     *)
(* with a save since - asks.                                               *)
THEOREM LockAlwaysKept == Spec => []LockIsKept
<1>1. IInv => LockIsKept
    BY DEF IInv, LockKnown, LockIsKept
<1> QED BY <1>1, Invariant, PTL

(* No card waits for an answer nobody will give. *)
THEOREM NobodyIsLeftAsked == Spec => []NobodyLeftAsked
<1>1. IInv => NobodyLeftAsked
    BY DEF IInv
<1> QED BY <1>1, Invariant, PTL

-----------------------------------------------------------------------------
GoesByThem ==
    phase # "decided" /\ phase' = "decided" =>
       /\ step'.kind = "watched" => run'.mode = "confirm"
       /\ phase = "proposed" /\ step.kind = "platform" => run.rules.questions = "agree"
       /\ step'.by = "rules" =>
             /\ run'.mode = "unattended" /\ step'.kind \notin {"platform", "unclear"}
             /\ step'.kind = "fetch" => run'.rules.fetch = "run"
             /\ step'.kind = "script" => run'.rules.scripts = "run"
       /\ step'.by = "answer" =>
             run'.mode = "confirm" /\ step'.kind \in {"plain", "watched"} /\ step.by = "answer"

(* A command decided without a card is one the rules let run, or plainly   *)
(* that of the answer its question got.                                    *)
LEMMA JudgedByThem == TypeOK /\ authorize => GoesByThem
<1> SUFFICES ASSUME TypeOK, authorize, phase' = "decided"
             PROVE  GoesByThem
    BY DEF GoesByThem
<1> DEFINE kind == AsJudged(step.kind)
           by == IF Unattended THEN "rules" ELSE "answer"
<1>1. /\ phase = "proposed" /\ UNCHANGED run
      /\ ~Refused(kind) /\ LetRun(kind) /\ Decides(kind, by)
    BY DEF authorize, Skips, PutsCard
<1>2. step'.kind = kind /\ step'.by = by
    BY <1>1 DEF Decides
<1>3. run.mode \in Modes /\ kind \in Commands
    BY <1>1 DEF TypeOK, AsJudged, Commands
<1>4. step.kind = "platform" => run.rules.questions = "agree"
    BY <1>1 DEF AsJudged, LetRun, ForTheOperator
<1> HIDE DEF kind
<1>5. CASE Unattended
    BY <1>1, <1>2, <1>3, <1>4, <1>5 DEF GoesByThem, LetRun, Refused, staticCheck, ForTheOperator,
       Unattended, Modes, Commands
<1>6. CASE ~Unattended
    BY <1>1, <1>2, <1>3, <1>4, <1>6 DEF GoesByThem, LetRun, Unattended, Modes
<1> QED BY <1>5, <1>6

(* A command the operator's answer let run was judged again as the run is now. *)
LEMMA AnsweredByThem == TypeOK /\ (decide \/ decideRunAll) => GoesByThem
<1> SUFFICES ASSUME TypeOK, decide \/ decideRunAll
             PROVE  GoesByThem
    OBVIOUS
<1> USE DEF GoesByThem, AnsweredRun, Skips, Decides, staticCheck
<1>1. CASE decide
    BY <1>1 DEF decide
<1>2. CASE decideRunAll
  <2> DEFINE mode == IF unattendedPrecondition("unattended", run.rules) THEN "unattended" ELSE run.mode
  <2>1. phase = "card" /\ run' = [run EXCEPT !.mode = mode] /\ AnsweredRun("operator", mode)
      BY <1>2 DEF decideRunAll
  <2>2. run'.mode = mode
      BY <2>1 DEF TypeOK
  <2> HIDE DEF mode
  <2> QED BY <2>1, <2>2
<1> QED BY <1>1, <1>2

(* A card the switch lets go is not one held for the operator. *)
LEMMA LetGoByThem == ASSUME TypeOK, NEW mode \in Modes, setRunMode(mode) PROVE GoesByThem
<1>1. run'.mode = mode /\ run'.rules = run.rules
    BY DEF setRunMode, TypeOK
<1> QED BY <1>1 DEF setRunMode, GoesByThem, LetGo, AnsweredRun, Skips, Decides, staticCheck,
     ForTheOperator, Commands, TypeOK

(* What is let run is let run by the rules of the run as it is then, by    *)
(* the operator's answer to its card, or, where nothing holds it, by the   *)
(* answer to the question that carried it.                                 *)
THEOREM EveryCommandGoesByItsRules == Spec => GoesByItsRules
<1>1. TypeOK /\ [Next]_vars => [GoesByThem]_vars
  <2> SUFFICES ASSUME TypeOK, Next
               PROVE  GoesByThem
      OBVIOUS
  <2>1. CASE authorize \/ decide \/ decideRunAll
      BY <2>1, JudgedByThem, AnsweredByThem
  <2>2. CASE \E mode \in Modes : setRunMode(mode)
      BY <2>2, LetGoByThem
  <2>3. CASE \/ \E mode \in Modes : start(mode)
             \/ NotStarted \/ LoadsSettings \/ Begins \/ ClosesWindow \/ Forgets \/ releaseBrowser
      BY <2>3 DEF start, NotStarted, LoadsSettings, Begins, ClosesWindow, Forgets, releaseBrowser,
         GoTo, GoesByThem
  <2>4. CASE Registers \/ GateRefuses \/ WorkEnds \/ StartsStep \/ StepEnds \/ Proposes \/ PutsQuestion
      BY <2>4 DEF Registers, GateRefuses, WorkEnds, StartsStep, StepEnds, Proposes, PutsQuestion, PutsCard,
         GoTo, GoesByThem
  <2>5. CASE AgreesToQuestion \/ AnswersQuestion \/ stop \/ saveSettings \/ LockChanges \/ Restarts
      BY <2>5 DEF AgreesToQuestion, AnswersQuestion, stop, saveSettings, LockChanges, Restarts, GoesByThem
  <2> QED BY <2>1, <2>2, <2>3, <2>4, <2>5 DEF Next, Work, Operator
<1>2. Spec => [][GoesByThem]_vars
    BY <1>1, TypeCorrect, PTL DEF Spec
<1> QED BY <1>2 DEF GoesByItsRules, GoesByThem
=============================================================================
