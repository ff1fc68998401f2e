---------------------------- MODULE StepRun_proofs ----------------------------
(***************************************************************************)
(* Proofs about StepRun: what its run shows of two processes below the     *)
(* shell and of the shortest clocks holds of any processes and limits.     *)
(*                                                                         *)
(* ResultIsTrue needs to know what each phase leaves open.  LeftIsStopped  *)
(* rests on Covered: whatever happens, a process that is up hangs from the *)
(* shell, or from one that is gone.  HungIsSilent, for looks that come at  *)
(* once and see every window, rests on how far the clocks the code keeps   *)
(* (quiet, opened) may run ahead of what really went by.                   *)
(***************************************************************************)
EXTENDS StepRun, TLAPS

-----------------------------------------------------------------------------
(* The inductive invariant.                                                *)

\* What each phase leaves open.
Phases ==
    /\ phase \in {"call", "running"} => why = "none"
    /\ phase = "stopping" => why # "none"
    /\ phase = "given" <=> outcome # "none"
    /\ phase = "call" => begun = {}

\* Hangs from the shell, through processes that are up; or from one that is gone.
Covered(p) == p \in descendantsOf \/ ThroughOneGone(p)

\* A list made from the table misses nothing that was up then but what hangs from one gone.
Listed ==
    /\ \A p \in up : Covered(p)
    /\ jobs["reap"].table \subseteq begun
    /\ jobs["reap"].at = "asked" =>
          \A p \in up \cap jobs["reap"].table : p \in jobs["reap"].list \/ ThroughOneGone(p)
    /\ LeftIsStopped

\* The clocks the code keeps are not ahead of what really went by.
Clocks ==
    phase \in {"call", "running"} =>
       /\ ~told /\ ~window => quiet <= silence
       /\ told /\ window => opened <= shown
       /\ ~askpass => ~told /\ ~window /\ ~due /\ looking = "no"
       /\ looking = "idle" => quiet = IdleLimit
       /\ looking # "no" => phase = "running"

IInv == TypeOK /\ Phases /\ ResultIsTrue /\ Listed

-----------------------------------------------------------------------------
(* The type invariant.                                                     *)
Job == [at : {"no", "read", "asked", "done"}, table : SUBSET Procs, list : SUBSET Procs,
        failed : SUBSET Procs]
Jobs == [{"tree", "reap"} -> Job]

LEMMA TypedAtFirst == Init => TypeOK
<1>1. NoJob \in Job
    BY DEF NoJob, Job
<1>2. [j \in {"tree", "reap"} |-> NoJob] \in Jobs
    BY <1>1 DEF Jobs
<1>3. {} \subseteq Procs /\ [k \in Kids |-> k] \in [Kids -> Procs]
    BY DEF Procs
<1>4. 0 \in 0..IdleLimit /\ 0 \in 0..HardLimit /\ 0 \in 0..Ceiling
    BY StepAssumption
<1> QED BY <1>2, <1>3, <1>4 DEF Init, TypeOK, Jobs, Job

LEMMA LaterIsBounded ==
    ASSUME NEW limit \in Nat, NEW clock \in 0..limit
    PROVE  Later(clock, limit) \in 0..limit
BY DEF Later

LEMMA JobsStay ==
    ASSUME TypeOK, NEW at \in {"no", "read", "asked", "done"}, NEW j \in {"tree", "reap"}
    PROVE  [jobs EXCEPT ![j].at = at] \in Jobs
BY DEF TypeOK, Jobs, Job

LEMMA TypedFinish ==
    ASSUME TypeOK, NEW how \in Reasons \cup {"none", "not-started", "spawn-error", "completed"}, finish(how),
           UNCHANGED <<procs, looking, jobs>>
    PROVE  TypeOK'
<1>1. 0 \in 0..IdleLimit /\ 0 \in 0..HardLimit /\ 0 \in 0..Ceiling
    BY StepAssumption
<1> QED BY <1>1 DEF TypeOK, finish, procs

LEMMA TypedStop ==
    ASSUME TypeOK, NEW reason \in Reasons, stop(reason)
    PROVE  /\ phase' \in {"call", "running", "stopping", "given"}
           /\ why' \in Reasons \cup {"none"}
           /\ elapsed' \in 0..HardLimit
           /\ jobs' \in Jobs
<1>1. 0 \in 0..HardLimit
    BY StepAssumption
<1>2. jobs' \in Jobs
    BY JobsStay DEF stop, TypeOK, Jobs, Job
<1> QED BY <1>1, <1>2 DEF stop, TypeOK

LEMMA TypedHung ==
    ASSUME TypeOK, hung
    PROVE  /\ phase' \in {"call", "running", "stopping", "given"}
           /\ why' \in Reasons \cup {"none"}
           /\ elapsed' \in 0..HardLimit
           /\ jobs' \in Jobs
           /\ window' \in BOOLEAN /\ shown' \in 0..IdleLimit
<1>1. "idle-timeout" \in Reasons
    BY DEF Reasons
<1>2. 0 \in 0..IdleLimit
    BY StepAssumption
<1>3. window' \in BOOLEAN
    BY DEF hung, TypeOK
<1>4. shown' \in 0..IdleLimit
    BY <1>2 DEF hung, TypeOK
<1> QED BY <1>1, <1>3, <1>4, TypedStop DEF hung

LEMMA TypedLook ==
    ASSUME TypeOK, lookForPassword
    PROVE  TypeOK'
<1>0. 0 \in 0..IdleLimit
    BY StepAssumption
<1>1. told' \in BOOLEAN /\ opened' \in 0..IdleLimit
    BY <1>0 DEF lookForPassword, windowIsOpen, windowIsClosed, TypeOK
<1>2. held \/ notHeld
    BY DEF lookForPassword, windowIsOpen, windowIsClosed
<1>3. /\ phase' \in {"call", "running", "stopping", "given"}
      /\ why' \in Reasons \cup {"none"}
      /\ elapsed' \in 0..HardLimit
      /\ jobs' \in Jobs
      /\ window' \in BOOLEAN /\ shown' \in 0..IdleLimit
  <2>1. CASE hung
      BY <2>1, TypedHung
  <2>2. CASE UNCHANGED <<phase, why, elapsed, jobs, window, shown>>
      BY <2>2 DEF TypeOK, Jobs, Job
  <2> QED BY <1>2, <2>1, <2>2 DEF held, notHeld
<1>4. quiet' \in 0..IdleLimit
    BY <1>0, <1>2 DEF held, notHeld, TypeOK
<1> QED BY <1>1, <1>3, <1>4 DEF lookForPassword, TypeOK, Jobs, Job, procs

LEMMA TypedTick ==
    ASSUME TypeOK, Tick
    PROVE  TypeOK'
<1>0. 0 \in 0..IdleLimit
    BY StepAssumption
<1>1. quiet' \in 0..IdleLimit /\ elapsed' \in 0..HardLimit /\ opened' \in 0..IdleLimit
    BY LaterIsBounded, StepAssumption DEF Tick, TypeOK
<1>2. stopFor' \in 0..Ceiling /\ silence' \in 0..IdleLimit /\ shown' \in 0..IdleLimit
    BY <1>0, LaterIsBounded, StepAssumption DEF Tick, TypeOK
<1> QED BY <1>1, <1>2 DEF Tick, TypeOK, procs

LEMMA JobsMove ==
    ASSUME TypeOK, NEW j \in {"tree", "reap"}, processTable(j) \/ stopProcesses(j)
    PROVE  jobs' \in Jobs
<1>1. CASE processTable(j)
  <2>1. PICK table \in {up, {}} :
            jobs' = [jobs EXCEPT ![j].at = "asked", ![j].table = table,
                                 ![j].list = IF j = "tree" /\ Shell \notin table THEN {Shell}
                                             ELSE descendantsOf \cap table]
      BY <1>1 DEF processTable
  <2> DEFINE list == IF j = "tree" /\ Shell \notin table THEN {Shell}
                     ELSE descendantsOf \cap table
  <2>2. table \in SUBSET Procs
      BY DEF TypeOK
  <2>3. list \in SUBSET Procs
      BY <2>2 DEF Procs
  <2>4. jobs' = [jobs EXCEPT ![j].at = "asked", ![j].table = table, ![j].list = list]
      BY <2>1
  <2> HIDE DEF list
  <2> QED BY <2>2, <2>3, <2>4 DEF TypeOK, Jobs, Job
<1>2. CASE stopProcesses(j)
  <2>1. PICK stays \in SUBSET (jobs[j].list \cap up) :
            jobs' = [jobs EXCEPT ![j].at = "done", ![j].failed = stays]
      BY <1>2 DEF stopProcesses, Forced
  <2>2. stays \in SUBSET Procs
      BY <2>1 DEF TypeOK
  <2> QED BY <2>1, <2>2 DEF TypeOK, Jobs, Job
<1> QED BY <1>1, <1>2

LEMMA TypeStep ==
    ASSUME TypeOK, [Next]_vars
    PROVE  TypeOK'
<1>0. 0 \in 0..IdleLimit /\ 0 \in 0..HardLimit /\ 0 \in 0..Ceiling
    BY StepAssumption
<1>1. CASE stoppedBeforeStart
    BY <1>1 DEF stoppedBeforeStart, TypeOK, procs, clocks, history
<1>2. CASE spawn
    BY <1>2 DEF spawn, TypeOK, clocks, history, Procs
<1>3. CASE spawnError
    BY <1>3, TypedFinish DEF spawnError
<1>4. ASSUME NEW kid \in Kids, Begins(kid)
      PROVE  TypeOK'
  <2>1. PICK by \in up : parent' = [parent EXCEPT ![kid] = by]
      BY <1>4 DEF Begins
  <2>2. parent' \in [Kids -> Procs] /\ kid \in Procs
      BY <2>1 DEF TypeOK, Procs
  <2>3. up' \subseteq begun' /\ begun' \subseteq Procs /\ holding' \subseteq begun'
      BY <1>4, <2>2 DEF Begins, TypeOK
  <2> QED BY <1>4, <2>2, <2>3 DEF Begins, TypeOK, clocks, history
<1>5. ASSUME NEW proc \in Procs, Exits(proc)
      PROVE  TypeOK'
    BY <1>5 DEF Exits, TypeOK, clocks, history
<1>6. CASE capture
    BY <1>0, <1>6 DEF capture, TypeOK, procs
<1>7. CASE WindowOpens \/ WindowCloses
    BY <1>0, <1>7 DEF WindowOpens, WindowCloses, Window, TypeOK, procs, clocks
<1>8. CASE Tick
    BY <1>8, TypedTick
<1>9. CASE Abort
  <2>1. "aborted" \in Reasons
      BY DEF Reasons
  <2> QED BY <1>9, <2>1, TypedStop DEF Abort, TypeOK, Jobs, Job, procs, history
<1>10. CASE hardTimer
  <2>1. "hard-timeout" \in Reasons
      BY DEF Reasons
  <2> QED BY <1>10, <2>1, TypedStop DEF hardTimer, TypeOK, Jobs, Job, procs, history
<1>11. CASE idleTimer
    BY <1>11, TypedHung DEF idleTimer, TypeOK, Jobs, Job, procs
<1>12. CASE idleTimerLooks \/ passwordTimer \/ looksTooLate
    BY <1>12 DEF idleTimerLooks, passwordTimer, looksTooLate, TypeOK, procs, clocks, history
<1>13. CASE lookForPassword
    BY <1>13, TypedLook
<1>14. CASE close
    BY <1>14, TypedFinish DEF close, TypeOK
<1>15. CASE treeDown \/ ceiling
    BY <1>15, TypedFinish DEF treeDown, ceiling, TypeOK
<1>16. CASE reap
    BY <1>16, JobsStay DEF reap, TypeOK, Jobs, Job, procs, clocks, history
<1>17. ASSUME NEW j \in {"tree", "reap"}, processTable(j) \/ stopProcesses(j)
       PROVE  TypeOK'
  <2>1. jobs' \in Jobs
      BY <1>17, JobsMove
  <2>2. up' \subseteq up
      BY <1>17 DEF processTable, stopProcesses, Forced, procs
  <2> QED BY <1>17, <2>1, <2>2 DEF processTable, stopProcesses, TypeOK, Jobs, Job, procs, clocks,
                                   history
<1>18. CASE UNCHANGED vars
    BY <1>18 DEF vars, TypeOK, procs, clocks, history
<1> QED BY <1>1, <1>2, <1>3, <1>4, <1>5, <1>6, <1>7, <1>8, <1>9, <1>10, <1>11, <1>12, <1>13, <1>14,
           <1>15, <1>16, <1>17, <1>18 DEF Next

-----------------------------------------------------------------------------
(* The result.                                                             *)
LEMMA ResultStep ==
    ASSUME TypeOK, Phases, ResultIsTrue, [Next]_vars
    PROVE  Phases' /\ ResultIsTrue'
<1> DEFINE Goal == Phases' /\ ResultIsTrue'
<1>1. CASE stoppedBeforeStart
    BY <1>1 DEF stoppedBeforeStart, Phases, ResultIsTrue, procs
<1>2. CASE spawn
    BY <1>2 DEF spawn, Phases, ResultIsTrue
<1>3. CASE spawnError
    BY <1>3 DEF spawnError, finish, Phases, ResultIsTrue, procs
<1>4. ASSUME NEW kid \in Kids, Begins(kid)
      PROVE  Goal
  <2>1. PICK by \in up : \E holds \in {{}, {kid}} : /\ holds # {} => by \in holding
                                                    /\ holding' = holding \cup holds
      BY <1>4 DEF Begins
  <2>2. begun # {}
      BY <2>1 DEF TypeOK
  <2>3. up \cap holding = {} => up' \cap holding' = {}
    <3>1. ASSUME up \cap holding = {}
          PROVE  up' \cap holding' = {}
      <4>1. holding' = holding
          BY <2>1, <3>1
      <4>2. kid \notin holding
          BY <1>4 DEF Begins, TypeOK
      <4> QED BY <1>4, <3>1, <4>1, <4>2 DEF Begins
    <3> QED BY <3>1
  <2> QED BY <1>4, <2>2, <2>3 DEF Begins, Phases, ResultIsTrue
<1>5. ASSUME NEW proc \in Procs, Exits(proc)
      PROVE  Goal
    BY <1>5 DEF Exits, Phases, ResultIsTrue
<1>6. CASE UNCHANGED <<phase, why, outcome, aborted, procs>>
    BY <1>6 DEF Phases, ResultIsTrue, procs
<1>7. CASE Abort
    BY <1>7 DEF Abort, stop, Phases, ResultIsTrue, procs
<1>8. CASE UNCHANGED <<outcome, aborted, procs>> /\ phase = "running"
           /\ (stop("hard-timeout") \/ stop("idle-timeout"))
    BY <1>8 DEF stop, Phases, ResultIsTrue, procs
<1>9. CASE close
  <2>1. CASE why = "none"
      BY <1>9, <2>1 DEF close, finish, Phases, ResultIsTrue, procs
  <2>2. CASE why # "none"
      BY <1>9, <2>2 DEF close, finish, Phases, ResultIsTrue, procs, TypeOK, Reasons
  <2> QED BY <2>1, <2>2
<1>10. CASE treeDown \/ ceiling
    BY <1>10 DEF treeDown, ceiling, finish, Phases, ResultIsTrue, procs, TypeOK, Reasons
<1>11. CASE capture \/ WindowOpens \/ WindowCloses \/ Tick \/ idleTimerLooks \/ passwordTimer
            \/ looksTooLate \/ reap
    BY <1>6, <1>11 DEF capture, WindowOpens, WindowCloses, Window, Tick, idleTimerLooks,
                       passwordTimer, looksTooLate, reap, procs
<1>12. CASE hardTimer \/ idleTimer
    BY <1>8, <1>12 DEF hardTimer, idleTimer, hung
<1>13. CASE lookForPassword
  <2>1. held \/ notHeld
      BY <1>13 DEF lookForPassword, windowIsOpen, windowIsClosed
  <2>2. CASE UNCHANGED <<phase, why>>
      BY <1>6, <1>13, <2>2 DEF lookForPassword
  <2>3. CASE stop("idle-timeout")
      BY <1>8, <1>13, <2>2, <2>3 DEF lookForPassword, stop
  <2> QED BY <2>1, <2>2, <2>3 DEF held, notHeld, hung
<1>14. ASSUME NEW j \in {"tree", "reap"}, processTable(j)
       PROVE  Goal
    BY <1>6, <1>14 DEF processTable
<1>15. ASSUME NEW j \in {"tree", "reap"}, stopProcesses(j)
       PROVE  Goal
  <2>1. up' \subseteq up
      BY <1>15 DEF stopProcesses, Forced
  <2> QED BY <1>15, <2>1 DEF stopProcesses, Phases, ResultIsTrue
<1>16. CASE UNCHANGED vars
    BY <1>6, <1>16 DEF vars
<1> QED BY <1>1, <1>2, <1>3, <1>4, <1>5, <1>7, <1>9, <1>10, <1>11, <1>12, <1>13, <1>14, <1>15,
           <1>16 DEF Next

-----------------------------------------------------------------------------
(* Whose a process is, of the processes that are up (alive), of those that *)
(* were (were), of who started each (by), and of those the shell started   *)
(* too late (slow).                                                        *)
HoldsIn(alive, by, group) == \A k \in Kids \cap alive : by[k] \in group \cap alive => k \in group
GrownIn(alive, by, seed) ==
    {p \in Procs : \A group \in SUBSET Procs :
                      seed \subseteq group /\ HoldsIn(alive, by, group) => p \in group}
OfShell(alive, by, slow) == {p \in alive : p = Shell \/ (by[p] = Shell /\ p \notin slow)}
FromShell(alive, by, slow) == GrownIn(alive, by, OfShell(alive, by, slow))
StartedBy(alive, by, slow, k) == {k2 \in Kids \cap alive : by[k2] = k /\ (k = Shell => k2 \in slow)}
FromOneGone(alive, by, slow, were) ==
    {p \in Procs : \E k \in were \ alive : p \in GrownIn(alive, by, StartedBy(alive, by, slow, k))}

LEMMA InTheseWords ==
    /\ \A seed : Grown(seed) = GrownIn(up, parent, seed)
    /\ descendantsOf = FromShell(up, parent, late)
    /\ \A p \in Procs : ThroughOneGone(p) <=> p \in FromOneGone(up, parent, late, begun)
<1>1. \A seed : Grown(seed) = GrownIn(up, parent, seed)
    BY DEF Grown, GrownIn, HoldsWhatItStarted, HoldsIn
<1> QED BY <1>1 DEF descendantsOf, FromShell, OfShell, ThroughOneGone, Orphans, FromOneGone, StartedBy

LEMMA InTheseWordsNext ==
    /\ descendantsOf' = FromShell(up', parent', late')
    /\ \A p \in Procs : ThroughOneGone(p)' <=> p \in FromOneGone(up', parent', late', begun')
<1>1. \A seed : Grown(seed)' = GrownIn(up', parent', seed)
    BY DEF Grown, GrownIn, HoldsWhatItStarted, HoldsIn
<1> QED BY <1>1 DEF descendantsOf, FromShell, OfShell, ThroughOneGone, Orphans, FromOneGone, StartedBy

LEMMA GrownHolds ==
    ASSUME NEW alive, NEW by, NEW seed \in SUBSET Procs
    PROVE  /\ seed \subseteq GrownIn(alive, by, seed)
           /\ HoldsIn(alive, by, GrownIn(alive, by, seed))
           /\ GrownIn(alive, by, seed) \subseteq Procs
<1>1. seed \subseteq GrownIn(alive, by, seed) /\ GrownIn(alive, by, seed) \subseteq Procs
    BY DEF GrownIn
<1>2. ASSUME NEW k \in Kids \cap alive, by[k] \in GrownIn(alive, by, seed) \cap alive
      PROVE  k \in GrownIn(alive, by, seed)
  <2>1. k \in Procs
      BY DEF Procs
  <2>2. ASSUME NEW group \in SUBSET Procs, seed \subseteq group, HoldsIn(alive, by, group)
        PROVE  k \in group
    <3>1. by[k] \in group
        BY <1>2, <2>2 DEF GrownIn
    <3> QED BY <1>2, <2>2, <3>1 DEF HoldsIn
  <2> QED BY <2>1, <2>2 DEF GrownIn
<1> QED BY <1>1, <1>2 DEF HoldsIn

LEMMA GrownIsLeast ==
    ASSUME NEW alive, NEW by, NEW seed, NEW group \in SUBSET Procs, seed \subseteq group,
           HoldsIn(alive, by, group)
    PROVE  GrownIn(alive, by, seed) \subseteq group
BY DEF GrownIn

LEMMA GrownAreKids ==
    ASSUME NEW alive, NEW by, NEW slow, NEW k
    PROVE  GrownIn(alive, by, StartedBy(alive, by, slow, k)) \subseteq Kids
<1>1. Kids \in SUBSET Procs /\ StartedBy(alive, by, slow, k) \subseteq Kids /\ HoldsIn(alive, by, Kids)
    BY DEF Procs, StartedBy, HoldsIn
<1> QED BY <1>1, GrownIsLeast

(* What hangs from one gone holds what it started, and so with the shell's. *)
LEMMA TheseHold ==
    ASSUME NEW were \in SUBSET Procs, NEW alive \in SUBSET were, NEW by \in [Kids -> Procs], NEW slow
    PROVE  /\ HoldsIn(alive, by, FromShell(alive, by, slow))
           /\ OfShell(alive, by, slow) \subseteq FromShell(alive, by, slow)
           /\ FromShell(alive, by, slow) \subseteq Procs
           /\ HoldsIn(alive, by, FromOneGone(alive, by, slow, were))
           /\ \A k \in were \ alive : StartedBy(alive, by, slow, k) \subseteq FromOneGone(alive, by, slow, were)
           /\ FromOneGone(alive, by, slow, were) \subseteq Kids
<1>1. \A k : StartedBy(alive, by, slow, k) \in SUBSET Procs
    BY DEF StartedBy, Procs
<1>2. OfShell(alive, by, slow) \in SUBSET Procs
    BY DEF OfShell
<1>3. \A k \in were \ alive : StartedBy(alive, by, slow, k) \subseteq FromOneGone(alive, by, slow, were)
    BY <1>1, GrownHolds DEF FromOneGone
<1>4. ASSUME NEW c \in Kids \cap alive, by[c] \in FromOneGone(alive, by, slow, were) \cap alive
      PROVE  c \in FromOneGone(alive, by, slow, were)
  <2>1. PICK k \in were \ alive : by[c] \in GrownIn(alive, by, StartedBy(alive, by, slow, k))
      BY <1>4 DEF FromOneGone
  <2>2. HoldsIn(alive, by, GrownIn(alive, by, StartedBy(alive, by, slow, k)))
      BY <1>1, GrownHolds
  <2>3. c \in GrownIn(alive, by, StartedBy(alive, by, slow, k))
      BY <1>4, <2>1, <2>2 DEF HoldsIn
  <2> QED BY <2>1, <2>3 DEF FromOneGone, Procs
<1>5. FromOneGone(alive, by, slow, were) \subseteq Kids
    BY GrownAreKids DEF FromOneGone
<1>6. HoldsIn(alive, by, FromOneGone(alive, by, slow, were))
    BY <1>4 DEF HoldsIn
<1>7. /\ HoldsIn(alive, by, FromShell(alive, by, slow))
      /\ OfShell(alive, by, slow) \subseteq FromShell(alive, by, slow)
      /\ FromShell(alive, by, slow) \subseteq Procs
    BY <1>2, GrownHolds DEF FromShell
<1> QED BY <1>3, <1>5, <1>6, <1>7

(***************************************************************************)
(* Some processes end: what hung from the shell hangs from it still, or    *)
(* from one of those gone; what hung from one gone still does.             *)
(***************************************************************************)
LEMMA SomeEnd ==
    ASSUME NEW were \in SUBSET Procs, NEW alive \in SUBSET were, NEW by \in [Kids -> Procs], NEW slow,
           NEW left \in SUBSET alive, NEW p \in left
    PROVE  /\ p \in FromOneGone(alive, by, slow, were) => p \in FromOneGone(left, by, slow, were)
           /\ p \in FromShell(alive, by, slow) =>
                 p \in FromShell(left, by, slow) \/ p \in FromOneGone(left, by, slow, were)
<1> DEFINE gone == alive \ left
           orphans == FromOneGone(left, by, slow, were)
           ofShell == FromShell(left, by, slow)
<1>1. /\ HoldsIn(left, by, ofShell)
      /\ OfShell(left, by, slow) \subseteq ofShell
      /\ ofShell \subseteq Procs
      /\ HoldsIn(left, by, orphans)
      /\ \A k \in were \ left : StartedBy(left, by, slow, k) \subseteq orphans
      /\ orphans \subseteq Kids
  <2>1. left \in SUBSET were
      OBVIOUS
  <2> QED BY <2>1, TheseHold
<1> HIDE DEF orphans, ofShell
<1>2. ASSUME p \in FromOneGone(alive, by, slow, were)
      PROVE  p \in orphans
  <2>1. PICK k \in were \ alive : p \in GrownIn(alive, by, StartedBy(alive, by, slow, k))
      BY <1>2 DEF FromOneGone
  <2> DEFINE group == orphans \cup (gone \cap Kids)
  <2>2. group \in SUBSET Procs
      BY <1>1 DEF Procs
  <2>3. StartedBy(alive, by, slow, k) \subseteq group
      BY <1>1, <2>1 DEF StartedBy
  <2>4. ASSUME NEW c \in Kids \cap alive, by[c] \in group \cap alive
        PROVE  c \in group
    <3>1. CASE c \notin left
        BY <3>1
    <3>2. CASE c \in left /\ by[c] \in left
        BY <1>1, <2>4, <3>2 DEF HoldsIn
    <3>3. CASE c \in left /\ by[c] \notin left
      <4>1. by[c] \in were \ left /\ by[c] # Shell
          BY <1>1, <2>4, <3>3, StepAssumption
      <4> QED BY <1>1, <2>4, <3>3, <4>1 DEF StartedBy
    <3> QED BY <3>1, <3>2, <3>3
  <2> HIDE DEF group
  <2>5. p \in group
      BY <2>1, <2>2, <2>3, <2>4, GrownIsLeast DEF HoldsIn
  <2> QED BY <2>5 DEF group
<1>3. ASSUME p \in FromShell(alive, by, slow)
      PROVE  p \in ofShell \cup orphans
  <2> DEFINE group == ofShell \cup orphans \cup gone
  <2>1. group \in SUBSET Procs
      BY <1>1 DEF Procs
  <2>2. OfShell(alive, by, slow) \subseteq group
      BY <1>1 DEF OfShell
  <2>3. ASSUME NEW c \in Kids \cap alive, by[c] \in group \cap alive
        PROVE  c \in group
    <3>1. CASE c \notin left
        BY <3>1
    <3>2. CASE c \in left /\ by[c] \in left
        BY <1>1, <2>3, <3>2 DEF HoldsIn
    <3>3. CASE c \in left /\ by[c] = Shell /\ c \notin slow
        BY <1>1, <3>3 DEF OfShell
    <3>4. CASE c \in left /\ by[c] \notin left /\ (by[c] = Shell => c \in slow)
      <4>1. by[c] \in were \ left
          BY <2>3, <3>4
      <4> QED BY <1>1, <2>3, <3>4, <4>1 DEF StartedBy
    <3> QED BY <3>1, <3>2, <3>3, <3>4
  <2> HIDE DEF group
  <2>4. p \in group
      BY <1>3, <2>1, <2>2, <2>3, GrownIsLeast DEF HoldsIn, FromShell
  <2> QED BY <2>4 DEF group
<1> QED BY <1>2, <1>3 DEF orphans, ofShell

(* One is started, by one that is up: it hangs from what that one hangs from. *)
LEMMA OneStarts ==
    ASSUME NEW were \in SUBSET Procs, NEW alive \in SUBSET were, NEW by \in [Kids -> Procs], NEW slow,
           NEW kid \in Kids \ were, NEW b \in alive, NEW p \in alive,
           NEW slower, slower \in {slow, slow \cup {kid}}
    PROVE  LET now == [by EXCEPT ![kid] = b]
               more == alive \cup {kid}
               ever == were \cup {kid}
           IN  /\ p \in FromOneGone(alive, by, slow, were) => p \in FromOneGone(more, now, slower, ever)
               /\ p \in FromShell(alive, by, slow) => p \in FromShell(more, now, slower)
               /\ b \in FromOneGone(more, now, slower, ever) => kid \in FromOneGone(more, now, slower, ever)
               /\ b \in FromShell(more, now, slower) => kid \in FromShell(more, now, slower)
<1> DEFINE now == [by EXCEPT ![kid] = b]
           more == alive \cup {kid}
           ever == were \cup {kid}
<1>1. kid \in Procs /\ b \in Procs
    BY DEF Procs
<1>2. ever \in SUBSET Procs /\ more \in SUBSET ever /\ now \in [Kids -> Procs]
    BY <1>1
<1>3. now[kid] = b /\ \A k \in Kids \cap alive : now[k] = by[k]
    OBVIOUS
<1>4. /\ HoldsIn(more, now, FromShell(more, now, slower))
      /\ OfShell(more, now, slower) \subseteq FromShell(more, now, slower)
      /\ FromShell(more, now, slower) \subseteq Procs
      /\ HoldsIn(more, now, FromOneGone(more, now, slower, ever))
      /\ \A k \in ever \ more : StartedBy(more, now, slower, k) \subseteq FromOneGone(more, now, slower, ever)
      /\ FromOneGone(more, now, slower, ever) \subseteq Kids
  <2> HIDE DEF now, more, ever
  <2> QED BY <1>2, TheseHold
<1> DEFINE orphans == FromOneGone(more, now, slower, ever)
           ofShell == FromShell(more, now, slower)
<1>5. /\ HoldsIn(more, now, ofShell)
      /\ OfShell(more, now, slower) \subseteq ofShell
      /\ ofShell \in SUBSET Procs
      /\ HoldsIn(more, now, orphans)
      /\ \A k \in ever \ more : StartedBy(more, now, slower, k) \subseteq orphans
      /\ orphans \in SUBSET Procs
    BY <1>4 DEF Procs
<1> HIDE DEF orphans, ofShell, now
<1>6. HoldsIn(alive, by, orphans) /\ HoldsIn(alive, by, ofShell)
    BY <1>3, <1>5 DEF HoldsIn
<1>7. ASSUME p \in FromOneGone(alive, by, slow, were)
      PROVE  p \in orphans
  <2>1. PICK k \in were \ alive : p \in GrownIn(alive, by, StartedBy(alive, by, slow, k))
      BY <1>7 DEF FromOneGone
  <2>2. k \in ever \ more
      BY <2>1
  <2>3. StartedBy(alive, by, slow, k) \subseteq orphans
      BY <1>3, <1>5, <2>2 DEF StartedBy
  <2> QED BY <1>5, <1>6, <2>1, <2>3, GrownIsLeast
<1>8. ASSUME p \in FromShell(alive, by, slow)
      PROVE  p \in ofShell
  <2>1. OfShell(alive, by, slow) \subseteq ofShell
    <3>1. \A q \in alive : q = Shell \/ q \in Kids
        BY DEF Procs
    <3>2. OfShell(alive, by, slow) \subseteq OfShell(more, now, slower)
        BY <1>3, <3>1 DEF OfShell
    <3> QED BY <1>5, <3>2
  <2> QED BY <1>5, <1>6, <1>8, <2>1, GrownIsLeast DEF FromShell
<1>9. (b \in orphans => kid \in orphans) /\ (b \in ofShell => kid \in ofShell)
    BY <1>3, <1>5 DEF HoldsIn
<1> QED BY <1>7, <1>8, <1>9 DEF orphans, ofShell, now

-----------------------------------------------------------------------------
(* What the lists of processes to stop hold.                               *)
LEMMA HangsStill ==
    ASSUME TypeOK, up' \subseteq up, UNCHANGED <<parent, late, begun>>, NEW p \in up'
    PROVE  /\ ThroughOneGone(p) => ThroughOneGone(p)'
           /\ Covered(p) => Covered(p)'
<1>1. /\ begun \in SUBSET Procs /\ up \in SUBSET begun /\ parent \in [Kids -> Procs]
      /\ up' \in SUBSET up /\ p \in Procs
    BY DEF TypeOK
<1>2. ThroughOneGone(p) <=> p \in FromOneGone(up, parent, late, begun)
    BY <1>1, InTheseWords
<1>3. descendantsOf = FromShell(up, parent, late)
    BY InTheseWords
<1>4. ThroughOneGone(p)' <=> p \in FromOneGone(up', parent, late, begun)
    BY <1>1, InTheseWordsNext
<1>5. descendantsOf' = FromShell(up', parent, late)
    BY InTheseWordsNext
<1>6. /\ p \in FromOneGone(up, parent, late, begun) => p \in FromOneGone(up', parent, late, begun)
      /\ p \in FromShell(up, parent, late) =>
            p \in FromShell(up', parent, late) \/ p \in FromOneGone(up', parent, late, begun)
    BY <1>1, SomeEnd
<1> QED BY <1>2, <1>3, <1>4, <1>5, <1>6 DEF Covered

LEMMA ListedStill ==
    ASSUME TypeOK, Listed, up' \subseteq up, UNCHANGED <<parent, late, begun>>,
           jobs'["reap"] = jobs["reap"]
    PROVE  Listed'
<1>1. \A p \in up' : /\ ThroughOneGone(p) => ThroughOneGone(p)'
                     /\ Covered(p) => Covered(p)'
    BY HangsStill
<1> QED BY <1>1 DEF Listed, LeftIsStopped

LEMMA ListedBegins ==
    ASSUME TypeOK, Listed, NEW kid \in Kids, Begins(kid)
    PROVE  Listed'
<1>1. PICK b \in up : parent' = [parent EXCEPT ![kid] = b] /\ late' \in {late, late \cup {kid}}
    BY DEF Begins
<1>2. up' = up \cup {kid} /\ begun' = begun \cup {kid} /\ jobs' = jobs
    BY DEF Begins
<1>3. /\ begun \in SUBSET Procs /\ up \in SUBSET begun /\ parent \in [Kids -> Procs]
      /\ kid \in Kids \ begun
    BY DEF TypeOK, Begins
<1>4. \A p \in up :
         /\ p \in FromOneGone(up, parent, late, begun) => p \in FromOneGone(up', parent', late', begun')
         /\ p \in FromShell(up, parent, late) => p \in FromShell(up', parent', late')
         /\ b \in FromOneGone(up', parent', late', begun') => kid \in FromOneGone(up', parent', late', begun')
         /\ b \in FromShell(up', parent', late') => kid \in FromShell(up', parent', late')
    BY <1>1, <1>2, <1>3, OneStarts
<1>5. up \subseteq Procs /\ up' \subseteq Procs
    BY <1>2, <1>3 DEF Procs
<1>6. \A p \in up' : Covered(p)' <=> p \in FromShell(up', parent', late') \/ p \in FromOneGone(up', parent', late', begun')
    BY <1>5, InTheseWordsNext DEF Covered
<1>7. \A p \in up : Covered(p) <=> p \in FromShell(up, parent, late) \/ p \in FromOneGone(up, parent, late, begun)
    BY <1>5, InTheseWords DEF Covered
<1>8. \A p \in up' : Covered(p)'
  <2>1. \A p \in up : p \in FromShell(up', parent', late') \/ p \in FromOneGone(up', parent', late', begun')
      BY <1>4, <1>7 DEF Listed
  <2> QED BY <1>2, <1>4, <1>6, <2>1
<1>9. \A p \in up : ThroughOneGone(p) => ThroughOneGone(p)'
    BY <1>2, <1>4, <1>5, InTheseWords, InTheseWordsNext
<1>10. up' \cap jobs'["reap"].table \subseteq up
    BY <1>2, <1>3 DEF Listed
<1> QED BY <1>2, <1>8, <1>9, <1>10 DEF Listed, LeftIsStopped

LEMMA ListedSpawn ==
    ASSUME TypeOK, Phases, Listed, spawn
    PROVE  Listed'
<1>1. begun = {} /\ up' = {Shell} /\ begun' = {Shell} /\ jobs' = jobs
    BY DEF Phases, spawn
<1>2. Covered(Shell)'
  <2>1. OfShell(up', parent', late') \in SUBSET Procs /\ Shell \in OfShell(up', parent', late')
      BY <1>1 DEF Procs, OfShell
  <2>2. Shell \in FromShell(up', parent', late')
      BY <2>1, GrownHolds DEF FromShell
  <2> QED BY <2>2, InTheseWordsNext DEF Covered
<1>3. jobs'["reap"].table = {}
    BY <1>1 DEF Listed
<1> QED BY <1>1, <1>2, <1>3 DEF Listed, LeftIsStopped

LEMMA ListedTable ==
    ASSUME TypeOK, Listed, NEW j \in {"tree", "reap"}, processTable(j)
    PROVE  Listed'
<1>0. UNCHANGED <<up, parent, late, begun>>
    BY DEF processTable, procs
<1>1. CASE j = "tree"
  <2>1. jobs'["reap"] = jobs["reap"]
      BY <1>1 DEF processTable, TypeOK
  <2> QED BY <1>0, <2>1, ListedStill
<1>2. CASE j = "reap"
  <2>1. PICK table \in {up, {}} : 
            jobs' = [jobs EXCEPT ![j].at = "asked", ![j].table = table,
                                 ![j].list = IF j = "tree" /\ Shell \notin table THEN {Shell}
                                             ELSE descendantsOf \cap table]
      BY DEF processTable
  <2> DEFINE list == descendantsOf \cap table
  <2>2. jobs' = [jobs EXCEPT !["reap"].at = "asked", !["reap"].table = table, !["reap"].list = list]
      BY <1>2, <2>1
  <2> HIDE DEF list
  <2>3. jobs'["reap"].at = "asked" /\ jobs'["reap"].table = table /\ jobs'["reap"].list = list
      BY <2>2 DEF TypeOK
  <2>4. table \subseteq up /\ up \subseteq begun
      BY DEF TypeOK
  <2>5. \A p \in up' : /\ ThroughOneGone(p) => ThroughOneGone(p)'
                       /\ Covered(p) => Covered(p)'
      BY <1>0, HangsStill
  <2>6. \A p \in up' \cap table : p \in list \/ ThroughOneGone(p)'
      BY <1>0, <2>5 DEF Listed, Covered, list
  <2> QED BY <1>0, <2>3, <2>4, <2>5, <2>6 DEF Listed, LeftIsStopped
<1> QED BY <1>1, <1>2

LEMMA ListedStopped ==
    ASSUME TypeOK, Listed, NEW j \in {"tree", "reap"}, stopProcesses(j)
    PROVE  Listed'
<1>0. UNCHANGED <<parent, late, begun>> /\ up' \subseteq up
    BY DEF stopProcesses, Forced
<1>1. CASE j = "tree"
  <2>1. jobs'["reap"] = jobs["reap"]
      BY <1>1 DEF stopProcesses, Forced, TypeOK
  <2> QED BY <1>0, <2>1, ListedStill
<1>2. CASE j = "reap"
  <2>1. PICK stays \in SUBSET (jobs["reap"].list \cap up) :
           /\ up' = (up \ TreesOf(jobs["reap"].list)) \cup stays
           /\ jobs' = [jobs EXCEPT !["reap"].at = "done", !["reap"].failed = stays]
      BY <1>2 DEF stopProcesses, Forced
  <2>2. /\ jobs'["reap"].at = "done" /\ jobs'["reap"].failed = stays
        /\ jobs'["reap"].table = jobs["reap"].table
      BY <2>1 DEF TypeOK
  <2>3. jobs["reap"].list \cap up \subseteq TreesOf(jobs["reap"].list)
    <3>1. jobs["reap"].list \cap up \in SUBSET Procs
        BY DEF TypeOK
    <3> QED BY <3>1, GrownHolds, InTheseWords DEF TreesOf
  <2>4. \A p \in up' : /\ ThroughOneGone(p) => ThroughOneGone(p)'
                       /\ Covered(p) => Covered(p)'
      BY <1>0, HangsStill
  <2>5. jobs["reap"].at = "asked"
      BY <1>2 DEF stopProcesses
  <2>6. \A p \in up' \cap jobs["reap"].table : p \in stays \/ ThroughOneGone(p)'
      BY <1>0, <2>1, <2>3, <2>4, <2>5 DEF Listed
  <2> QED BY <1>0, <2>2, <2>4, <2>6 DEF Listed, LeftIsStopped
<1> QED BY <1>1, <1>2

LEMMA ListedStep ==
    ASSUME TypeOK, Phases, Listed, [Next]_vars
    PROVE  Listed'
<1>1. CASE spawn
    BY <1>1, ListedSpawn
<1>2. ASSUME NEW kid \in Kids, Begins(kid)
      PROVE  Listed'
    BY <1>2, ListedBegins
<1>3. ASSUME NEW proc \in Procs, Exits(proc)
      PROVE  Listed'
    BY <1>3, ListedStill DEF Exits
<1>4. CASE UNCHANGED <<up, parent, late, begun>> /\ (jobs' = jobs \/ \E r : stop(r))
  <2>1. jobs'["reap"] = jobs["reap"]
      BY <1>4 DEF stop, TypeOK
  <2> QED BY <1>4, <2>1, ListedStill
<1>5. CASE stoppedBeforeStart \/ spawnError \/ close \/ treeDown \/ ceiling \/ Tick
    BY <1>4, <1>5 DEF stoppedBeforeStart, spawnError, close, treeDown, ceiling, Tick, procs
<1>6. CASE capture \/ WindowOpens \/ WindowCloses \/ idleTimerLooks \/ passwordTimer \/ looksTooLate
    BY <1>4, <1>6 DEF capture, WindowOpens, WindowCloses, Window, idleTimerLooks, passwordTimer,
                      looksTooLate, procs
<1>7. CASE Abort \/ hardTimer \/ idleTimer
    BY <1>4, <1>7 DEF Abort, hardTimer, idleTimer, hung, procs
<1>8. CASE lookForPassword
  <2>1. held \/ notHeld
      BY <1>8 DEF lookForPassword, windowIsOpen, windowIsClosed
  <2>2. jobs' = jobs \/ \E r : stop(r)
      BY <2>1 DEF held, notHeld, hung
  <2> QED BY <1>4, <1>8, <2>2 DEF lookForPassword, procs
<1>9. CASE reap
  <2>1. jobs'["reap"].at = "read" /\ jobs'["reap"].table = jobs["reap"].table
      BY <1>9 DEF reap, TypeOK
  <2>2. UNCHANGED <<up, parent, late, begun>>
      BY <1>9 DEF reap, procs
  <2>3. \A p \in up' : Covered(p) => Covered(p)'
      BY <2>2, HangsStill
  <2> QED BY <2>1, <2>2, <2>3 DEF Listed, LeftIsStopped
<1>10. ASSUME NEW j \in {"tree", "reap"}, processTable(j) \/ stopProcesses(j)
       PROVE  Listed'
    BY <1>10, ListedTable, ListedStopped
<1>11. CASE UNCHANGED vars
    BY <1>4, <1>11 DEF vars, procs
<1> QED BY <1>1, <1>2, <1>3, <1>5, <1>6, <1>7, <1>8, <1>9, <1>10, <1>11 DEF Next

-----------------------------------------------------------------------------
(* The clocks.                                                             *)
LEMMA ClocksStep ==
    ASSUME TypeOK, TypeOK', Phases, Clocks, [Next]_vars, LookIsAtOnce, WindowsAreSeen
    PROVE  Clocks'
<1>0. /\ quiet \in Nat /\ silence \in Nat /\ opened \in Nat /\ shown \in Nat
      /\ IdleLimit \in Nat /\ quiet <= IdleLimit /\ opened <= IdleLimit
    BY StepAssumption DEF TypeOK
<1>1. CASE phase' \notin {"call", "running"}
    BY <1>1 DEF Clocks
<1>2. CASE /\ UNCHANGED <<askpass, told, window, quiet, silence, opened, shown, looking, due>>
           /\ phase \in {"call", "running"} /\ phase' \in {phase, "running"}
    BY <1>2 DEF Clocks
<1>3. CASE stoppedBeforeStart \/ spawnError \/ close \/ treeDown \/ ceiling \/ looksTooLate \/ reap
    BY <1>1, <1>3 DEF stoppedBeforeStart, spawnError, close, treeDown, ceiling, finish, looksTooLate,
                      reap
<1>4. CASE UNCHANGED <<phase, askpass, told, window, quiet, silence, opened, shown, looking, due>>
    BY <1>1, <1>2, <1>4
<1>5. CASE spawn
    BY <1>2, <1>5 DEF spawn, clocks, history
<1>6. CASE (\E kid \in Kids : Begins(kid)) \/ (\E proc \in Procs : Exits(proc))
           \/ (\E j \in {"tree", "reap"} : processTable(j) \/ stopProcesses(j)) \/ UNCHANGED vars
    BY <1>4, <1>6 DEF Begins, Exits, processTable, stopProcesses, vars, clocks, history
<1>7. CASE capture
    BY <1>0, <1>7 DEF capture, Clocks, Still
<1>8. CASE WindowOpens
    BY <1>0, <1>8 DEF WindowOpens, Window, Clocks, clocks
<1>9. CASE WindowCloses
    BY <1>0, <1>9 DEF WindowCloses, Window, Clocks, clocks
<1>10. CASE Tick
  <2>1. looking' = "no" /\ UNCHANGED <<phase, askpass, told, window>> /\ due' = askpass
      BY <1>10 DEF Tick, Still
  <2>2. phase \in {"call", "running"} /\ ~told /\ ~window => quiet' <= silence'
      BY <1>0, <1>10 DEF Tick, Later, Clocks
  <2>3. phase \in {"call", "running"} /\ told /\ window => opened' <= shown'
      BY <1>0, <1>10 DEF Tick, Later, Clocks
  <2> QED BY <2>1, <2>2, <2>3 DEF Clocks
<1>11. CASE Abort
    BY <1>1, <1>2, <1>11 DEF Abort, stop, history
<1>12. CASE hardTimer \/ idleTimer
    BY <1>1, <1>12 DEF hardTimer, idleTimer, hung, stop
<1>13. CASE idleTimerLooks
    BY <1>13 DEF idleTimerLooks, Clocks, clocks, history
<1>14. CASE passwordTimer
    BY <1>14 DEF passwordTimer, Clocks, clocks, history, TypeOK
<1>15. CASE lookForPassword
  <2> SUFFICES ASSUME phase' \in {"call", "running"}
               PROVE  Clocks'
      BY <1>1
  <2>1. looking' = "no" /\ UNCHANGED <<askpass, silence>> /\ Seen = {window}
      BY <1>15 DEF lookForPassword, Seen
  <2>2. held \/ notHeld
      BY <1>15 DEF lookForPassword, windowIsOpen, windowIsClosed
  <2>3. phase \in {"call", "running"}
      BY <1>15, <2>2 DEF lookForPassword, held, notHeld, hung, stop, TypeOK
  <2>4. phase = "running" /\ askpass /\ due' = due
      BY <1>15, <2>3 DEF lookForPassword, Clocks, TypeOK
  <2>5. CASE windowIsOpen /\ window
    <3>1. told'
        BY <2>5 DEF windowIsOpen
    <3>2. CASE ~told \/ opened # IdleLimit
      <4>1. UNCHANGED <<window, shown>> /\ (told => opened' = opened) /\ (~told => opened' = 0)
          BY <2>5, <3>2 DEF windowIsOpen, held
      <4>2. phase \in {"call", "running"}
          BY <2>5, <3>2 DEF windowIsOpen, held
      <4> QED BY <1>0, <2>1, <2>5, <2>4, <3>1, <4>1, <4>2 DEF Clocks
    <3>3. CASE told /\ opened = IdleLimit
      <4>1. notHeld
          BY <2>5, <3>3 DEF windowIsOpen
      <4>2. CASE looking = "idle"
        <5>1. phase' = "stopping"
            BY <2>4, <4>1, <4>2 DEF notHeld, hung, stop
        <5> QED BY <5>1
      <4>3. CASE looking # "idle"
        <5>1. UNCHANGED <<phase, window, shown>> /\ opened' = opened
            BY <2>5, <3>3, <4>1, <4>3 DEF notHeld, windowIsOpen
        <5> QED BY <2>1, <2>5, <2>4, <3>1, <3>3, <5>1 DEF Clocks
      <4> QED BY <4>2, <4>3
    <3> QED BY <3>2, <3>3
  <2>6. CASE windowIsClosed /\ ~window
    <3>1. ~told'
        BY <2>6 DEF windowIsClosed
    <3>2. CASE told
      <4>1. UNCHANGED <<phase, window>> /\ quiet' = 0
          BY <2>6, <3>2 DEF windowIsClosed, held
      <4> QED BY <1>0, <2>1, <2>6, <2>4, <3>1, <4>1 DEF Clocks, lookForPassword
    <3>3. CASE ~told
      <4>1. notHeld
          BY <2>6, <3>3 DEF windowIsClosed
      <4>2. CASE looking = "idle"
        <5>1. phase' = "stopping"
            BY <2>4, <4>1, <4>2 DEF notHeld, hung, stop
        <5> QED BY <5>1
      <4>3. CASE looking # "idle"
        <5>1. UNCHANGED <<phase, window, quiet>>
            BY <4>1, <4>3 DEF notHeld
        <5> QED BY <1>0, <2>1, <2>6, <2>4, <3>1, <3>3, <5>1 DEF Clocks, lookForPassword
      <4> QED BY <4>2, <4>3
    <3> QED BY <3>2, <3>3
  <2> QED BY <1>15, <2>1, <2>5, <2>6 DEF lookForPassword, TypeOK
<1> QED BY <1>3, <1>5, <1>6, <1>7, <1>8, <1>9, <1>10, <1>11, <1>12, <1>13, <1>14, <1>15 DEF Next

-----------------------------------------------------------------------------
(* The theorems.                                                           *)

(***************************************************************************)
(* The inductive invariant: the types, what each phase leaves open, the    *)
(* result that says what happened, and lists of processes that miss        *)
(* nothing but what was started through one gone.                          *)
(***************************************************************************)
THEOREM Inductive == Spec => []IInv
<1>1. Init => IInv
  <2> SUFFICES ASSUME Init
               PROVE  IInv
      OBVIOUS
  <2>1. TypeOK
      BY TypedAtFirst
  <2>2. Phases /\ ResultIsTrue
      BY DEF Init, Phases, ResultIsTrue
  <2>3. Listed
      BY DEF Init, Listed, LeftIsStopped, NoJob
  <2> QED BY <2>1, <2>2, <2>3 DEF IInv
<1>2. IInv /\ [Next]_vars => IInv'
    BY TypeStep, ResultStep, ListedStep DEF IInv
<1> QED BY <1>1, <1>2, PTL DEF Spec

(* The type invariant: the step, its processes, its clocks within their limits. *)
THEOREM TypeCorrect == Spec => []TypeOK
<1>1. IInv => TypeOK
    BY DEF IInv
<1> QED BY Inductive, <1>1, PTL

(***************************************************************************)
(* The result says what happened, whichever of Stop, the clocks and the    *)
(* command's end comes first (runStep: stop, finish).                      *)
(***************************************************************************)
THEOREM ResultsAreTrue == Spec => []ResultIsTrue
<1>1. IInv => ResultIsTrue
    BY DEF IInv
<1> QED BY Inductive, <1>1, PTL

(***************************************************************************)
(* What a step left behind is stopped at the end of the task, but for what *)
(* was started through a process that has exited (reapLeftovers,           *)
(* descendantsOf), however many processes it started and in whatever order *)
(* they exit.                                                              *)
(***************************************************************************)
THEOREM LeftoversAreStopped == Spec => []LeftIsStopped
<1>1. IInv => LeftIsStopped
    BY DEF IInv, Listed
<1> QED BY Inductive, <1>1, PTL

(***************************************************************************)
(* A step is stopped as hung only after a whole limit of silence, or of a  *)
(* password window nobody answered (idleTimer, lookForPassword), when the  *)
(* looks for a window come at once and miss none.                          *)
(***************************************************************************)
THEOREM OnlyTheSilentAreHung ==
    ASSUME LookIsAtOnce, WindowsAreSeen
    PROVE  Spec => HungIsSilent
<1> DEFINE step == why = "none" /\ why' = "idle-timeout" =>
                      IF told THEN shown = IdleLimit ELSE silence = IdleLimit
<1>1. Init => Clocks
    BY DEF Init, Clocks
<1>2. IInv /\ IInv' /\ Clocks /\ [Next]_vars => Clocks'
    BY ClocksStep DEF IInv
<1>3. IInv /\ Clocks /\ [Next]_vars => step
  <2> SUFFICES ASSUME IInv, Clocks, [Next]_vars, why = "none", why' = "idle-timeout"
               PROVE  IF told THEN shown = IdleLimit ELSE silence = IdleLimit
      OBVIOUS
  <2>0. /\ quiet \in Nat /\ silence \in Nat /\ opened \in Nat /\ shown \in Nat /\ IdleLimit \in Nat
        /\ silence <= IdleLimit /\ shown <= IdleLimit
      BY StepAssumption DEF IInv, TypeOK
  <2>1. idleTimer \/ lookForPassword
    <3>1. ~(stoppedBeforeStart \/ spawn \/ spawnError \/ close \/ treeDown \/ ceiling \/ reap)
        BY DEF stoppedBeforeStart, spawn, spawnError, finish, close, treeDown, ceiling, reap
    <3>2. ~(capture \/ WindowOpens \/ WindowCloses \/ Tick \/ idleTimerLooks \/ passwordTimer
            \/ looksTooLate)
        BY DEF capture, WindowOpens, WindowCloses, Window, Tick, idleTimerLooks, passwordTimer,
               looksTooLate
    <3>3. ~(\E kid \in Kids : Begins(kid)) /\ ~(\E proc \in Procs : Exits(proc))
          /\ ~(\E j \in {"tree", "reap"} : processTable(j) \/ stopProcesses(j))
        BY DEF Begins, Exits, processTable, stopProcesses
    <3>4. ~(Abort \/ hardTimer)
        BY DEF Abort, hardTimer, stop
    <3> QED BY <3>1, <3>2, <3>3, <3>4 DEF Next, vars
  <2>2. phase = "running"
    <3>1. hung
        BY <2>1 DEF idleTimer, lookForPassword, windowIsOpen, windowIsClosed, held, notHeld
    <3> QED BY <3>1 DEF hung, stop
  <2>3. CASE idleTimer
      BY <2>0, <2>2, <2>3 DEF idleTimer, Clocks
  <2>4. CASE lookForPassword
    <3>1. Seen = {window}
        BY DEF Seen
    <3>2. looking = "idle" /\ quiet = IdleLimit
        BY <2>2, <2>4 DEF lookForPassword, windowIsOpen, windowIsClosed, held, notHeld, Clocks
    <3>3. CASE window
        BY <2>0, <2>2, <2>4, <3>1, <3>3 DEF lookForPassword, windowIsOpen, held, Clocks
    <3>4. CASE ~window
        BY <2>0, <2>2, <2>4, <3>1, <3>2, <3>4 DEF lookForPassword, windowIsClosed, held, Clocks
    <3> QED BY <3>3, <3>4
  <2> QED BY <2>1, <2>3, <2>4
<1>4. [][step]_vars <=> HungIsSilent
    BY PTL DEF HungIsSilent
<1> QED BY Inductive, <1>1, <1>2, <1>3, <1>4, PTL DEF Spec
=============================================================================
