------------------------------ MODULE StepRun ------------------------------
(***************************************************************************)
(* One step of a task: a command given to a shell (exec/runner.ts), its    *)
(* two clocks, Git's password window (vcs/remoteAuth.ts), Stop, and the    *)
(* stopping of what it started; then the processes it left behind, at the  *)
(* end of the task (exec/processes.ts).  The shell may start others, which *)
(* may hold its output, outlive it, and start their own.                   *)
(*                                                                         *)
(* Time is counted in ticks, each clock up to its limit; a timer may fire  *)
(* late.  A process's id is not given to another while the task goes on;   *)
(* of the recorded times of a shell only its end decides anything here.    *)
(* What is printed, the log and the heartbeat are left out, as is the      *)
(* operator's own process in the folder, which is only reported.           *)
(***************************************************************************)
EXTENDS Naturals

CONSTANTS
    Shell,          \* the process runStep starts
    Kids,           \* what it may start, directly or not
    IdleLimit,      \* idleTimeoutMs
    HardLimit,      \* hardTimeoutMs
    Ceiling,        \* STOP_CEILING_MS
    QuietBefore,    \* PASSWORD_QUIET_MS
    LookIsAtOnce,   \* nothing happens while the processes are listed for a window, and the list is right
    WindowsAreSeen  \* a window is not closed, nor another opened, between two looks

ASSUME StepAssumption ==
    /\ Shell \notin Kids
    /\ IdleLimit \in Nat \ {0} /\ HardLimit \in Nat \ {0}
    /\ Ceiling \in Nat \ {0} /\ QuietBefore \in Nat
    /\ LookIsAtOnce \in BOOLEAN /\ WindowsAreSeen \in BOOLEAN

Procs == {Shell} \cup Kids
Reasons == {"aborted", "hard-timeout", "idle-timeout"}

VARIABLES
    askpass,    \* whether a git of the step may open its password window
    phase,      \* of runStep: call, running, stopping, given
    aborted,    \* the signal
    why,        \* what the step is being stopped for
    outcome,    \* of the result, once it is given; not-started is an aborted one with nothing run
    up, begun,  \* the processes there are, and were
    parent,     \* who started each of Kids, itself until then
    holding,    \* those with the step's output in their hands
    late,       \* those the shell started later than its recorded end, by more than SLACK_MS
    quiet, elapsed, opened, stopFor,    \* ticks since lastOutputAt, startedAt, passwordSince, stop()
    looking,    \* the timer whose look for a window is under way
    due,        \* whether passwordTimer has yet to fire in this tick
    told,       \* passwordOpen
    jobs,       \* stopTree of the step and reapLeftovers of the task: table read, list to stop, what could not be
    window,     \* whether git's window is on the screen
    silence, shown  \* history: ticks since it printed or a window was there; since this one was

clocks == <<quiet, elapsed, opened, stopFor>>
procs == <<up, begun, parent, holding, late>>
history == <<silence, shown>>
vars == <<askpass, phase, aborted, why, outcome, procs, clocks, looking, due, told,
          jobs, window, history>>

NoJob == [at |-> "no", table |-> {}, list |-> {}, failed |-> {}]

TypeOK ==
    /\ askpass \in BOOLEAN /\ aborted \in BOOLEAN /\ told \in BOOLEAN /\ window \in BOOLEAN
    /\ phase \in {"call", "running", "stopping", "given"}
    /\ why \in Reasons \cup {"none"}
    /\ outcome \in Reasons \cup {"none", "not-started", "spawn-error", "completed"}
    /\ up \subseteq begun /\ begun \subseteq Procs /\ holding \subseteq begun
    /\ parent \in [Kids -> Procs] /\ late \subseteq Kids
    /\ quiet \in 0..IdleLimit /\ elapsed \in 0..HardLimit
    /\ opened \in 0..IdleLimit /\ stopFor \in 0..Ceiling
    /\ looking \in {"no", "idle", "password"} /\ due \in BOOLEAN
    /\ jobs \in [{"tree", "reap"} ->
                   [at : {"no", "read", "asked", "done"}, table : SUBSET Procs, list : SUBSET Procs,
                    failed : SUBSET Procs]]
    /\ silence \in 0..IdleLimit /\ shown \in 0..IdleLimit

Init ==
    /\ askpass \in BOOLEAN
    /\ phase = "call" /\ aborted = FALSE /\ why = "none" /\ outcome = "none"
    /\ up = {} /\ begun = {} /\ parent = [k \in Kids |-> k] /\ holding = {} /\ late = {}
    /\ quiet = 0 /\ elapsed = 0 /\ opened = 0 /\ stopFor = 0
    /\ looking = "no" /\ due = FALSE /\ told = FALSE
    /\ jobs = [j \in {"tree", "reap"} |-> NoJob]
    /\ window = FALSE /\ silence = 0 /\ shown = 0

\* Nothing comes between the look for a window and its answer.
Still == LookIsAtOnce => looking = "no"

(***************************************************************************)
(* The step's beginning.  The folder of its log is made first; the signal  *)
(* is asked after that await, and listened to from then on.                *)
(***************************************************************************)
stoppedBeforeStart ==
    /\ phase = "call" /\ aborted
    /\ phase' = "given" /\ outcome' = "not-started"
    /\ UNCHANGED <<askpass, aborted, why, procs, clocks, looking, due, told, jobs, window, history>>

\* Mutant: the signal is not asked before the shell is started.
spawnUnasked ==
    /\ phase = "call"
    /\ phase' = "running"
    /\ up' = {Shell} /\ begun' = {Shell} /\ holding' = {Shell}
    /\ UNCHANGED <<askpass, aborted, why, outcome, parent, late, clocks, looking, due, told, jobs,
                   window, history>>

spawn ==
    /\ phase = "call" /\ ~aborted
    /\ phase' = "running"
    /\ up' = {Shell} /\ begun' = {Shell} /\ holding' = {Shell}
    /\ UNCHANGED <<askpass, aborted, why, outcome, parent, late, clocks, looking, due, told, jobs,
                   window, history>>

\* finish: the result is given once, and every timer let go of.
finish(how) ==
    /\ phase' = "given" /\ outcome' = how
    /\ told' = FALSE /\ due' = FALSE
    /\ quiet' = 0 /\ elapsed' = 0 /\ opened' = 0 /\ stopFor' = 0
    /\ silence' = 0 /\ shown' = 0
    /\ UNCHANGED <<askpass, aborted, why, window>>

\* The shell would not start.
spawnError ==
    /\ phase = "call" /\ ~aborted
    /\ finish("spawn-error")
    /\ UNCHANGED <<procs, looking, jobs>>

(***************************************************************************)
(* What the command does.                                                  *)
(***************************************************************************)
Begins(kid) ==
    /\ kid \notin begun
    /\ \E by \in up :
         /\ parent' = [parent EXCEPT ![kid] = by]
         /\ \E slow \in {{}, {kid}} :
              /\ slow # {} => by = Shell /\ phase = "given"
              /\ late' = late \cup slow
         /\ \E holds \in {{}, {kid}} :
              /\ holds # {} => by \in holding
              /\ holding' = holding \cup holds
    /\ up' = up \cup {kid} /\ begun' = begun \cup {kid}
    /\ UNCHANGED <<askpass, phase, aborted, why, outcome, clocks, looking, due, told, jobs,
                   window, history>>

Exits(proc) ==
    /\ proc \in up
    /\ up' = up \ {proc}
    /\ UNCHANGED <<askpass, phase, aborted, why, outcome, begun, parent, holding, late, clocks, looking, due,
                   told, jobs, window, history>>

\* Mutant: output starts the hard clock again as well.
captureAll ==
    /\ phase \in {"running", "stopping"} /\ Still /\ up \cap holding # {}
    /\ quiet' = 0 /\ silence' = 0 /\ elapsed' = 0
    /\ UNCHANGED <<askpass, phase, aborted, why, outcome, procs, opened, stopFor, looking, due,
                   told, jobs, window, shown>>

capture ==
    /\ phase \in {"running", "stopping"} /\ Still /\ up \cap holding # {}
    /\ quiet' = 0 /\ silence' = 0
    /\ UNCHANGED <<askpass, phase, aborted, why, outcome, procs, elapsed, opened, stopFor, looking, due,
                   told, jobs, window, shown>>

Window(there) ==
    /\ window' = there /\ shown' = 0 /\ silence' = 0
    /\ UNCHANGED <<askpass, phase, aborted, why, outcome, procs, clocks, looking, due, told, jobs>>

WindowOpens ==
    /\ askpass /\ phase = "running" /\ up # {} /\ ~window /\ Still
    /\ WindowsAreSeen => ~told
    /\ Window(TRUE)

WindowCloses ==
    /\ phase = "running" /\ window /\ Still
    /\ WindowsAreSeen => told
    /\ Window(FALSE)

Later(clock, limit) == IF clock < limit THEN clock + 1 ELSE limit

Tick ==
    /\ phase \in {"running", "stopping"} /\ Still
    /\ quiet' = Later(quiet, IdleLimit)
    /\ elapsed' = IF phase = "running" THEN Later(elapsed, HardLimit) ELSE elapsed
    /\ opened' = IF told THEN Later(opened, IdleLimit) ELSE opened
    /\ stopFor' = IF phase = "stopping" THEN Later(stopFor, Ceiling) ELSE stopFor
    /\ silence' = IF window THEN 0 ELSE Later(silence, IdleLimit)
    /\ shown' = IF window THEN Later(shown, IdleLimit) ELSE 0
    /\ due' = askpass
    /\ UNCHANGED <<askpass, phase, aborted, why, outcome, procs, looking, told, jobs, window>>

(***************************************************************************)
(* The clocks and the signal.  stop() is taken up once; from then on only  *)
(* passwordTimer goes on, until the result is given.                       *)
(***************************************************************************)
stop(reason) ==
    IF phase = "running"
    THEN /\ phase' = "stopping" /\ why' = reason
         /\ elapsed' = 0
         /\ jobs' = [jobs EXCEPT !["tree"].at = "read"]
    ELSE UNCHANGED <<phase, why, elapsed, jobs>>

Abort ==
    /\ phase # "given" /\ ~aborted
    /\ aborted' = TRUE
    /\ stop("aborted")
    /\ UNCHANGED <<askpass, outcome, procs, quiet, opened, stopFor, looking, due, told, window, history>>

hardTimer ==
    /\ phase = "running" /\ elapsed = HardLimit
    /\ stop("hard-timeout")
    /\ UNCHANGED <<askpass, aborted, outcome, procs, quiet, opened, stopFor, looking, due, told,
                   window, history>>

\* A window nobody answered is closed with the step.
hung ==
    /\ stop("idle-timeout")
    /\ window' = (window /\ ~told)
    /\ shown' = IF told THEN 0 ELSE shown

idleTimer ==
    /\ phase = "running" /\ quiet = IdleLimit /\ ~askpass
    /\ hung
    /\ UNCHANGED <<askpass, aborted, outcome, procs, quiet, opened, stopFor, looking, due, told, silence>>

idleTimerLooks ==
    /\ phase = "running" /\ quiet = IdleLimit /\ askpass /\ looking = "no"
    /\ looking' = "idle"
    /\ UNCHANGED <<askpass, phase, aborted, why, outcome, procs, clocks, due, told, jobs, window, history>>

passwordTimer ==
    /\ phase \in {"running", "stopping"} /\ due /\ looking = "no" /\ quiet >= QuietBefore
    /\ looking' = "password" /\ due' = FALSE
    /\ UNCHANGED <<askpass, phase, aborted, why, outcome, procs, clocks, told, jobs, window, history>>

\* What a look may find.  A list of the processes that takes too long reads as no window.
Seen == IF LookIsAtOnce THEN {window} ELSE {window, FALSE}

\* The step is let go on; its idle clock begins again.
held == quiet' = 0 /\ UNCHANGED <<phase, why, elapsed, jobs, window, shown>>

\* The step is not held: of idleTimer, it is stopped as hung.
notHeld ==
    /\ quiet' = quiet
    /\ IF looking = "idle" THEN hung ELSE UNCHANGED <<phase, why, elapsed, jobs, window, shown>>

windowIsOpen ==
    /\ told' = TRUE
    /\ opened' = IF told THEN opened ELSE 0
    /\ IF told /\ opened = IdleLimit THEN notHeld ELSE held

\* Mutant: the idle clock is not set again when the window is found closed.
windowIsGone ==
    /\ told' = FALSE /\ opened' = 0
    /\ IF told THEN UNCHANGED <<phase, why, quiet, elapsed, jobs, window, shown>> ELSE notHeld

windowIsClosed ==
    /\ told' = FALSE /\ opened' = 0
    /\ IF told THEN held ELSE notHeld

lookForPassword ==
    /\ looking # "no" /\ phase # "given"
    /\ \E open \in Seen : IF open THEN windowIsOpen ELSE windowIsClosed
    /\ looking' = "no"
    /\ UNCHANGED <<askpass, aborted, outcome, procs, stopFor, due, silence>>

\* The look ends after the result was given: nothing comes of it.
looksTooLate ==
    /\ looking # "no" /\ phase = "given"
    /\ looking' = "no"
    /\ UNCHANGED <<askpass, phase, aborted, why, outcome, procs, clocks, due, told, jobs, window, history>>

(***************************************************************************)
(* The step's end: nobody holds its output any more, its tree was stopped, *)
(* or that took too long.                                                  *)
(***************************************************************************)
close ==
    /\ phase \in {"running", "stopping"}
    /\ up \cap holding = {}
    /\ finish(IF why = "none" THEN "completed" ELSE why)
    /\ UNCHANGED <<procs, looking, jobs>>

treeDown ==
    /\ phase = "stopping" /\ jobs["tree"].at = "done"
    /\ finish(why)
    /\ UNCHANGED <<procs, looking, jobs>>

ceiling ==
    /\ phase = "stopping" /\ stopFor = Ceiling
    /\ finish(why)
    /\ UNCHANGED <<procs, looking, jobs>>

(***************************************************************************)
(* Whose a process is: the shell, or started by one that is.  A parent     *)
(* that is gone counts only when it is the recorded shell, and its child   *)
(* was created before the end recorded for it, which is the step's result. *)
(***************************************************************************)
\* seed, and what its living members started, and so on: the least set with both.
HoldsWhatItStarted(group) == \A k \in Kids \cap up : parent[k] \in group \cap up => k \in group
Grown(seed) ==
    {p \in Procs : \A group \in SUBSET Procs :
                      seed \subseteq group /\ HoldsWhatItStarted(group) => p \in group}

\* Mutant: a process whose parent is gone is nobody's.
descendantsOfTheLiving == Grown(up \cap {Shell})

descendantsOf == Grown({p \in up : p = Shell \/ (parent[p] = Shell /\ p \notin late)})

\* taskkill /T: a process and what hangs from it.
TreesOf(roots) == Grown(roots \cap up)

(***************************************************************************)
(* stopTree and reapLeftovers: the table is read, what is to be stopped is *)
(* listed, asked to close, and what then remains is forced.                *)
(***************************************************************************)
reap ==
    /\ phase = "given" /\ jobs["reap"].at = "no"
    /\ jobs' = [jobs EXCEPT !["reap"].at = "read"]
    /\ UNCHANGED <<askpass, phase, aborted, why, outcome, procs, clocks, looking, due, told, window, history>>

\* taskkill /T /F; a process may not let itself be stopped.
Forced(j, roots) ==
    \E stays \in SUBSET (roots \cap up) :
       /\ up' = (up \ TreesOf(roots)) \cup stays
       /\ jobs' = [jobs EXCEPT ![j].at = "done", ![j].failed = stays]

\* The table is read; it may not be, and is then empty.
processTable(j) ==
    /\ jobs[j].at = "read"
    /\ \E table \in {up, {}} :
         jobs' = [jobs EXCEPT ![j].at = "asked", ![j].table = table,
                              ![j].list = IF j = "tree" /\ Shell \notin table THEN {Shell}
                                          ELSE descendantsOf \cap table]
    /\ UNCHANGED <<askpass, phase, aborted, why, outcome, procs, clocks, looking, due, told, window, history>>

stopProcesses(j) ==
    /\ jobs[j].at = "asked"
    /\ Forced(j, jobs[j].list)
    /\ UNCHANGED <<askpass, phase, aborted, why, outcome, begun, parent, holding, late, clocks, looking, due,
                   told, window, history>>

Next ==
    \/ stoppedBeforeStart \/ spawn \/ spawnError
    \/ \E kid \in Kids : Begins(kid)
    \/ \E proc \in Procs : Exits(proc)
    \/ capture \/ WindowOpens \/ WindowCloses \/ Tick
    \/ Abort \/ hardTimer \/ idleTimer \/ idleTimerLooks \/ passwordTimer
    \/ lookForPassword \/ looksTooLate
    \/ close \/ treeDown \/ ceiling
    \/ reap
    \/ \E j \in {"tree", "reap"} : processTable(j) \/ stopProcesses(j)

Spec == Init /\ [][Next]_vars

(***************************************************************************)
(* The program's own timers and awaits go on; a look has limits of its     *)
(* own (remoteAuth.ts:96, :105).  Nothing is asked of the command, of     *)
(* taskkill, or of the process table.                                      *)
(***************************************************************************)
FairSpec ==
    /\ Spec
    /\ WF_vars(stoppedBeforeStart \/ spawn \/ spawnError)
    /\ WF_vars(Tick) /\ WF_vars(hardTimer) /\ WF_vars(lookForPassword) /\ WF_vars(ceiling)

-----------------------------------------------------------------------------
(***************************************************************************)
(* The result says what happened, whichever of Stop, the clocks and the    *)
(* end of the command comes first: a step called completed ended by        *)
(* itself, with Stop not pressed by then, also not while it was being      *)
(* prepared (runner.ts:265); one not started had no process.               *)
(***************************************************************************)
ResultIsTrue ==
    /\ phase = "running" => ~aborted
    /\ outcome = "completed" => why = "none" /\ ~aborted /\ up \cap holding = {}
    /\ outcome \in {"not-started", "spawn-error"} => begun = {}
    /\ outcome = "not-started" \/ why = "aborted" => aborted

(***************************************************************************)
(* runner.ts:469, "the step is waiting for the operator, not hung": a step *)
(* is stopped as hung only after a whole limit without a word and with no  *)
(* window on the screen, or with one nobody answered for as long.          *)
(***************************************************************************)
HungIsSilent ==
    [][ why = "none" /\ why' = "idle-timeout" =>
          IF told THEN shown = IdleLimit ELSE silence = IdleLimit ]_vars

\* Every step ends, whatever it prints, asks, starts, and holds on to.
StepEnds == <>(phase = "given")

(***************************************************************************)
(* processes.ts:5, "Anything you start, you stop": of what the process     *)
(* table shows at the end of the task, all is stopped that the step        *)
(* started, or could not be and is on record; but for what was started     *)
(* through one that has exited, the limit processes.ts:22 names: through   *)
(* the shell itself only where that was after the end recorded for it.     *)
(***************************************************************************)
Orphans(k) == {k2 \in Kids \cap up : parent[k2] = k /\ (k = Shell => k2 \in late)}
ThroughOneGone(p) == \E k \in begun \ up : p \in Grown(Orphans(k))

LeftIsStopped ==
    jobs["reap"].at = "done" =>
       \A p \in up \cap jobs["reap"].table : p \in jobs["reap"].failed \/ ThroughOneGone(p)

(***************************************************************************)
(* runner.ts:443, "gives the result only once it is down, so the next step *)
(* does not start while this one still holds a port or a file".  It does   *)
(* not hold: the shell's output may close before its children are down,    *)
(* and a shell that is gone has no row to find them from.                  *)
(***************************************************************************)
ResultWhenDown ==
    [][ phase = "stopping" /\ phase' = "given" /\ stopFor < Ceiling =>
          descendantsOf \subseteq jobs["tree"].failed ]_vars
=============================================================================
