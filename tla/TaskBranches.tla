---------------------------- MODULE TaskBranches ----------------------------
(***************************************************************************)
(* The git branches of the queue's tasks: a branch of its own for each,    *)
(* the folder put on it when the task begins, the task's changes committed *)
(* there when it ends or, after a restart, when it is recovered; and the   *)
(* operator's New branch, which moves the folder between runs and takes    *)
(* along, commits or puts aside what is not committed (vcs/taskVcs.ts,     *)
(* vcs/newBranch.ts, queue/queueBranch.ts and who calls them).             *)
(*                                                                         *)
(* A look at the folder and the git command that relies on it are steps of *)
(* their own, and the operator works in the same folder all the while,     *)
(* from a window of his own: edits, commits, checkouts, resets.            *)
(*                                                                         *)
(* A change is one edit of a file: who made it, which task was at work     *)
(* then, and which file.  A file is new on a branch until a commit there   *)
(* holds it.  A branch is the sequence of its commits since the tasks were *)
(* added; a commit says who made it, on which branch HEAD was, and which   *)
(* changes it holds.                                                       *)
(***************************************************************************)
EXTENDS Naturals, Sequences, SequencesExt

CONSTANTS
    Tasks,       \* the queue's tasks, and the names of their branches
    NoTask,
    Files,       \* the files of the folder
    OnRecord,    \* those of them git tracks on main
    MaxChanges,  \* bound: changes made in the folder, by the tasks and by the operator
    MaxMoves,    \* bound: the operator's commits, checkouts and resets
    MaxCrashes,  \* bound: how often the program ends and is started again
    HandsOff     \* what is left alone between a look and the command that relies on it

\* The other branches, and the other makers of commits, have names no task's branch has.
ASSUME TaskAssumption ==
    NoTask \notin Tasks /\ Tasks \cap {"main", "new", "saved", "operator", "bot", "others"} = {}
ASSUME BoundsAssumption == {MaxChanges, MaxMoves, MaxCrashes} \subseteq Nat
ASSUME FilesAssumption == OnRecord \subseteq Files
ASSUME HandsOffAssumption == HandsOff \subseteq {"head", "edits", "copy"}

VARIABLES
    branch,   \* the commits of each local branch there is
    head,     \* the branch the folder is on
    loose,    \* the changes that are not committed
    status,   \* each task's state in the queue
    run,      \* the task at work and where its version control has got to
    new,      \* the New branch being made
    count     \* the bounds used up

vars == <<branch, head, loose, status, run, new, count>>

Names == Tasks \cup {"main", "new", "saved"}
FilesOf(changes) == {c.file : c \in changes}
NoRun == [task |-> NoTask, step |-> "off", base |-> <<>>, branched |-> FALSE,
          outcome |-> "none", problem |-> FALSE, left |-> FALSE, reread |-> 0]
Folder == [head |-> head, tip |-> branch[head], loose |-> loose]
Fingerprint(seen) == <<seen.head, seen.tip, FilesOf(seen.loose)>>
NoNew == [step |-> "off", seen |-> [head |-> "main", tip |-> <<>>, loose |-> {}], carry |-> "none"]

Commit(by, work) == [by |-> by, on |-> head, work |-> work]
Changes(commits) == UNION {commits[i].work : i \in DOMAIN commits}

\* The files git tracks on a branch, and of some changes those of files it does not.
Tracked(commits) == OnRecord \cup FilesOf(Changes(commits))
NewFiles(changes, commits) == {c \in changes : c.file \notin Tracked(commits)}

\* The folder's changes can be there with these commits under them: git refuses where they cannot.
Fits(commits) == \A c \in loose : c.file \in Tracked(commits) <=> c.file \in Tracked(branch[head])

\* The branches, and one more.
WithBranch(name, commits) ==
    [b \in DOMAIN branch \cup {name} |-> IF b \in DOMAIN branch THEN branch[b] ELSE commits]

\* Everything that was ever changed and is still to be found: in the folder or on a branch.
Kept == loose \cup UNION {Changes(branch[b]) : b \in DOMAIN branch}

\* The remote's main: one commit has reached it since the tasks were added.
RemoteMain == <<[by |-> "others", on |-> "main", work |-> {}]>>

\* A task's branch was made when it was added, at the remote's main then, not checked out.
Init ==
    /\ branch = [b \in Tasks \cup {"main"} |-> <<>>]
    /\ head = "main"
    /\ loose = {}
    /\ status = [t \in Tasks |-> "waiting"]
    /\ run = NoRun
    /\ new = NoNew
    /\ count = [changes |-> 0, moves |-> 0, crashes |-> 0]

-----------------------------------------------------------------------------
(* What HandsOff keeps from happening.  "head": HEAD and its branch moved, *)
(* by the operator or by New branch, between the last look before a task's *)
(* commit and the commit.  "edits": what New branch puts aside edited from *)
(* the copy of it to the switch and the clean that take it out.  "copy":   *)
(* that copy given up before they have.                                    *)

\* The files New branch takes out last: those it read as new.
PutAsideNew == FilesOf(NewFiles(new.seen.loose, new.seen.tip))

MayMove == "head" \in HandsOff => run.step # "commit"
MayEdit(file) ==
    "edits" \in HandsOff =>
       /\ new.step = "discard" => file \notin Tracked(branch[head])
       /\ new.step \in {"discard", "clean"} => file \notin PutAsideNew
MayReset == "copy" \in HandsOff => new.step \notin {"discard", "clean"}

Edit(by, file) ==
    /\ MayEdit(file)
    /\ count.changes < MaxChanges
    /\ loose' = loose \cup {[by |-> by, during |-> run.task, file |-> file, n |-> count.changes]}
    /\ count' = [count EXCEPT !.changes = @ + 1]
    /\ UNCHANGED <<branch, head, status, run, new>>

-----------------------------------------------------------------------------
(* A task's run.                                                           *)

At(step) == run.step = step
Goes(step) == run' = [run EXCEPT !.step = step]
Ends(as) ==
    /\ status' = [status EXCEPT ![run.task] = as]
    /\ run' = NoRun

(***************************************************************************)
(* The task's branch is brought up to the remote's main, forward only, if  *)
(* it is still at the commit it was made at - unless the fetch or git      *)
(* fails - and the run begins.                                             *)
(***************************************************************************)
refreshQueueBranch(t) ==
    \/ UNCHANGED branch
    \/ branch[t] = <<>> /\ branch' = [branch EXCEPT ![t] = RemoteMain]

runQueueItem(t) ==
    /\ run = NoRun
    /\ status[t] = "waiting"
    /\ refreshQueueBranch(t)
    /\ status' = [status EXCEPT ![t] = "running"]
    /\ run' = [NoRun EXCEPT !.task = t, !.step = "look"]
    /\ UNCHANGED <<head, loose, new, count>>

(* Mutant: what is not committed is taken along to the task's branch. *)
switchesAsItIs ==
    /\ At("look")
    /\ Goes("switch")
    /\ UNCHANGED <<branch, head, loose, status, new, count>>

\* A folder with anything not committed refuses the task.
onExistingBranch ==
    /\ At("look")
    /\ IF loose = {} THEN Goes("switch") /\ UNCHANGED status ELSE Ends("failed")
    /\ UNCHANGED <<branch, head, loose, new, count>>

(***************************************************************************)
(* The branch is checked out if the folder is not on it, and it and the    *)
(* commit the task starts from go on the task's record; git refuses where  *)
(* a change made meanwhile is in the way.                                  *)
(***************************************************************************)
switchTo ==
    LET t == run.task
    IN /\ At("switch")
       /\ \/ /\ Fits(branch[t])
             /\ head' = t
             /\ run' = [run EXCEPT !.step = "work", !.base = branch[t], !.branched = TRUE]
             /\ UNCHANGED status
          \/ /\ loose # {} /\ head # t
             /\ Ends("failed")
             /\ UNCHANGED head
       /\ UNCHANGED <<branch, loose, new, count>>

(***************************************************************************)
(* The task's steps change files, here ones git tracks (the operator's are *)
(* of both kinds); a step that would write to git is refused.  What a step *)
(* left running, and could not be stopped, writes on after the last one.   *)
(***************************************************************************)
Work == run.branched /\ \E file \in OnRecord : Edit(run.task, file)

(***************************************************************************)
(* The task is over.  Where its commit would land is looked at: the folder *)
(* must be on the task's branch, and the commit it started from in that    *)
(* branch's history.                                                       *)
(***************************************************************************)
ItsBranchStands == head = run.task /\ IsPrefix(run.base, branch[head])

finish ==
    /\ At("work")
    /\ \E outcome \in {"done", "failed"}, problem \in {TRUE, ~ItsBranchStands} :
          run' = [run EXCEPT !.step = IF problem THEN "reread" ELSE "commit",
                             !.outcome = outcome, !.problem = problem]
    /\ UNCHANGED <<branch, head, loose, status, new, count>>

(***************************************************************************)
(* Everything in the folder, as one commit on whatever HEAD is; or git     *)
(* fails.  When it fails at saying what is staged, that reads as nothing   *)
(* to commit.                                                              *)
(***************************************************************************)
commitAll ==
    /\ At("commit")
    /\ \/ /\ Goes("reread")
          /\ IF loose = {} THEN UNCHANGED branch
             ELSE branch' = [branch EXCEPT ![head] = Append(@, Commit(run.task, loose))]
          /\ loose' = {}
       \/ Goes("reread") /\ UNCHANGED <<branch, loose>>
       \/ /\ run' = [run EXCEPT !.step = "reread", !.problem = TRUE]
          /\ UNCHANGED <<branch, loose>>
    /\ UNCHANGED <<head, status, new, count>>

(***************************************************************************)
(* The folder as it is after the commit goes on the task's record.  When   *)
(* git fails at it, it reads as clean.  (reread is history: how many       *)
(* changes there had been.)                                                *)
(***************************************************************************)
afterCommit ==
    /\ At("reread")
    /\ \/ run' = [run EXCEPT !.step = "end", !.left = loose # {}, !.reread = count.changes]
       \/ Goes("end")
    /\ UNCHANGED <<branch, head, loose, status, new, count>>

(* Mutant: what was left after the commit is not asked. *)
shortOnlyByAProblem == run.problem

\* Why the work is not all committed, by the record: the folder is not looked at again.
commitShortfall == run.problem \/ run.left

\* A task that would end done ends failed when its work is not all committed.
writesEnd ==
    /\ At("end")
    /\ Ends(IF run.outcome = "done" /\ commitShortfall THEN "failed" ELSE run.outcome)
    /\ UNCHANGED <<branch, head, loose, new, count>>

(***************************************************************************)
(* The program ends.  A task left running is marked aborted at the next    *)
(* start, and no request is served until what it had changed is settled;   *)
(* the time the program is down is the time before that.                   *)
(***************************************************************************)
Crash ==
    /\ count.crashes < MaxCrashes
    /\ count' = [count EXCEPT !.crashes = @ + 1]
    /\ new' = NoNew
    /\ IF run = NoRun \/ run.outcome = "aborted" THEN run' = NoRun /\ UNCHANGED status
       ELSE /\ run' = [run EXCEPT !.step = "settle", !.outcome = "aborted",
                                  !.problem = FALSE, !.left = FALSE, !.reread = 0]
            /\ status' = [status EXCEPT ![run.task] = "aborted"]
    /\ UNCHANGED <<branch, head, loose>>

\* Committed as a finished task's is, if the folder is still on the branch its record names, or git fails.
commitInterrupted ==
    /\ At("settle")
    /\ \/ run.branched /\ loose # {} /\ ItsBranchStands /\ Goes("commit")
       \/ run' = NoRun
    /\ UNCHANGED <<branch, head, loose, status, new, count>>

-----------------------------------------------------------------------------
(* New branch.                                                             *)

branchBusy == run # NoRun
Making(step) == new.step = step

(***************************************************************************)
(* Whether a task works is looked at once; the git commands that follow    *)
(* are awaits.  The preview is taken to be of the folder as it is now: one *)
(* of another folder is refused.                                           *)
(***************************************************************************)
newBranchCreate ==
    /\ new = NoNew
    /\ ~branchBusy
    /\ "new" \notin DOMAIN branch
    /\ new' = [NoNew EXCEPT !.step = "create", !.seen = Folder]
    /\ UNCHANGED <<branch, head, loose, status, run, count>>

\* Refused if the folder has another branch, commit or file changed than was shown; else as chosen.
createNewBranch ==
    /\ Making("create")
    /\ \/ Fingerprint(Folder) # Fingerprint(new.seen) /\ new' = NoNew
       \/ /\ Fingerprint(Folder) = Fingerprint(new.seen)
          /\ \/ new' = [NoNew EXCEPT !.step = "switch", !.carry = "take"]
             \/ /\ loose # {}
                /\ \E carry \in {"commit", "aside"} :
                      new' = [step |-> "keep", seen |-> Folder, carry |-> carry]
    /\ UNCHANGED <<branch, head, loose, status, run, count>>

(***************************************************************************)
(* All that is not committed as one commit on the commit HEAD was at, made *)
(* with an index of its own: on a branch of its own, or as the new tip of  *)
(* the branch the folder was on, if that has not moved.                    *)
(***************************************************************************)
keepUncommitted ==
    LET here == new.seen.head
        kept(by) == Append(new.seen.tip, Commit(by, loose))
    IN /\ Making("keep")
       /\ \/ new' = NoNew /\ UNCHANGED <<branch, loose>>      \* git fails, or the branch moved
          \/ /\ new.carry = "aside"
             /\ "saved" \notin DOMAIN branch
             /\ branch' = WithBranch("saved", kept("bot"))
             /\ new' = [new EXCEPT !.step = "discard"]
             /\ UNCHANGED loose
          \/ /\ new.carry = "commit"
             /\ MayMove
             /\ branch[here] = new.seen.tip
             /\ branch' = [branch EXCEPT ![here] = kept("operator")]
             /\ loose' = IF head = here THEN {} ELSE loose
             /\ new' = [NoNew EXCEPT !.step = "switch", !.carry = "commit"]
       /\ UNCHANGED <<head, status, run, count>>

OnNewBranch ==
    /\ branch' = WithBranch("new", RemoteMain)
    /\ head' = "new"

(***************************************************************************)
(* The switch that takes the changes along, as git carries them; refused,  *)
(* with nothing moved, where one is in the way, or where some are left     *)
(* after all were committed.                                               *)
(***************************************************************************)
switchToNew ==
    /\ Making("switch")
    /\ MayMove
    /\ new' = NoNew
    /\ \/ (new.carry = "commit" => loose = {}) /\ Fits(RemoteMain) /\ OnNewBranch
       \/ UNCHANGED <<branch, head>>
    /\ UNCHANGED <<loose, status, run, count>>

\* Put aside: the switch drops what was changed in the files git tracks.
switchDiscarding ==
    /\ Making("discard")
    /\ MayMove
    /\ \/ /\ OnNewBranch
          /\ loose' = NewFiles(loose, branch[head])
          /\ new' = [new EXCEPT !.step = "clean"]
       \/ new' = NoNew /\ UNCHANGED <<branch, head, loose>>     \* git fails
    /\ UNCHANGED <<status, run, count>>

(* Mutant: a plain clean takes every new file. *)
cleanAllNewFiles == loose' = loose \ NewFiles(loose, branch[head])

(***************************************************************************)
(* The files that were new when the folder was read, by name, and no       *)
(* others: whatever they hold by now, unless git tracks them by now.       *)
(***************************************************************************)
cleanNewFiles ==
    loose' = loose \ {c \in NewFiles(loose, branch[head]) : c.file \in PutAsideNew}

takesOutNewFiles ==
    /\ Making("clean")
    /\ cleanNewFiles
    /\ new' = NoNew
    /\ UNCHANGED <<branch, head, status, run, count>>

-----------------------------------------------------------------------------
(* The operator's own editor and git, at any time.                         *)

OperatorEdits == \E file \in Files : Edit("operator", file)

Moves ==
    /\ MayMove
    /\ count.moves < MaxMoves
    /\ count' = [count EXCEPT !.moves = @ + 1]
    /\ UNCHANGED <<status, run, new>>

OperatorCommits ==
    /\ Moves
    /\ loose # {}
    /\ branch' = [branch EXCEPT ![head] = Append(@, Commit("operator", loose))]
    /\ loose' = {}
    /\ UNCHANGED head

OperatorSwitches ==
    /\ Moves
    /\ \E b \in DOMAIN branch \ {head} : Fits(branch[b]) /\ head' = b
    /\ UNCHANGED <<branch, loose>>

\* The last commit of the branch is given up; what is not committed stays (reset --keep).
OperatorResets ==
    /\ Moves
    /\ MayReset
    /\ branch[head] # <<>>
    /\ Fits(Front(branch[head]))
    /\ branch' = [branch EXCEPT ![head] = Front(@)]
    /\ UNCHANGED <<head, loose>>

Next ==
    \/ \E t \in Tasks : runQueueItem(t)
    \/ onExistingBranch \/ switchTo \/ Work \/ finish \/ commitAll \/ afterCommit \/ writesEnd
    \/ Crash \/ commitInterrupted
    \/ newBranchCreate \/ createNewBranch \/ keepUncommitted
    \/ switchToNew \/ switchDiscarding \/ takesOutNewFiles
    \/ OperatorEdits \/ OperatorCommits \/ OperatorSwitches \/ OperatorResets

Spec == Init /\ [][Next]_vars

-----------------------------------------------------------------------------
Change == [by : Tasks \cup {"operator"}, during : Tasks \cup {NoTask},
           file : Files, n : Nat]
Commits == Seq([by : Tasks \cup {"operator", "bot", "others"}, on : Names, work : SUBSET Change])

(* The type invariant: branches of commits, and a run of a task that is at work or is being settled. *)
TypeOK ==
    /\ DOMAIN branch \subseteq Names
    /\ head \in DOMAIN branch
    /\ \A b \in DOMAIN branch : branch[b] \in Commits
    /\ loose \subseteq Change
    /\ status \in [Tasks -> {"waiting", "running", "done", "failed", "aborted"}]
    /\ run.task \in Tasks \cup {NoTask}
    /\ run # NoRun => status[run.task] = IF run.outcome = "aborted" THEN "aborted" ELSE "running"

(***************************************************************************)
(* A commit in a task's name is on that task's branch and holds only what  *)
(* was changed since the task began: nothing that lay in the folder before *)
(* it, and nothing of another task, whatever was moved, stopped or begun   *)
(* meanwhile (taskVcs.ts:1003-1011).                                       *)
(***************************************************************************)
CommitsAreItsOwn ==
    \A b \in DOMAIN branch : \A i \in DOMAIN branch[b] :
        LET c == branch[b][i]
        IN c.by \in Tasks => c.on = c.by /\ \A x \in c.work : x.during = c.by

(***************************************************************************)
(* A task that ends done leaves nothing uncommitted that was changed       *)
(* before the folder was read after its commit, though git may fail        *)
(* unseen, what the task left running write on, and the folder be moved    *)
(* and moved back (taskRunner.ts:1581-1586, commitShortfall).              *)
(***************************************************************************)
DoneIsCommitted ==
    [][\A t \in Tasks : status[t] # "done" /\ status'[t] = "done"
          => \A x \in loose' : x.n >= run.reread]_vars

(***************************************************************************)
(* No change is lost by a step of the program: it is in the folder or on a *)
(* branch until the operator himself gives a commit up (newBranch.ts:22,   *)
(* taskVcs.ts:7-8).  Only while what is put aside is left alone meanwhile  *)
(* ("edits", "copy").                                                      *)
(***************************************************************************)
NothingIsDropped == [][OperatorResets \/ Kept \subseteq Kept']_vars

(***************************************************************************)
(* New branch does not move the folder under a task that works             *)
(* (operator.service.ts:1489-1490).  It looks whether one works once,      *)
(* before its git commands, and a run may begin between them: TLC finds it *)
(* so, whatever is left alone.                                             *)
(***************************************************************************)
NotMovedUnderATask == [][switchToNew \/ switchDiscarding => head' = head \/ ~branchBusy]_vars
=============================================================================
