-------------------------- MODULE TaskBranches_proofs --------------------------
(***************************************************************************)
(* Proofs about TaskBranches.                                              *)
(*                                                                         *)
(* That a task commits its own work and nothing else rests on what the     *)
(* folder holds from the look that found it clean on: a part of the        *)
(* invariant of its own, ItsOwnWork, kept by everyone who may edit, commit *)
(* or switch there meanwhile.  That New branch drops nothing rests on      *)
(* PutAside: what its switch and its cleaning take out of the folder is by *)
(* then on a branch, and stays there.  The branches themselves are typed   *)
(* by commits that are their makers' own, so that CommitsAreItsOwn is kept *)
(* wherever a branch is.                                                   *)
(*                                                                         *)
(* What is said only of a folder left alone between a look and the command *)
(* that relies on it has a part of HandsOff before it; the rest holds      *)
(* without.                                                                *)
(***************************************************************************)
EXTENDS TaskBranches, TLAPS, SequenceTheorems

-----------------------------------------------------------------------------
(* The inductive invariant.                                                *)

\* A commit, and one that is as CommitsAreItsOwn has it where the folder is left alone.
CommitRecord == [by : Tasks \cup {"operator", "bot", "others"}, on : Names, work : SUBSET Change]
IsOwn(c) == c.by \in Tasks => c.on = c.by /\ \A x \in c.work : x.during = c.by
OwnCommit == {c \in CommitRecord : "head" \in HandsOff => IsOwn(c)}

Runs == [task : Tasks \cup {NoTask},
         step : {"off", "look", "switch", "work", "commit", "reread", "end", "settle"},
         base : Seq(OwnCommit), branched : BOOLEAN,
         outcome : {"none", "done", "failed", "aborted"}, problem : BOOLEAN,
         left : BOOLEAN, reread : Nat]
Makings == [step : {"off", "create", "keep", "switch", "discard", "clean"},
            seen : [head : Names, tip : Seq(OwnCommit), loose : SUBSET Change],
            carry : {"none", "take", "commit", "aside"}]

\* Branches whose every commit is its maker's own; every task has one.
AreBranches(branches) ==
    /\ Tasks \cup {"main"} \subseteq DOMAIN branches /\ DOMAIN branches \subseteq Names
    /\ branches = [b \in DOMAIN branches |-> branches[b]]
    /\ \A b \in DOMAIN branches : branches[b] \in Seq(OwnCommit)

FolderShape ==
    /\ AreBranches(branch)
    /\ head \in DOMAIN branch /\ new.seen.head \in DOMAIN branch
    /\ loose \in SUBSET Change
    /\ new \in Makings
    /\ count \in [changes : Nat, moves : Nat, crashes : Nat]
    /\ new.step \in {"create", "keep", "switch", "discard"} => "new" \notin DOMAIN branch

RunShape ==
    /\ status \in [Tasks -> {"waiting", "running", "done", "failed", "aborted"}]
    /\ run \in Runs
    /\ run.task = NoTask <=> run = NoRun
    /\ run.step = "off" <=> run = NoRun
    /\ run # NoRun => status[run.task] = IF run.outcome = "aborted" THEN "aborted" ELSE "running"
    /\ run.branched => run # NoRun
    /\ run.step = "settle" => run.outcome = "aborted"
    /\ run.outcome = "none" <=> run.step \in {"off", "look", "switch", "work"}

\* From the look at the folder on, what is not committed was changed since the task began.
ItsOwnWork ==
    /\ run.step = "switch" \/ run.branched => \A x \in loose : x.during = run.task
    /\ run.step \in {"work", "commit"} => run.branched
    /\ "head" \in HandsOff => (run.step = "commit" => head = run.task)

\* Everything that was ever changed and is on a branch.
OnBranches(branches) == UNION {Changes(branches[b]) : b \in DOMAIN branches}

\* What the switch and the cleaning of New branch take out of the folder is on a branch.
PutAside ==
    {"edits", "copy"} \subseteq HandsOff =>
       /\ new.step = "discard" =>
             \A x \in loose : x.file \in Tracked(branch[head]) => x \in OnBranches(branch)
       /\ new.step \in {"discard", "clean"} =>
             \A x \in loose : x.file \in PutAsideNew => x \in OnBranches(branch)

\* What was uncommitted when the folder was read after the commit, and is not on record, is committed.
Judged ==
    /\ run.reread <= count.changes
    /\ run.step # "end" => run.reread = 0
    /\ run.step = "end" /\ ~run.left => \A x \in loose : x.n >= run.reread

IInv == FolderShape /\ RunShape /\ ItsOwnWork /\ PutAside /\ Judged

-----------------------------------------------------------------------------
(* What the operations on branches give: a commit more, a commit less, a   *)
(* branch more.                                                            *)
LEMMA CommitIsOwn ==
    ASSUME FolderShape, NEW by \in Tasks \cup {"operator", "bot"},
           "head" \in HandsOff /\ by \in Tasks => head = by /\ \A x \in loose : x.during = by
    PROVE  Commit(by, loose) \in OwnCommit
<1>1. head \in Names /\ loose \in SUBSET Change
    BY DEF FolderShape, AreBranches
<1>2. Commit(by, loose) \in CommitRecord
    BY <1>1 DEF Commit, CommitRecord
<1>3. "head" \in HandsOff => IsOwn(Commit(by, loose))
    BY DEF IsOwn, Commit
<1> QED BY <1>2, <1>3 DEF OwnCommit

LEMMA RemoteMainIsOwn == RemoteMain \in Seq(OwnCommit)
<1> DEFINE c == [by |-> "others", on |-> "main", work |-> {}]
<1>1. c \in CommitRecord
    BY DEF CommitRecord, Names
<1>2. IsOwn(c)
    BY TaskAssumption DEF IsOwn
<1>3. c \in OwnCommit
    BY <1>1, <1>2 DEF OwnCommit
<1> HIDE DEF c
<1>4. <<c>> \in Seq(OwnCommit)
    BY <1>3
<1> QED BY <1>4 DEF RemoteMain, c

LEMMA ChangesOfAppend ==
    ASSUME NEW s \in Seq(OwnCommit), NEW c \in OwnCommit
    PROVE  Changes(s) \subseteq Changes(Append(s, c)) /\ c.work \subseteq Changes(Append(s, c))
<1>1. /\ Append(s, c) \in Seq(OwnCommit) /\ Len(Append(s, c)) = Len(s) + 1
      /\ \A i \in 1..Len(s) : Append(s, c)[i] = s[i]
      /\ Append(s, c)[Len(s) + 1] = c
    BY AppendProperties
<1>2. DOMAIN s = 1..Len(s) /\ DOMAIN Append(s, c) = 1..(Len(s) + 1) /\ Len(s) \in Nat
    BY <1>1
<1>3. \A i \in DOMAIN s : i \in DOMAIN Append(s, c) /\ Append(s, c)[i] = s[i]
    BY <1>1, <1>2
<1>4. Len(s) + 1 \in DOMAIN Append(s, c)
    BY <1>2
<1> HIDE DEF IsOwn
<1> QED BY <1>1, <1>3, <1>4 DEF Changes

(* One branch has other commits. *)
LEMMA OneBranchSet ==
    ASSUME NEW branches, AreBranches(branches), NEW b \in DOMAIN branches, NEW s \in Seq(OwnCommit)
    PROVE  /\ AreBranches([branches EXCEPT ![b] = s])
           /\ DOMAIN [branches EXCEPT ![b] = s] = DOMAIN branches
           /\ Changes(branches[b]) \subseteq Changes(s) =>
                 OnBranches(branches) \subseteq OnBranches([branches EXCEPT ![b] = s])
           /\ Changes(s) \subseteq OnBranches([branches EXCEPT ![b] = s])
<1> DEFINE next == [branches EXCEPT ![b] = s]
<1>1. DOMAIN next = DOMAIN branches
    OBVIOUS
<1>2. \A d \in DOMAIN branches : next[d] = IF d = b THEN s ELSE branches[d]
    OBVIOUS
<1>3. next = [d \in DOMAIN next |-> next[d]]
    OBVIOUS
<1> HIDE DEF next
<1>4. AreBranches(next)
    BY <1>1, <1>2, <1>3 DEF AreBranches
<1>5. Changes(s) \subseteq OnBranches(next)
    BY <1>1, <1>2 DEF OnBranches
<1>6. ASSUME Changes(branches[b]) \subseteq Changes(s), NEW x \in OnBranches(branches)
      PROVE  x \in OnBranches(next)
  <2>1. PICK d \in DOMAIN branches : x \in Changes(branches[d])
      BY DEF OnBranches
  <2>2. x \in Changes(next[d])
      BY <1>2, <1>6, <2>1
  <2> QED BY <1>1, <2>2 DEF OnBranches
<1> QED BY <1>1, <1>4, <1>5, <1>6 DEF next

(* A branch is there that was not. *)
LEMMA OneBranchMore ==
    ASSUME AreBranches(branch), NEW b \in Names \ DOMAIN branch, NEW s \in Seq(OwnCommit)
    PROVE  /\ AreBranches(WithBranch(b, s))
           /\ DOMAIN WithBranch(b, s) = DOMAIN branch \cup {b}
           /\ OnBranches(branch) \subseteq OnBranches(WithBranch(b, s))
           /\ Changes(s) \subseteq OnBranches(WithBranch(b, s))
<1> DEFINE next == WithBranch(b, s)
<1>1. /\ DOMAIN next = DOMAIN branch \cup {b}
      /\ \A d \in DOMAIN branch : next[d] = branch[d]
      /\ next[b] = s
      /\ next = [d \in DOMAIN next |-> next[d]]
    BY DEF WithBranch
<1> HIDE DEF next
<1>2. AreBranches(next)
  <2>1. \A d \in DOMAIN next : next[d] \in Seq(OwnCommit)
      BY <1>1 DEF AreBranches
  <2> QED BY <1>1, <2>1 DEF AreBranches
<1>3. OnBranches(branch) \subseteq OnBranches(next)
    BY <1>1 DEF OnBranches
<1>4. Changes(s) \subseteq OnBranches(next)
    BY <1>1 DEF OnBranches
<1> QED BY <1>1, <1>2, <1>3, <1>4 DEF next

LEMMA FrontIsShorter ==
    ASSUME NEW s \in Seq(OwnCommit), s # <<>>
    PROVE  Front(s) \in Seq(OwnCommit)
<1>1. Len(s) - 1 \in 0..Len(s)
    OBVIOUS
<1> QED BY <1>1, SubSeqProperties DEF Front

-----------------------------------------------------------------------------
(* The states' shape.                                                      *)
LEMMA AtFirst == Init => IInv
<1> SUFFICES ASSUME Init
             PROVE  IInv
    OBVIOUS
<1> USE DEF Init
<1>1. FolderShape
  <2>1. DOMAIN branch = Tasks \cup {"main"} /\ \A b \in DOMAIN branch : branch[b] = <<>>
      OBVIOUS
  <2>2. <<>> \in Seq(OwnCommit)
      OBVIOUS
  <2>3. AreBranches(branch)
      BY <2>1, <2>2 DEF AreBranches, Names
  <2>4. new \in Makings
      BY <2>2 DEF Makings, NoNew, Names
  <2> QED BY <2>1, <2>3, <2>4 DEF FolderShape, NoNew
<1>2. RunShape
  <2>1. run \in Runs
      BY DEF Runs, NoRun
  <2> QED BY <2>1 DEF RunShape, NoRun
<1>3. ItsOwnWork
    BY DEF ItsOwnWork, NoRun
<1>4. PutAside
    BY DEF PutAside, NoNew
<1>5. Judged
    BY DEF Judged, NoRun
<1> QED BY <1>1, <1>2, <1>3, <1>4, <1>5 DEF IInv

(* What the folder is on, holds and is being made of it, as New branch looks. *)
LEMMA SeenIsShaped ==
    ASSUME FolderShape
    PROVE  Folder \in [head : Names, tip : Seq(OwnCommit), loose : SUBSET Change]
<1>1. head \in Names /\ branch[head] \in Seq(OwnCommit) /\ loose \in SUBSET Change
    BY DEF FolderShape, AreBranches
<1> QED BY <1>1 DEF Folder

LEMMA NoNewIsShaped == NoNew \in Makings
<1>1. <<>> \in Seq(OwnCommit) /\ {} \in SUBSET Change
    OBVIOUS
<1> QED BY <1>1 DEF NoNew, Makings, Names

LEMMA AnEditIsAChange ==
    ASSUME FolderShape, RunShape, NEW by \in Tasks \cup {"operator"},
           NEW file \in Files, Edit(by, file)
    PROVE  loose' \in SUBSET Change /\ count' \in [changes : Nat, moves : Nat, crashes : Nat]
<1> DEFINE c == [by |-> by, during |-> run.task, file |-> file, n |-> count.changes]
<1>1. run.task \in Tasks \cup {NoTask} /\ count.changes \in Nat
    BY DEF FolderShape, RunShape, Runs
<1>2. c \in Change
    BY <1>1 DEF Change
<1> HIDE DEF c
<1>3. loose' = loose \cup {c}
    BY DEF Edit, c
<1>4. count' \in [changes : Nat, moves : Nat, crashes : Nat]
    BY <1>1 DEF Edit, FolderShape
<1> QED BY <1>2, <1>3, <1>4 DEF FolderShape

LEMMA OneCommitMore ==
    ASSUME FolderShape, NEW b \in DOMAIN branch, NEW c \in OwnCommit
    PROVE  LET next == [branch EXCEPT ![b] = Append(@, c)]
           IN  /\ AreBranches(next)
               /\ DOMAIN next = DOMAIN branch
               /\ OnBranches(branch) \subseteq OnBranches(next)
               /\ c.work \subseteq OnBranches(next)
<1> DEFINE s == Append(branch[b], c)
<1>1. AreBranches(branch) /\ branch[b] \in Seq(OwnCommit)
    BY DEF FolderShape, AreBranches
<1>2. s \in Seq(OwnCommit)
    BY <1>1, AppendProperties
<1>3. Changes(branch[b]) \subseteq Changes(s) /\ c.work \subseteq Changes(s)
    BY <1>1, ChangesOfAppend
<1>4. [branch EXCEPT ![b] = Append(@, c)] = [branch EXCEPT ![b] = s]
    OBVIOUS
<1> HIDE DEF s
<1> QED BY <1>1, <1>2, <1>3, <1>4, OneBranchSet

(* New branch's record of what it makes, one step on. *)
LEMMA NewIsShaped ==
    ASSUME FolderShape, NEW step \in {"create", "keep", "switch", "discard", "clean"},
           NEW carry \in {"take", "commit", "aside"}
    PROVE  /\ [new EXCEPT !.step = step] \in Makings
           /\ [step |-> step, seen |-> Folder, carry |-> carry] \in Makings
           /\ [NoNew EXCEPT !.step = step, !.carry = carry] \in Makings
           /\ [NoNew EXCEPT !.step = step, !.seen = Folder] \in Makings
           /\ [new EXCEPT !.step = step].step = step
           /\ [step |-> step, seen |-> Folder, carry |-> carry].step = step
           /\ [NoNew EXCEPT !.step = step, !.carry = carry].step = step
           /\ [NoNew EXCEPT !.step = step, !.seen = Folder].step = step
           /\ [new EXCEPT !.step = step].seen = new.seen
           /\ [step |-> step, seen |-> Folder, carry |-> carry].seen.loose = loose
           /\ [NoNew EXCEPT !.step = step, !.carry = carry].seen.loose = {}
           /\ [NoNew EXCEPT !.step = step, !.seen = Folder].seen.loose = loose
<1>1. Folder \in [head : Names, tip : Seq(OwnCommit), loose : SUBSET Change]
    BY SeenIsShaped
<1>2. new \in Makings /\ NoNew \in Makings
    BY NoNewIsShaped DEF FolderShape
<1>3. NoNew.seen.loose = {}
    BY DEF NoNew
<1>4. Folder.loose = loose
    BY DEF Folder
<1> HIDE DEF NoNew, Folder
<1> QED BY <1>1, <1>2, <1>3, <1>4 DEF Makings

(* The branch New branch saw the folder on is there. *)
LEMMA SeenBranchIsThere ==
    ASSUME FolderShape, newBranchCreate \/ createNewBranch \/ keepUncommitted \/ switchToNew
                        \/ switchDiscarding \/ takesOutNewFiles \/ Crash
    PROVE  new'.seen.head \in DOMAIN branch
<1>1. NoNew.seen.head \in DOMAIN branch
    BY DEF NoNew, FolderShape, AreBranches
<1>2. Folder.head \in DOMAIN branch
    BY DEF Folder, FolderShape
<1>3. [NoNew EXCEPT !.step = "create", !.seen = Folder].seen.head \in DOMAIN branch
    BY <1>2 DEF NoNew
<1>4. \A carry : [NoNew EXCEPT !.step = "switch", !.carry = carry].seen.head \in DOMAIN branch
    BY <1>1 DEF NoNew
<1>5. \A step, carry : [step |-> step, seen |-> Folder, carry |-> carry].seen.head \in DOMAIN branch
    BY <1>2
<1>6. \A step : [new EXCEPT !.step = step].seen.head \in DOMAIN branch
    BY DEF FolderShape, Makings
<1> HIDE DEF NoNew, Folder
<1>7. CASE new' = NoNew
    BY <1>1, <1>7
<1>8. CASE newBranchCreate \/ createNewBranch
    BY <1>1, <1>3, <1>4, <1>5, <1>8 DEF newBranchCreate, createNewBranch
<1>9. CASE keepUncommitted
    BY <1>1, <1>4, <1>6, <1>9 DEF keepUncommitted
<1>10. CASE switchDiscarding
    BY <1>1, <1>6, <1>10 DEF switchDiscarding
<1> QED BY <1>7, <1>8, <1>9, <1>10 DEF switchToNew, takesOutNewFiles, Crash

LEMMA FolderOfTheTask ==
    ASSUME IInv,
           (\E t \in Tasks : runQueueItem(t)) \/ onExistingBranch \/ switchTo \/ Work \/ finish
           \/ commitAll \/ afterCommit \/ writesEnd \/ Crash \/ commitInterrupted
    PROVE  FolderShape'
<1> USE DEF IInv
<1>1. ASSUME NEW t \in Tasks, runQueueItem(t)
      PROVE  FolderShape'
  <2>1. CASE UNCHANGED branch
      BY <1>1, <2>1 DEF runQueueItem, FolderShape, AreBranches
  <2>2. CASE branch' = [branch EXCEPT ![t] = RemoteMain]
    <3>1. AreBranches(branch) /\ t \in DOMAIN branch
        BY DEF FolderShape, AreBranches
    <3>2. AreBranches(branch') /\ DOMAIN branch' = DOMAIN branch
        BY <2>2, <3>1, OneBranchSet, RemoteMainIsOwn
    <3> QED BY <1>1, <3>2 DEF runQueueItem, FolderShape
  <2> QED BY <1>1, <2>1, <2>2 DEF runQueueItem, refreshQueueBranch
<1>2. CASE onExistingBranch \/ finish \/ afterCommit \/ writesEnd \/ commitInterrupted
    BY <1>2 DEF onExistingBranch, finish, afterCommit, writesEnd, commitInterrupted, FolderShape, AreBranches
<1>3. CASE switchTo
  <2>1. run.task \in Tasks
      BY <1>3 DEF switchTo, At, RunShape, Runs, NoRun
  <2>2. head' \in DOMAIN branch
      BY <1>3, <2>1 DEF switchTo, FolderShape, AreBranches
  <2> QED BY <1>3, <2>2 DEF switchTo, FolderShape, AreBranches
<1>4. CASE Work
  <2>1. run.task \in Tasks
      BY <1>4 DEF Work, RunShape, Runs, NoRun
  <2>2. loose' \in SUBSET Change /\ count' \in [changes : Nat, moves : Nat, crashes : Nat]
      BY <1>4, <2>1, AnEditIsAChange, FilesAssumption DEF Work
  <2> QED BY <1>4, <2>2 DEF Work, Edit, FolderShape, AreBranches
<1>5. CASE commitAll
  <2>1. UNCHANGED <<head, new, count>> /\ loose' \in SUBSET Change
      BY <1>5 DEF commitAll, FolderShape
  <2>2. CASE UNCHANGED branch
      BY <2>1, <2>2 DEF FolderShape, AreBranches
  <2>3. CASE branch' = [branch EXCEPT ![head] = Append(@, Commit(run.task, loose))]
    <3>1. run.task \in Tasks
        BY <1>5 DEF commitAll, At, RunShape, Runs, NoRun
    <3>2. "head" \in HandsOff => head = run.task /\ \A x \in loose : x.during = run.task
        BY <1>5 DEF commitAll, At, ItsOwnWork
    <3>3. Commit(run.task, loose) \in OwnCommit
        BY <3>1, <3>2, CommitIsOwn
    <3>4. AreBranches(branch') /\ DOMAIN branch' = DOMAIN branch
        BY <2>3, <3>3, OneCommitMore DEF FolderShape
    <3> QED BY <2>1, <3>4 DEF FolderShape
  <2> QED BY <1>5, <2>2, <2>3 DEF commitAll
<1>6. CASE Crash
  <2>1. new' \in Makings /\ new'.step = "off"
      BY <1>6, NoNewIsShaped DEF Crash, NoNew
  <2>2. count' \in [changes : Nat, moves : Nat, crashes : Nat]
      BY <1>6 DEF Crash, FolderShape
  <2>3. new'.seen.head \in DOMAIN branch
      BY <1>6, SeenBranchIsThere
  <2> QED BY <1>6, <2>1, <2>2, <2>3 DEF Crash, FolderShape, AreBranches
<1> QED BY <1>1, <1>2, <1>3, <1>4, <1>5, <1>6

LEMMA FolderOfNewBranch ==
    ASSUME IInv,
           newBranchCreate \/ createNewBranch \/ keepUncommitted \/ switchToNew \/ switchDiscarding
           \/ takesOutNewFiles
    PROVE  FolderShape'
<1> USE DEF IInv
<1>0. new'.seen.head \in DOMAIN branch
    BY SeenBranchIsThere
<1>1. CASE newBranchCreate
  <2>1. new' \in Makings
      BY <1>1, NewIsShaped DEF newBranchCreate
  <2> QED BY <1>0, <1>1, <2>1 DEF newBranchCreate, FolderShape, AreBranches
<1>2. CASE createNewBranch
  <2>1. new' \in Makings
      BY <1>2, NewIsShaped, NoNewIsShaped DEF createNewBranch
  <2> QED BY <1>0, <1>2, <2>1 DEF createNewBranch, FolderShape, AreBranches, Making
<1>3. CASE keepUncommitted
  <2>1. UNCHANGED <<head, count>> /\ loose' \in SUBSET Change
      BY <1>3 DEF keepUncommitted, FolderShape
  <2>2. new' \in Makings
      BY <1>3, NewIsShaped, NoNewIsShaped DEF keepUncommitted
  <2>3. \A by \in {"operator", "bot"} : Append(new.seen.tip, Commit(by, loose)) \in Seq(OwnCommit)
    <3>1. \A by \in {"operator", "bot"} : Commit(by, loose) \in OwnCommit
        BY CommitIsOwn, TaskAssumption
    <3>2. new.seen.tip \in Seq(OwnCommit)
        BY DEF FolderShape, Makings
    <3> QED BY <3>1, <3>2, AppendProperties
  <2>4. CASE new' = NoNew /\ UNCHANGED <<branch, loose>>
      BY <2>1, <2>2, <2>4 DEF FolderShape, AreBranches, NoNew
  <2>5. CASE /\ "saved" \notin DOMAIN branch
             /\ branch' = WithBranch("saved", Append(new.seen.tip, Commit("bot", loose)))
             /\ new' = [new EXCEPT !.step = "discard"]
    <3>1. AreBranches(branch') /\ DOMAIN branch' = DOMAIN branch \cup {"saved"}
        BY <2>3, <2>5, OneBranchMore DEF FolderShape, Names
    <3>2. "new" \notin DOMAIN branch
        BY <1>3 DEF keepUncommitted, Making, FolderShape
    <3> QED BY <1>0, <2>1, <2>2, <3>1, <3>2 DEF FolderShape
  <2>6. CASE /\ branch[new.seen.head] = new.seen.tip
             /\ branch' = [branch EXCEPT ![new.seen.head] =
                              Append(new.seen.tip, Commit("operator", loose))]
    <3>1. CASE new.seen.head \in DOMAIN branch
      <4>1. AreBranches(branch') /\ DOMAIN branch' = DOMAIN branch
          BY <2>3, <2>6, <3>1, OneBranchSet DEF FolderShape
      <4>2. "new" \notin DOMAIN branch
          BY <1>3 DEF keepUncommitted, Making, FolderShape
      <4> QED BY <1>0, <2>1, <2>2, <4>1, <4>2 DEF FolderShape
    <3>2. CASE new.seen.head \notin DOMAIN branch
      <4>1. branch' = branch
          BY <2>6, <3>2 DEF FolderShape, AreBranches
      <4>2. "new" \notin DOMAIN branch
          BY <1>3 DEF keepUncommitted, Making, FolderShape
      <4> QED BY <1>0, <2>1, <2>2, <4>1, <4>2 DEF FolderShape, AreBranches
    <3> QED BY <3>1, <3>2
  <2> QED BY <1>3, <2>4, <2>5, <2>6 DEF keepUncommitted
<1>4. CASE switchToNew \/ switchDiscarding
  <2>1. "new" \notin DOMAIN branch
      BY <1>4 DEF switchToNew, switchDiscarding, Making, FolderShape
  <2>2. OnNewBranch => AreBranches(branch') /\ head' \in DOMAIN branch'
    <3>1. AreBranches(branch) /\ "new" \in Names \ DOMAIN branch
        BY <2>1 DEF FolderShape, Names
    <3>2. /\ AreBranches(WithBranch("new", RemoteMain))
          /\ DOMAIN WithBranch("new", RemoteMain) = DOMAIN branch \cup {"new"}
        BY <3>1, OneBranchMore, RemoteMainIsOwn
    <3> QED BY <3>2 DEF OnNewBranch
  <2>3. new' \in Makings /\ new'.step \in {"off", "clean"}
    <3>1. NoNew \in Makings /\ NoNew.step = "off"
        BY NoNewIsShaped DEF NoNew
    <3>2. [new EXCEPT !.step = "clean"] \in Makings /\ [new EXCEPT !.step = "clean"].step = "clean"
        BY NewIsShaped
    <3>3. new' = NoNew \/ new' = [new EXCEPT !.step = "clean"]
        BY <1>4 DEF switchToNew, switchDiscarding
    <3> QED BY <3>1, <3>2, <3>3
  <2>4. loose' \in SUBSET Change /\ UNCHANGED count
      BY <1>4 DEF switchToNew, switchDiscarding, FolderShape, NewFiles
  <2>5. OnNewBranch \/ UNCHANGED <<branch, head>>
      BY <1>4 DEF switchToNew, switchDiscarding
  <2>6. AreBranches(branch') /\ head' \in DOMAIN branch'
      BY <2>2, <2>5 DEF FolderShape, AreBranches
  <2>7. DOMAIN branch \subseteq DOMAIN branch'
      BY <2>5 DEF OnNewBranch, WithBranch
  <2> QED BY <1>0, <2>3, <2>4, <2>6, <2>7 DEF FolderShape
<1>5. CASE takesOutNewFiles
  <2>1. new' \in Makings /\ new'.step = "off"
      BY <1>5, NoNewIsShaped DEF takesOutNewFiles, NoNew
  <2> QED BY <1>0, <1>5, <2>1 DEF takesOutNewFiles, cleanNewFiles, FolderShape, AreBranches
<1> QED BY <1>1, <1>2, <1>3, <1>4, <1>5

LEMMA FolderOfTheOperator ==
    ASSUME IInv, OperatorEdits \/ OperatorCommits \/ OperatorSwitches \/ OperatorResets
    PROVE  FolderShape'
<1> USE DEF IInv
<1>1. CASE OperatorEdits
  <2>1. loose' \in SUBSET Change /\ count' \in [changes : Nat, moves : Nat, crashes : Nat]
      BY <1>1, AnEditIsAChange DEF OperatorEdits
  <2> QED BY <1>1, <2>1 DEF OperatorEdits, Edit, FolderShape, AreBranches
<1>2. CASE OperatorCommits \/ OperatorSwitches \/ OperatorResets
  <2>1. count' \in [changes : Nat, moves : Nat, crashes : Nat]
      BY <1>2 DEF OperatorCommits, OperatorSwitches, OperatorResets, Moves, FolderShape
  <2>2. CASE OperatorCommits
    <3>1. Commit("operator", loose) \in OwnCommit
        BY CommitIsOwn, TaskAssumption
    <3>2. AreBranches(branch') /\ DOMAIN branch' = DOMAIN branch
        BY <2>2, <3>1, OneCommitMore DEF OperatorCommits, FolderShape
    <3> QED BY <2>1, <2>2, <3>2 DEF OperatorCommits, Moves, FolderShape
  <2>3. CASE OperatorSwitches
      BY <2>1, <2>3 DEF OperatorSwitches, Moves, FolderShape, AreBranches
  <2>4. CASE OperatorResets
    <3>1. AreBranches(branch) /\ head \in DOMAIN branch /\ branch[head] \in Seq(OwnCommit)
        BY DEF FolderShape, AreBranches
    <3>2. Front(branch[head]) \in Seq(OwnCommit)
        BY <2>4, <3>1, FrontIsShorter DEF OperatorResets
    <3>3. AreBranches(branch') /\ DOMAIN branch' = DOMAIN branch
        BY <2>4, <3>1, <3>2, OneBranchSet DEF OperatorResets
    <3> QED BY <2>1, <2>4, <3>3 DEF OperatorResets, Moves, FolderShape
  <2> QED BY <1>2, <2>2, <2>3, <2>4
<1> QED BY <1>1, <1>2

-----------------------------------------------------------------------------
(* The run at work and its task's state in the queue.                      *)
LEMMA RunsOn ==
    ASSUME RunShape, run # NoRun,
           NEW step \in {"look", "switch", "work", "commit", "reread", "end"},
           status' = status, run' \in Runs, run'.task = run.task, run'.step = step,
           run'.outcome = "aborted" <=> run.outcome = "aborted",
           run'.outcome = "none" <=> step \in {"look", "switch", "work"}
    PROVE  RunShape'
<1>1. run.task # NoTask
    BY DEF RunShape
<1>2. run' # NoRun
    BY DEF NoRun
<1> QED BY <1>1, <1>2 DEF RunShape

LEMMA RunIsOver ==
    ASSUME RunShape, NEW as \in {"done", "failed", "aborted"}, Ends(as) \/ (run' = NoRun /\ UNCHANGED status)
    PROVE  RunShape'
<1>1. NoRun \in Runs
  <2>1. <<>> \in Seq(OwnCommit)
      OBVIOUS
  <2> QED BY <2>1 DEF NoRun, Runs
<1>2. status' \in [Tasks -> {"waiting", "running", "done", "failed", "aborted"}]
    BY DEF Ends, RunShape
<1>3. run' = NoRun
    BY DEF Ends
<1>4. NoRun.task = NoTask /\ NoRun.step = "off" /\ NoRun.branched = FALSE
      /\ NoRun.outcome = "none"
    BY DEF NoRun
<1> QED BY <1>1, <1>2, <1>3, <1>4 DEF RunShape

LEMMA RunShapeStep ==
    ASSUME IInv, [Next]_vars
    PROVE  RunShape'
<1> USE DEF IInv
<1> DEFINE others == \/ newBranchCreate \/ createNewBranch \/ keepUncommitted
                     \/ switchToNew \/ switchDiscarding \/ takesOutNewFiles
                     \/ OperatorEdits \/ OperatorCommits \/ OperatorSwitches \/ OperatorResets
<1>1. CASE UNCHANGED <<status, run>>
    BY <1>1 DEF RunShape
<1>2. ASSUME NEW t \in Tasks, runQueueItem(t)
      PROVE  RunShape'
  <2>1. /\ status' = [status EXCEPT ![t] = "running"]
        /\ run' = [NoRun EXCEPT !.task = t, !.step = "look"]
      BY <1>2 DEF runQueueItem
  <2>2. run' \in Runs
    <3>1. <<>> \in Seq(OwnCommit)
        OBVIOUS
    <3> QED BY <2>1, <3>1 DEF NoRun, Runs
  <2>3. /\ run'.task = t /\ run'.step = "look" /\ run'.outcome = "none"
        /\ run'.branched = FALSE
      BY <2>1 DEF NoRun
  <2>4. status' \in [Tasks -> {"waiting", "running", "done", "failed", "aborted"}]
        /\ status'[t] = "running"
      BY <2>1 DEF RunShape
  <2>5. run' # NoRun /\ t # NoTask
      BY <2>3, TaskAssumption DEF NoRun
  <2> QED BY <2>2, <2>3, <2>4, <2>5 DEF RunShape
<1>3. CASE onExistingBranch
  <2>1. CASE Goes("switch") /\ UNCHANGED status
    <3>1. run # NoRun
        BY <1>3 DEF onExistingBranch, At, NoRun
    <3>2. run' \in Runs /\ run'.task = run.task /\ run'.step = "switch" /\ run'.outcome = run.outcome
        BY <2>1 DEF Goes, RunShape, Runs
    <3>3. run.outcome = "none"
        BY <1>3 DEF onExistingBranch, At, RunShape
    <3> QED BY <2>1, <3>1, <3>2, <3>3, RunsOn
  <2> QED BY <1>3, <2>1, RunIsOver DEF onExistingBranch
<1>4. CASE switchTo
  <2>1. CASE /\ run' = [run EXCEPT !.step = "work", !.base = branch[run.task], !.branched = TRUE]
             /\ UNCHANGED status
    <3>1. run # NoRun
        BY <1>4 DEF switchTo, At, NoRun
    <3>2. branch[run.task] \in Seq(OwnCommit)
        BY <3>1 DEF FolderShape, AreBranches, RunShape, Runs
    <3>3. run' \in Runs /\ run'.task = run.task /\ run'.step = "work" /\ run'.outcome = run.outcome
        BY <2>1, <3>2 DEF RunShape, Runs
    <3>4. run.outcome = "none"
        BY <1>4 DEF switchTo, At, RunShape
    <3> QED BY <2>1, <3>1, <3>3, <3>4, RunsOn
  <2> QED BY <1>4, <2>1, RunIsOver DEF switchTo
<1>5. CASE finish
  <2>1. run # NoRun /\ run.outcome = "none"
      BY <1>5 DEF finish, At, NoRun, RunShape
  <2>2. PICK outcome \in {"done", "failed"}, problem \in {TRUE, ~ItsBranchStands} :
            run' = [run EXCEPT !.step = IF problem THEN "reread" ELSE "commit",
                               !.outcome = outcome, !.problem = problem]
      BY <1>5 DEF finish
  <2>3. ItsBranchStands \in BOOLEAN
      BY DEF ItsBranchStands
  <2>4. run' \in Runs /\ run'.task = run.task /\ run'.outcome = outcome
      BY <2>2, <2>3 DEF RunShape, Runs
  <2>5. run'.step \in {"commit", "reread"}
      BY <2>2 DEF RunShape, Runs
  <2>6. status' = status
      BY <1>5 DEF finish
  <2> QED BY <2>1, <2>4, <2>5, <2>6, RunsOn
<1>6. CASE commitAll
  <2>1. run # NoRun /\ run.outcome # "none"
      BY <1>6 DEF commitAll, At, NoRun, RunShape
  <2>2. /\ run' \in Runs /\ run'.task = run.task /\ run'.step = "reread"
        /\ run'.outcome = run.outcome
      BY <1>6 DEF commitAll, Goes, RunShape, Runs
  <2> QED BY <1>6, <2>1, <2>2, RunsOn DEF commitAll
<1>14. CASE afterCommit
  <2>1. run # NoRun /\ run.outcome # "none"
      BY <1>14 DEF afterCommit, At, NoRun, RunShape
  <2>2. count.changes \in Nat /\ (loose # {}) \in BOOLEAN
      BY DEF FolderShape
  <2>3. run' \in Runs /\ run'.task = run.task /\ run'.step = "end" /\ run'.outcome = run.outcome
      BY <1>14, <2>2 DEF afterCommit, Goes, RunShape, Runs
  <2> QED BY <1>14, <2>1, <2>3, RunsOn DEF afterCommit
<1>7. CASE writesEnd
  <2>1. run.outcome \in {"done", "failed", "aborted"}
      BY <1>7 DEF writesEnd, At, RunShape, Runs
  <2>2. \E as \in {"done", "failed", "aborted"} : Ends(as)
      BY <1>7, <2>1 DEF writesEnd
  <2> QED BY <2>2, RunIsOver
<1>8. CASE Crash
  <2>1. CASE run' = NoRun /\ UNCHANGED status
      BY <2>1, RunIsOver
  <2>2. CASE /\ run # NoRun
             /\ run' = [run EXCEPT !.step = "settle", !.outcome = "aborted",
                                   !.problem = FALSE, !.left = FALSE, !.reread = 0]
             /\ status' = [status EXCEPT ![run.task] = "aborted"]
    <3>1. run.task \in Tasks /\ run.task # NoTask
        BY <2>2 DEF RunShape, Runs
    <3>2. /\ run' \in Runs /\ run'.task = run.task /\ run'.step = "settle"
          /\ run'.outcome = "aborted"
        BY <2>2 DEF RunShape, Runs
    <3>3. status' \in [Tasks -> {"waiting", "running", "done", "failed", "aborted"}]
          /\ status'[run.task] = "aborted"
        BY <2>2, <3>1 DEF RunShape
    <3>4. run' # NoRun
        BY <3>2 DEF NoRun
    <3> QED BY <3>1, <3>2, <3>3, <3>4 DEF RunShape
  <2> QED BY <1>8, <2>1, <2>2 DEF Crash
<1>9. CASE commitInterrupted
  <2>1. CASE run' = NoRun
      BY <1>9, <2>1, RunIsOver DEF commitInterrupted
  <2>2. CASE Goes("commit")
    <3>1. run # NoRun /\ run.outcome = "aborted"
        BY <1>9 DEF commitInterrupted, At, NoRun, RunShape
    <3>2. /\ run' \in Runs /\ run'.task = run.task /\ run'.step = "commit"
          /\ run'.outcome = run.outcome
        BY <2>2 DEF Goes, RunShape, Runs
    <3> QED BY <1>9, <3>1, <3>2, RunsOn DEF commitInterrupted
  <2> QED BY <1>9, <2>1, <2>2 DEF commitInterrupted
<1>10. CASE Work \/ OperatorEdits
    BY <1>1, <1>10 DEF Work, OperatorEdits, Edit
<1>11. CASE newBranchCreate \/ createNewBranch \/ keepUncommitted \/ switchToNew
            \/ switchDiscarding \/ takesOutNewFiles
    BY <1>1, <1>11 DEF newBranchCreate, createNewBranch, keepUncommitted, switchToNew,
                       switchDiscarding, takesOutNewFiles
<1>12. CASE OperatorCommits \/ OperatorSwitches \/ OperatorResets
    BY <1>1, <1>12 DEF OperatorCommits, OperatorSwitches, OperatorResets, Moves
<1>13. CASE UNCHANGED vars
    BY <1>1, <1>13 DEF vars
<1> QED BY <1>2, <1>3, <1>4, <1>5, <1>6, <1>7, <1>8, <1>9, <1>10, <1>11, <1>12, <1>13, <1>14
           DEF Next

LEMMA FolderShapeStep ==
    ASSUME IInv, [Next]_vars
    PROVE  FolderShape'
<1>1. CASE UNCHANGED vars
    BY <1>1 DEF vars, IInv, FolderShape, AreBranches
<1> QED BY <1>1, FolderOfTheTask, FolderOfNewBranch, FolderOfTheOperator DEF Next

-----------------------------------------------------------------------------
(* Whose work the folder holds.                                            *)
LEMMA ItsOwnWorkStep ==
    ASSUME IInv, [Next]_vars
    PROVE  ItsOwnWork'
<1> USE DEF IInv
<1>1. ASSUME NEW t \in Tasks, runQueueItem(t)
      PROVE  ItsOwnWork'
    BY <1>1 DEF runQueueItem, ItsOwnWork, NoRun
<1>2. CASE onExistingBranch
    BY <1>2 DEF onExistingBranch, ItsOwnWork, RunShape, Runs, Goes, Ends, NoRun, At
<1>3. CASE switchTo
  <2>1. run \in Runs /\ \A x \in loose : x.during = run.task
      BY <1>3 DEF switchTo, At, ItsOwnWork, RunShape
  <2>2. CASE run' = [run EXCEPT !.step = "work", !.base = branch[run.task], !.branched = TRUE]
    <3>1. run'.step = "work" /\ run'.branched /\ run'.task = run.task
        BY <2>1, <2>2 DEF Runs
    <3> QED BY <1>3, <2>1, <3>1 DEF switchTo, ItsOwnWork
  <2>3. CASE Ends("failed")
      BY <2>3 DEF Ends, ItsOwnWork, NoRun
  <2> QED BY <1>3, <2>2, <2>3 DEF switchTo
<1>4. CASE Work \/ OperatorEdits
    BY <1>4 DEF Work, OperatorEdits, Edit, ItsOwnWork
<1>5. CASE finish
  <2>1. PICK outcome \in {"done", "failed"}, problem \in {TRUE, ~ItsBranchStands} :
            run' = [run EXCEPT !.step = IF problem THEN "reread" ELSE "commit",
                               !.outcome = outcome, !.problem = problem]
      BY <1>5 DEF finish
  <2>2. /\ run'.task = run.task /\ run'.branched = run.branched
        /\ run'.step = IF problem THEN "reread" ELSE "commit"
      BY <2>1 DEF RunShape, Runs
  <2>3. run.branched
      BY <1>5 DEF finish, At, ItsOwnWork
  <2>4. run'.step = "commit" => head = run.task
    <3>1. problem = TRUE \/ problem = ~ItsBranchStands
        OBVIOUS
    <3>2. run'.step = "commit" => ~problem
        BY <2>2
    <3>3. ~problem => ItsBranchStands
        BY <3>1
    <3> QED BY <3>2, <3>3 DEF ItsBranchStands
  <2> QED BY <1>5, <2>2, <2>3, <2>4 DEF finish, ItsOwnWork
<1>6. CASE commitAll \/ afterCommit
    BY <1>6 DEF commitAll, afterCommit, At, Goes, ItsOwnWork, RunShape, Runs
<1>7. CASE writesEnd
    BY <1>7 DEF writesEnd, Ends, ItsOwnWork, NoRun
<1>8. CASE Crash
  <2>1. CASE run' = NoRun
      BY <2>1 DEF ItsOwnWork, NoRun
  <2>2. CASE run' = [run EXCEPT !.step = "settle", !.outcome = "aborted",
                                !.problem = FALSE, !.left = FALSE, !.reread = 0]
    <3>1. run'.step = "settle" /\ run'.branched = run.branched /\ run'.task = run.task
        BY <2>2 DEF RunShape, Runs
    <3> QED BY <1>8, <3>1 DEF Crash, ItsOwnWork
  <2> QED BY <1>8, <2>1, <2>2 DEF Crash
<1>9. CASE commitInterrupted
    BY <1>9 DEF commitInterrupted, At, Goes, ItsBranchStands, ItsOwnWork, NoRun, RunShape, Runs
<1>10. CASE newBranchCreate \/ createNewBranch \/ UNCHANGED vars
    BY <1>10 DEF newBranchCreate, createNewBranch, vars, ItsOwnWork
<1>11. CASE keepUncommitted \/ switchToNew \/ switchDiscarding
    BY <1>11 DEF keepUncommitted, switchToNew, switchDiscarding, MayMove, NewFiles, ItsOwnWork
<1>12. CASE takesOutNewFiles
    BY <1>12 DEF takesOutNewFiles, cleanNewFiles, ItsOwnWork
<1>13. CASE OperatorCommits \/ OperatorSwitches \/ OperatorResets
    BY <1>13 DEF OperatorCommits, OperatorSwitches, OperatorResets, Moves, MayMove, ItsOwnWork
<1> QED BY <1>1, <1>2, <1>3, <1>4, <1>5, <1>6, <1>7, <1>8, <1>9, <1>10, <1>11, <1>12, <1>13
           DEF Next

-----------------------------------------------------------------------------
(* What New branch takes out of the folder.                                *)

\* What is on a branch stays there: every step but a reset.
LEMMA BranchesKeep ==
    ASSUME IInv, [Next]_vars, ~OperatorResets
    PROVE  OnBranches(branch) \subseteq OnBranches(branch')
<1> USE DEF IInv
<1>1. CASE UNCHANGED branch
    BY <1>1
<1>2. ASSUME NEW t \in Tasks, runQueueItem(t)
      PROVE  OnBranches(branch) \subseteq OnBranches(branch')
  <2>1. CASE branch[t] = <<>> /\ branch' = [branch EXCEPT ![t] = RemoteMain]
    <3>1. AreBranches(branch) /\ t \in DOMAIN branch
        BY DEF FolderShape, AreBranches
    <3>2. Changes(branch[t]) \subseteq Changes(RemoteMain)
        BY <2>1 DEF Changes
    <3> QED BY <2>1, <3>1, <3>2, OneBranchSet, RemoteMainIsOwn
  <2> QED BY <1>2, <1>1, <2>1 DEF runQueueItem, refreshQueueBranch
<1>3. CASE commitAll
  <2>1. CASE branch' = [branch EXCEPT ![head] = Append(@, Commit(run.task, loose))]
    <3>1. run.task \in Tasks
        BY <1>3 DEF commitAll, At, RunShape, Runs, NoRun
    <3>2. "head" \in HandsOff => head = run.task /\ \A x \in loose : x.during = run.task
        BY <1>3 DEF commitAll, At, ItsOwnWork
    <3>3. Commit(run.task, loose) \in OwnCommit
        BY <3>1, <3>2, CommitIsOwn
    <3> QED BY <2>1, <3>3, OneCommitMore DEF FolderShape
  <2> QED BY <1>1, <1>3, <2>1 DEF commitAll
<1>4. CASE keepUncommitted
  <2>1. /\ new.seen.tip \in Seq(OwnCommit)
        /\ \A by \in {"operator", "bot"} : Commit(by, loose) \in OwnCommit
      BY CommitIsOwn, TaskAssumption DEF FolderShape, Makings
  <2>2. \A by \in {"operator", "bot"} : 
            /\ Append(new.seen.tip, Commit(by, loose)) \in Seq(OwnCommit)
            /\ Changes(new.seen.tip) \subseteq Changes(Append(new.seen.tip, Commit(by, loose)))
      BY <2>1, AppendProperties, ChangesOfAppend
  <2>3. CASE /\ "saved" \notin DOMAIN branch
             /\ branch' = WithBranch("saved", Append(new.seen.tip, Commit("bot", loose)))
      BY <2>2, <2>3, OneBranchMore DEF FolderShape, Names
  <2>4. CASE /\ branch[new.seen.head] = new.seen.tip
             /\ branch' = [branch EXCEPT ![new.seen.head] =
                              Append(new.seen.tip, Commit("operator", loose))]
    <3>1. CASE new.seen.head \in DOMAIN branch
        BY <2>2, <2>4, <3>1, OneBranchSet DEF FolderShape
    <3>2. CASE new.seen.head \notin DOMAIN branch
        BY <2>4, <3>2, <1>1 DEF FolderShape, AreBranches
    <3> QED BY <3>1, <3>2
  <2> QED BY <1>1, <1>4, <2>3, <2>4 DEF keepUncommitted
<1>5. CASE switchToNew \/ switchDiscarding
  <2>1. AreBranches(branch) /\ "new" \in Names \ DOMAIN branch
      BY <1>5 DEF switchToNew, switchDiscarding, Making, FolderShape, Names
  <2>2. OnBranches(branch) \subseteq OnBranches(WithBranch("new", RemoteMain))
      BY <2>1, OneBranchMore, RemoteMainIsOwn
  <2> QED BY <1>1, <1>5, <2>2 DEF switchToNew, switchDiscarding, OnNewBranch
<1>6. CASE OperatorCommits
  <2>1. Commit("operator", loose) \in OwnCommit
      BY CommitIsOwn, TaskAssumption
  <2> QED BY <1>6, <2>1, OneCommitMore DEF OperatorCommits, FolderShape
<1>7. CASE onExistingBranch \/ switchTo \/ Work \/ finish \/ afterCommit \/ writesEnd \/ Crash
           \/ commitInterrupted
    BY <1>1, <1>7 DEF onExistingBranch, switchTo, Work, Edit, finish, afterCommit, writesEnd, Crash,
                      commitInterrupted
<1>8. CASE newBranchCreate \/ createNewBranch \/ takesOutNewFiles \/ OperatorEdits
           \/ OperatorSwitches \/ UNCHANGED vars
    BY <1>1, <1>8 DEF newBranchCreate, createNewBranch, takesOutNewFiles, OperatorEdits, Edit,
                      OperatorSwitches, vars
<1> QED BY <1>2, <1>3, <1>4, <1>5, <1>6, <1>7, <1>8 DEF Next

\* A commit of all that is loose puts it on a branch.
LEMMA KeptIsOnABranch ==
    ASSUME IInv, keepUncommitted, new' # NoNew
    PROVE  loose \subseteq OnBranches(branch')
<1> USE DEF IInv
<1>1. /\ new.seen.tip \in Seq(OwnCommit)
      /\ \A by \in {"operator", "bot"} : Commit(by, loose) \in OwnCommit
    BY CommitIsOwn, TaskAssumption DEF FolderShape, Makings
<1>2. \A by \in {"operator", "bot"} : Commit(by, loose).work = loose
    BY DEF Commit
<1>3. \A by \in {"operator", "bot"} :
          /\ Append(new.seen.tip, Commit(by, loose)) \in Seq(OwnCommit)
          /\ loose \subseteq Changes(Append(new.seen.tip, Commit(by, loose)))
    BY <1>1, <1>2, AppendProperties, ChangesOfAppend
<1>4. CASE /\ "saved" \notin DOMAIN branch
           /\ branch' = WithBranch("saved", Append(new.seen.tip, Commit("bot", loose)))
    BY <1>3, <1>4, OneBranchMore DEF FolderShape, Names
<1>5. CASE branch' = [branch EXCEPT ![new.seen.head] =
                         Append(new.seen.tip, Commit("operator", loose))]
    BY <1>3, <1>5, OneBranchSet DEF FolderShape
<1> QED BY <1>4, <1>5 DEF keepUncommitted

(* The files git tracks where the folder is: as they were, where the commits under it changed but *)
(* its changes did not.                                                                          *)
LEMMA StaysPutAside ==
    ASSUME IInv, loose' \subseteq loose, UNCHANGED new,
           OnBranches(branch) \subseteq OnBranches(branch'),
           \A x \in loose' : x.file \in Tracked(branch'[head']) => x.file \in Tracked(branch[head])
    PROVE  PutAside'
BY DEF IInv, PutAside, PutAsideNew

(* Nothing is edited that is about to be taken out. *)
LEMMA AnEditIsNotInTheWay ==
    ASSUME IInv, NEW by \in Tasks \cup {"operator"}, NEW file \in Files, Edit(by, file)
    PROVE  PutAside'
<1> USE DEF IInv
<1> DEFINE c == [by |-> by, during |-> run.task, file |-> file, n |-> count.changes]
<1>1. c.file = file
    OBVIOUS
<1> HIDE DEF c
<1>2. loose' = loose \cup {c} /\ UNCHANGED <<branch, head, new>>
    BY DEF Edit, c
<1>3. PutAsideNew' = PutAsideNew
    BY <1>2 DEF PutAsideNew
<1>4. "edits" \in HandsOff =>
          /\ new.step = "discard" => c.file \notin Tracked(branch[head])
          /\ new.step \in {"discard", "clean"} => c.file \notin PutAsideNew
    BY <1>1 DEF Edit, MayEdit
<1> QED BY <1>2, <1>3, <1>4 DEF PutAside

(* New branch is not there, or not yet there, at a step that takes anything out. *)
LEMMA NothingToTakeOut ==
    ASSUME new'.step \notin {"discard", "clean"}
    PROVE  PutAside'
BY DEF PutAside

LEMMA PutAsideStep ==
    ASSUME IInv, [Next]_vars
    PROVE  PutAside'
<1> USE DEF IInv
<1>1. ASSUME loose' \subseteq loose, UNCHANGED <<branch, head, new>>
      PROVE  PutAside'
    BY <1>1, StaysPutAside
<1>2. CASE OperatorResets
  <2>1. new.step \in {"discard", "clean"} => "copy" \notin HandsOff
      BY <1>2 DEF OperatorResets, MayReset
  <2> QED BY <1>2, <2>1 DEF OperatorResets, Moves, PutAside
<1>3. CASE onExistingBranch \/ finish \/ afterCommit \/ writesEnd \/ commitInterrupted
    BY <1>1, <1>3 DEF onExistingBranch, finish, afterCommit, writesEnd, commitInterrupted
<1>4. ASSUME NEW t \in Tasks, runQueueItem(t)
      PROVE  PutAside'
  <2>1. CASE UNCHANGED branch
      BY <1>1, <1>4, <2>1 DEF runQueueItem
  <2>2. CASE branch[t] = <<>> /\ branch' = [branch EXCEPT ![t] = RemoteMain]
    <3>1. Tracked(RemoteMain) = Tracked(<<>>)
      <4>1. Changes(RemoteMain) = {} /\ Changes(<<>>) = {}
          BY DEF Changes, RemoteMain
      <4> QED BY <4>1 DEF Tracked
    <3>2. head \in DOMAIN branch /\ t \in DOMAIN branch
        BY DEF FolderShape, AreBranches
    <3>3. branch'[head] = IF head = t THEN RemoteMain ELSE branch[head]
        BY <2>2, <3>2
    <3>4. UNCHANGED <<head, loose, new>>
        BY <1>4 DEF runQueueItem
    <3>5. Tracked(branch'[head']) = Tracked(branch[head])
        BY <2>2, <3>1, <3>3, <3>4
    <3>6. ~OperatorResets \/ OperatorResets
        OBVIOUS
    <3>7. CASE ~OperatorResets
        BY <3>4, <3>5, <3>7, BranchesKeep, StaysPutAside
    <3> QED BY <1>2, <3>7
  <2> QED BY <1>4, <2>1, <2>2 DEF runQueueItem, refreshQueueBranch
<1>5. CASE switchTo \/ OperatorSwitches
  <2>1. UNCHANGED <<branch, loose, new>>
      BY <1>5 DEF switchTo, OperatorSwitches, Moves
  <2>2. UNCHANGED head \/ \A x \in loose : x.file \in Tracked(branch[head'])
                                              => x.file \in Tracked(branch[head])
      BY <1>5 DEF switchTo, OperatorSwitches, Fits
  <2> QED BY <2>1, <2>2, StaysPutAside
<1>6. CASE commitAll \/ OperatorCommits
  <2>1. loose' = {} \/ UNCHANGED <<branch, loose>>
      BY <1>6 DEF commitAll, OperatorCommits
  <2>2. UNCHANGED <<head, new>>
      BY <1>6 DEF commitAll, OperatorCommits, Moves
  <2>3. CASE loose' = {}
      BY <2>3 DEF PutAside
  <2> QED BY <1>1, <2>1, <2>2, <2>3
<1>7. CASE Work
  <2>1. run.task \in Tasks
      BY <1>7 DEF Work, RunShape, Runs, NoRun
  <2> QED BY <1>7, <2>1, AnEditIsNotInTheWay, FilesAssumption DEF Work
<1>8. CASE OperatorEdits
    BY <1>8, AnEditIsNotInTheWay DEF OperatorEdits
<1>9. NoNew.step = "off"
    BY DEF NoNew
<1>10. CASE Crash \/ switchToNew \/ takesOutNewFiles
    BY <1>9, <1>10, NothingToTakeOut DEF Crash, switchToNew, takesOutNewFiles
<1>11. CASE newBranchCreate \/ createNewBranch
  <2>1. CASE new' = NoNew
      BY <1>9, <2>1, NothingToTakeOut
  <2>2. CASE newBranchCreate
    <3>1. new'.step = "create"
        BY <2>2, NewIsShaped DEF newBranchCreate
    <3> QED BY <3>1, NothingToTakeOut
  <2>3. CASE new' = [NoNew EXCEPT !.step = "switch", !.carry = "take"]
    <3>1. new'.step = "switch"
        BY <2>3, NewIsShaped
    <3> QED BY <3>1, NothingToTakeOut
  <2>4. ASSUME NEW carry \in {"commit", "aside"},
               new' = [step |-> "keep", seen |-> Folder, carry |-> carry]
        PROVE  PutAside'
    <3>1. new'.step = "keep"
        BY <2>4, NewIsShaped
    <3> QED BY <3>1, NothingToTakeOut
  <2> QED BY <1>11, <2>1, <2>2, <2>3, <2>4 DEF createNewBranch
<1>12. CASE keepUncommitted
  <2>1. CASE new' = NoNew
      BY <1>9, <2>1, NothingToTakeOut
  <2>2. CASE new' = [NoNew EXCEPT !.step = "switch", !.carry = "commit"]
    <3>1. new'.step = "switch"
        BY <2>2, NewIsShaped
    <3> QED BY <3>1, NothingToTakeOut
  <2>3. CASE new' = [new EXCEPT !.step = "discard"] /\ UNCHANGED loose
    <3>1. new'.step = "discard"
        BY <2>3, NewIsShaped
    <3>2. loose \subseteq OnBranches(branch')
        BY <1>9, <1>12, <3>1, KeptIsOnABranch
    <3> QED BY <2>3, <3>2 DEF PutAside
  <2> QED BY <1>12, <2>1, <2>2, <2>3 DEF keepUncommitted
<1>13. CASE switchDiscarding
  <2>1. CASE new' = NoNew
      BY <1>9, <2>1, NothingToTakeOut
  <2>2. CASE new' = [new EXCEPT !.step = "clean"] /\ loose' = NewFiles(loose, branch[head])
    <3>1. new'.step = "clean" /\ new'.seen = new.seen
        BY <2>2, NewIsShaped
    <3>2. PutAsideNew' = PutAsideNew
        BY <3>1 DEF PutAsideNew
    <3>3. CASE ~OperatorResets
      <4>1. OnBranches(branch) \subseteq OnBranches(branch')
          BY <3>3, BranchesKeep
      <4>2. new.step = "discard"
          BY <1>13 DEF switchDiscarding, Making
      <4> QED BY <2>2, <3>1, <3>2, <4>1, <4>2 DEF NewFiles, PutAside
    <3> QED BY <1>2, <3>3
  <2> QED BY <1>13, <2>1, <2>2 DEF switchDiscarding
<1>14. CASE UNCHANGED vars
    BY <1>1, <1>14 DEF vars
<1> QED BY <1>2, <1>3, <1>4, <1>5, <1>6, <1>7, <1>8, <1>10, <1>11, <1>12, <1>13, <1>14 DEF Next

-----------------------------------------------------------------------------
(* What the folder held when it was read after the commit.                 *)

\* Only an edit puts anything in the folder.
LEMMA OnlyEditsAdd ==
    ASSUME IInv, [Next]_vars
    PROVE  loose' \subseteq loose \/ Work \/ OperatorEdits
BY DEF Next, vars, runQueueItem, onExistingBranch, switchTo, finish, commitAll, afterCommit,
       writesEnd, Crash, commitInterrupted, newBranchCreate, createNewBranch, keepUncommitted,
       switchToNew, switchDiscarding, takesOutNewFiles, cleanNewFiles, NewFiles,
       OperatorCommits, OperatorSwitches, OperatorResets, IInv, FolderShape

LEMMA JudgedStep ==
    ASSUME IInv, [Next]_vars
    PROVE  Judged'
<1> USE DEF IInv
<1>1. /\ count.changes \in Nat /\ run.reread \in Nat
      /\ \A x \in loose : x.n \in Nat
    BY DEF FolderShape, RunShape, Runs, Change
<1>2. CASE Work \/ OperatorEdits
  <2>1. PICK by \in Tasks \cup {NoTask, "operator"}, file \in Files : Edit(by, file)
      BY <1>2, FilesAssumption DEF Work, OperatorEdits, RunShape, Runs
  <2>2. /\ loose' = loose \cup {[by |-> by, during |-> run.task, file |-> file, n |-> count.changes]}
        /\ count'.changes = count.changes + 1
        /\ run' = run
      BY <2>1 DEF Edit, FolderShape
  <2> QED BY <1>1, <2>2 DEF Judged
<1>3. CASE loose' \subseteq loose /\ UNCHANGED run /\ count'.changes = count.changes
    BY <1>3 DEF Judged
<1>4. CASE run'.step # "end" /\ run'.reread = 0 /\ count'.changes = count.changes
    BY <1>1, <1>4 DEF Judged
<1>5. NoRun.step = "off" /\ NoRun.reread = 0
    BY DEF NoRun
<1>6. ASSUME NEW t \in Tasks, runQueueItem(t)
      PROVE  Judged'
    BY <1>4, <1>6 DEF runQueueItem, NoRun
<1>7. CASE onExistingBranch \/ switchTo \/ finish \/ commitAll
  <2>1. run \in Runs /\ run.reread = 0 /\ UNCHANGED count
      BY <1>7 DEF onExistingBranch, switchTo, finish, commitAll, At, Judged, RunShape
  <2>2. run' = NoRun \/ (run'.step # "end" /\ run'.reread = 0)
      BY <1>7, <2>1 DEF onExistingBranch, switchTo, finish, commitAll, Goes, Ends, Runs
  <2> QED BY <1>4, <1>5, <2>1, <2>2
<1>8. CASE afterCommit
  <2>1. run \in Runs /\ run.reread = 0 /\ UNCHANGED <<count, loose>>
      BY <1>8 DEF afterCommit, At, Judged, RunShape
  <2>2. CASE run' = [run EXCEPT !.step = "end", !.left = loose # {}, !.reread = count.changes]
    <3>1. run'.left = (loose # {}) /\ run'.reread = count.changes /\ run'.step = "end"
        BY <2>1, <2>2 DEF Runs
    <3>2. ~run'.left => loose' = {}
        BY <2>1, <3>1
    <3>3. run'.reread <= count'.changes
        BY <1>1, <2>1, <3>1
    <3> QED BY <3>1, <3>2, <3>3 DEF Judged
  <2>3. CASE Goes("end")
    <3>1. run'.reread = 0
        BY <2>1, <2>3 DEF Goes, Runs
    <3> QED BY <1>1, <2>1, <3>1 DEF Judged
  <2> QED BY <1>8, <2>2, <2>3 DEF afterCommit
<1>9. CASE writesEnd \/ commitInterrupted
  <2>1. UNCHANGED count /\ run \in Runs
      BY <1>9 DEF writesEnd, commitInterrupted, RunShape
  <2>2. run' = NoRun \/ (run'.step = "commit" /\ run'.reread = 0)
      BY <1>9, <2>1 DEF writesEnd, commitInterrupted, Ends, Goes, At, Judged, Runs
  <2> QED BY <1>4, <1>5, <2>1, <2>2
<1>10. CASE Crash
  <2>1. count'.changes = count.changes /\ run \in Runs
      BY <1>10 DEF Crash, FolderShape, RunShape
  <2>2. run' = NoRun \/ (run'.step = "settle" /\ run'.reread = 0)
      BY <1>10, <2>1 DEF Crash, Runs
  <2> QED BY <1>4, <1>5, <2>1, <2>2
<1>11. CASE newBranchCreate \/ createNewBranch \/ keepUncommitted \/ switchToNew
            \/ switchDiscarding \/ takesOutNewFiles \/ UNCHANGED vars
  <2>1. UNCHANGED <<run, count>>
      BY <1>11 DEF newBranchCreate, createNewBranch, keepUncommitted, switchToNew,
                   switchDiscarding, takesOutNewFiles, vars
  <2> QED BY <1>2, <1>3, <2>1, OnlyEditsAdd
<1>12. CASE OperatorCommits \/ OperatorSwitches \/ OperatorResets
  <2>1. UNCHANGED run /\ count'.changes = count.changes
      BY <1>12 DEF OperatorCommits, OperatorSwitches, OperatorResets, Moves, FolderShape
  <2> QED BY <1>2, <1>3, <2>1, OnlyEditsAdd
<1> QED BY <1>2, <1>6, <1>7, <1>8, <1>9, <1>10, <1>11, <1>12 DEF Next

-----------------------------------------------------------------------------
(* The theorems.                                                           *)

(***************************************************************************)
(* The inductive invariant: the branches' commits are their makers' own,   *)
(* the folder holds nothing older than the task at work there, what New    *)
(* branch is about to take out of it is on a branch, and what was left     *)
(* after a task's commit is on its record.                                 *)
(***************************************************************************)
THEOREM Inductive == Spec => []IInv
<1>1. IInv /\ [Next]_vars => IInv'
    BY FolderShapeStep, RunShapeStep, ItsOwnWorkStep, PutAsideStep, JudgedStep DEF IInv
<1> QED BY AtFirst, <1>1, PTL DEF Spec

(* The type invariant: the branches, the folder and the task at work are as stated. *)
THEOREM TypeCorrect == Spec => []TypeOK
<1>1. IInv => TypeOK
  <2> SUFFICES ASSUME IInv
               PROVE  TypeOK
      OBVIOUS
  <2>1. \A s \in Seq(OwnCommit) : s \in Commits
    <3>1. OwnCommit \subseteq CommitRecord
        BY DEF OwnCommit
    <3>2. Seq(OwnCommit) \subseteq Seq(CommitRecord)
        BY <3>1
    <3> QED BY <3>2 DEF Commits, CommitRecord
  <2>2. DOMAIN branch \subseteq Names /\ \A b \in DOMAIN branch : branch[b] \in Commits
      BY <2>1 DEF IInv, FolderShape, AreBranches
  <2>3. run.task \in Tasks \cup {NoTask}
      BY DEF IInv, RunShape, Runs
  <2> QED BY <2>2, <2>3 DEF IInv, FolderShape, RunShape, TypeOK
<1> QED BY Inductive, <1>1, PTL

(***************************************************************************)
(* A commit in a task's name is on that task's branch and holds only what  *)
(* was changed since the task began (commitTaskResult, onExistingBranch),  *)
(* while neither the operator nor New branch moves HEAD between the last   *)
(* look at it and the commit.                                              *)
(***************************************************************************)
THEOREM TasksCommitTheirOwn ==
    ASSUME "head" \in HandsOff
    PROVE  Spec => []CommitsAreItsOwn
<1>1. IInv => CommitsAreItsOwn
  <2> SUFFICES ASSUME IInv, NEW b \in DOMAIN branch, NEW i \in DOMAIN branch[b]
               PROVE  IsOwn(branch[b][i])
      BY DEF CommitsAreItsOwn, IsOwn
  <2>1. branch[b] \in Seq(OwnCommit)
      BY DEF IInv, FolderShape, AreBranches
  <2>2. branch[b][i] \in OwnCommit
      BY <2>1
  <2> QED BY <2>2 DEF OwnCommit
<1> QED BY Inductive, <1>1, PTL

(***************************************************************************)
(* A task that ends done leaves nothing uncommitted that was there when    *)
(* the folder was read after its commit, and is not on its record as left: *)
(* the record is not looked at again against the folder, which may be      *)
(* edited, moved and committed from before the end is written, and git may *)
(* have failed at the commit unseen (commitTaskResult, commitShortfall).   *)
(***************************************************************************)
THEOREM DoneTasksAreCommitted == Spec => DoneIsCommitted
<1> DEFINE step == \A t \in Tasks : status[t] # "done" /\ status'[t] = "done"
                      => \A x \in loose' : x.n >= run.reread
<1>1. IInv /\ [Next]_vars => step
  <2> SUFFICES ASSUME IInv, [Next]_vars, NEW t \in Tasks, status[t] # "done", status'[t] = "done"
               PROVE  \A x \in loose' : x.n >= run.reread
      OBVIOUS
  <2>1. ASSUME NEW as \in {"running", "aborted", "failed"}, NEW u,
               status' = [status EXCEPT ![u] = as]
        PROVE  FALSE
      BY <2>1 DEF IInv, RunShape
  <2>2. status' # status
      OBVIOUS
  <2>3. ~(\E u \in Tasks : runQueueItem(u)) /\ ~Crash /\ ~onExistingBranch /\ ~switchTo
      BY <2>1, <2>2 DEF runQueueItem, Crash, onExistingBranch, switchTo, Ends
  <2>4. writesEnd
    <3>1. ~(Work \/ finish \/ commitAll \/ afterCommit \/ commitInterrupted)
        BY <2>2 DEF Work, Edit, finish, commitAll, afterCommit, commitInterrupted
    <3>2. ~(newBranchCreate \/ createNewBranch \/ keepUncommitted \/ switchToNew
            \/ switchDiscarding \/ takesOutNewFiles)
        BY <2>2 DEF newBranchCreate, createNewBranch, keepUncommitted, switchToNew,
                    switchDiscarding, takesOutNewFiles
    <3>3. ~(OperatorEdits \/ OperatorCommits \/ OperatorSwitches \/ OperatorResets)
        BY <2>2 DEF OperatorEdits, Edit, OperatorCommits, OperatorSwitches, OperatorResets, Moves
    <3> QED BY <2>2, <2>3, <3>1, <3>2, <3>3 DEF Next, vars
  <2>5. run.outcome \in {"done", "failed", "aborted"}
      BY <2>4 DEF writesEnd, At, IInv, RunShape, Runs
  <2>6. ~commitShortfall
    <3>1. CASE run.outcome = "done" /\ commitShortfall
        BY <2>1, <2>4, <3>1 DEF writesEnd, Ends
    <3> QED BY <3>1, <2>1, <2>4, <2>5 DEF writesEnd, Ends
  <2> QED BY <2>4, <2>6 DEF writesEnd, At, commitShortfall, IInv, Judged
<1>2. [][step]_vars <=> DoneIsCommitted
    BY PTL DEF DoneIsCommitted
<1> QED BY Inductive, <1>1, <1>2, PTL DEF Spec

(***************************************************************************)
(* No change is lost by a step of the program: it stays in the folder or   *)
(* comes to be on a branch, through New branch's copy, its switch that     *)
(* discards and its clean by name too, until the operator gives a commit   *)
(* up - while nobody, a task left running included, edits what is being    *)
(* taken out or gives the copy up.                                         *)
(***************************************************************************)
THEOREM ChangesAreKept ==
    ASSUME {"edits", "copy"} \subseteq HandsOff
    PROVE  Spec => NothingIsDropped
<1>1. IInv /\ [Next]_vars => OperatorResets \/ Kept \subseteq Kept'
  <2> SUFFICES ASSUME IInv, [Next]_vars, ~OperatorResets
               PROVE  Kept \subseteq Kept'
      OBVIOUS
  <2>1. OnBranches(branch) \subseteq OnBranches(branch')
      BY BranchesKeep
  <2> SUFFICES loose \subseteq loose' \cup OnBranches(branch')
      BY <2>1 DEF Kept, OnBranches
  <2> USE DEF IInv
  <2>2. CASE commitAll
    <3>1. CASE UNCHANGED loose \/ loose = {}
        BY <3>1
    <3>2. CASE branch' = [branch EXCEPT ![head] = Append(@, Commit(run.task, loose))]
      <4>1. run.task \in Tasks
          BY <2>2 DEF commitAll, At, RunShape, Runs, NoRun
      <4>2. "head" \in HandsOff => head = run.task /\ \A x \in loose : x.during = run.task
          BY <2>2 DEF commitAll, At, ItsOwnWork
      <4>3. Commit(run.task, loose) \in OwnCommit /\ Commit(run.task, loose).work = loose
          BY <4>1, <4>2, CommitIsOwn DEF Commit
      <4> QED BY <3>2, <4>3, OneCommitMore DEF FolderShape
    <3> QED BY <2>2, <3>1, <3>2 DEF commitAll
  <2>3. CASE OperatorCommits
    <3>1. Commit("operator", loose) \in OwnCommit /\ Commit("operator", loose).work = loose
        BY CommitIsOwn, TaskAssumption DEF Commit
    <3> QED BY <2>3, <3>1, OneCommitMore DEF OperatorCommits, FolderShape
  <2>4. CASE keepUncommitted
    <3>1. CASE UNCHANGED loose
        BY <3>1
    <3>2. CASE new' = [NoNew EXCEPT !.step = "switch", !.carry = "commit"]
      <4>1. new' # NoNew
          BY <3>2 DEF NoNew
      <4> QED BY <2>4, <4>1, KeptIsOnABranch
    <3> QED BY <2>4, <3>1, <3>2 DEF keepUncommitted
  <2>5. CASE switchDiscarding
    <3>1. CASE UNCHANGED loose
        BY <3>1
    <3>2. CASE loose' = NewFiles(loose, branch[head])
      <4>1. \A x \in loose : x.file \in Tracked(branch[head]) => x \in OnBranches(branch)
          BY <2>5 DEF switchDiscarding, Making, PutAside
      <4> QED BY <2>1, <3>2, <4>1 DEF NewFiles
    <3> QED BY <2>5, <3>1, <3>2 DEF switchDiscarding
  <2>6. CASE takesOutNewFiles
    <3>1. \A x \in loose : x.file \in PutAsideNew => x \in OnBranches(branch)
        BY <2>6 DEF takesOutNewFiles, Making, PutAside
    <3> QED BY <2>1, <2>6, <3>1 DEF takesOutNewFiles, cleanNewFiles, NewFiles
  <2>7. CASE (\E t \in Tasks : runQueueItem(t)) \/ onExistingBranch \/ switchTo \/ Work \/ finish
             \/ afterCommit \/ writesEnd \/ Crash \/ commitInterrupted
      BY <2>7 DEF runQueueItem, onExistingBranch, switchTo, Work, Edit, finish, afterCommit,
                  writesEnd, Crash, commitInterrupted
  <2>8. CASE newBranchCreate \/ createNewBranch \/ switchToNew \/ OperatorEdits \/ OperatorSwitches
             \/ UNCHANGED vars
      BY <2>8 DEF newBranchCreate, createNewBranch, switchToNew, OperatorEdits, Edit,
                  OperatorSwitches, vars
  <2> QED BY <2>2, <2>3, <2>4, <2>5, <2>6, <2>7, <2>8 DEF Next
<1> QED BY Inductive, <1>1, PTL DEF Spec, NothingIsDropped
=============================================================================
