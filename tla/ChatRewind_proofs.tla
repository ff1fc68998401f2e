------------------------- MODULE ChatRewind_proofs -------------------------
(***************************************************************************)
(* What TLAPS proves of ChatRewind for every set of files, contents and    *)
(* branches and every bound: the shape of its state; and, where the        *)
(* operator starts nothing while a going back is under way, that gone back *)
(* means back, that a message is taken out only then and stays on record,  *)
(* and that no file and no commit of the folder gone back from is lost but *)
(* where the code writes over it, or does not see it in its directory.     *)
(***************************************************************************)
EXTENDS ChatRewind, TLAPS, SequenceTheorems, WellFoundedInduction

-----------------------------------------------------------------------------
(* The state's shape.                                                      *)

Commits == Seq(Tree) \ {<<>>}

\* A repository, and it has the branch that is checked out.
Repos == [work : Tree, on : Branches \cup {NoBranch}, at : Commits, tips : [Branches -> Seq(Tree)]]
IsRepo(r) == r \in Repos /\ (r.on \in Branches => r.tips[r.on] # <<>>)

Checkpoints == [commit : Commits, head : Commits, branch : Branches \cup {NoBranch}]
MaybeCheckpoint == Checkpoints \cup {NoCheckpoint}

\* The branch a checkpoint goes back to is there.
HasItsPlace(cp, tips) == cp.branch \in Branches => tips[cp.branch] # <<>>

Message == [id : Nat, cp : MaybeCheckpoint, done : BOOLEAN]

MessagesShape ==
    /\ sent \in 0..MaxMessages
    /\ tasks \in Seq(Message)
    /\ \A i \in DOMAIN tasks : /\ tasks[i].id \in 1..sent
                               /\ HasItsPlace(tasks[i].cp, repo.tips)
    /\ \A i, j \in DOMAIN tasks : i < j => tasks[i].id < tasks[j].id
    /\ rewound \subseteq Ids
    /\ working \in {0} \cup Ids

Steps == Under \cup {"none", "back", "failed"}
Going == [step : Steps, at : Nat, removed : SUBSET Ids, cp : MaybeCheckpoint,
          safety : Seq(Tree), before : Seq(Repos)]

GoingShape ==
    /\ going \in Going
    /\ HasItsPlace(going.cp, repo.tips)
    /\ Underway => going.at \in DOMAIN tasks
    /\ Underway /\ going.step # "record" => going.cp \in Checkpoints
    /\ going.step \in {"checkout", "reset", "keep"} => going.safety # <<>>
    /\ going.step # "none" => going.before # <<>> /\ IsRepo(Was)

Shape ==
    /\ IsRepo(repo)
    /\ records \subseteq Seq(Tree)
    /\ MessagesShape
    /\ GoingShape

-----------------------------------------------------------------------------
(* A going back: what it goes to, and the messages it takes out.           *)

\* The first message from `at` on that ever ran, and what it found.
FirstRan(at, cp) ==
    IF cp = NoCheckpoint THEN \A j \in DOMAIN tasks : at <= j => ~Ran(tasks[j])
    ELSE \E j \in DOMAIN tasks : /\ at <= j /\ Ran(tasks[j]) /\ tasks[j].cp = cp
                                 /\ \A k \in DOMAIN tasks : at <= k /\ k < j => ~Ran(tasks[k])

Leaving ==
    /\ Underway =>
          /\ working = 0
          /\ \A j \in DOMAIN tasks : going.at <= j => tasks[j].id \in going.removed
          /\ FirstRan(going.at, going.cp)
    /\ Underway /\ going.cp = NoCheckpoint => going.step = "record"
    /\ going.step = "back" => \A i \in DOMAIN tasks : tasks[i].id \notin going.removed
    /\ Underway => \A i \in DOMAIN tasks : i < going.at => tasks[i].id \notin going.removed
    /\ EveryMessageOnRecord

\* Where each command has brought the folder.
Coming ==
    LET cp == going.cp
    IN  /\ going.step = "reset" =>
              /\ repo.on = cp.branch
              /\ cp.branch = NoBranch => repo.at = cp.head /\ repo.work.ignore = Last(cp.head).ignore
        /\ going.step \in {"keep", "clean", "files"} =>
              repo.on = cp.branch /\ HeadOf(repo) = cp.head /\ repo.work.ignore = Last(cp.head).ignore
        /\ going.step = "files" =>
              Has(repo.work) \subseteq Has(Last(cp.head)) \cup Last(cp.head).ignore
        /\ going.step \in {"record", "back"} /\ cp # NoCheckpoint => IsBack(repo, cp)

-----------------------------------------------------------------------------
(* What a going back leaves of the folder it goes back from.               *)

\* The safety photograph and what was added to it still begins with the folder as it was.
Covers(safety) ==
    /\ safety \in records
    /\ Len(HeadOf(Was)) + 1 <= Len(safety)
    /\ \A n \in DOMAIN HeadOf(Was) : safety[n] = HeadOf(Was)[n]
    /\ safety[Len(HeadOf(Was)) + 1] = AddAll(Was)

\* A file the photograph has not, and nothing gone back to has in its place.
Apart(p) == p \in Has(Was.work) /\ p \in Was.work.ignore \ Tracked(Was) /\ ~WrittenOver(p)

(* keepWhatCleanTakes sees clean name the directory, and a file of it in the  *)
(* photograph: it takes the whole directory for kept.                         *)
GoesWithItsDirectory(p) == \E q \in Has(AddAll(Was)) : DirOf[q] = DirOf[p]

Stays(p) == repo.work.files[p] = Was.work.files[p]
IsAdded(p) == \E n \in DOMAIN going.safety : going.safety[n].files[p] = Was.work.files[p]

Keeping ==
    /\ going.step \in {"photo", "checkout"} => repo = Was
    /\ going.step \in {"record", "back"} /\ going.cp = NoCheckpoint => repo = Was
    /\ going.step \in {"checkout", "reset", "keep"} => going.safety = photograph(Was)
    /\ going.step = "reset" => repo.tips = Was.tips
    /\ going.step # "none" => repo = Was \/ Covers(going.safety)
    /\ going.step \in {"checkout", "reset", "keep", "clean", "files"} => Covers(going.safety)
    /\ \A p \in Paths : going.step \in {"reset", "keep", "clean"} /\ Apart(p) => Stays(p)
    /\ \A p \in Paths : going.step = "clean" /\ Apart(p) /\ p \in CleanTakes(repo)
                          => IsAdded(p) \/ GoesWithItsDirectory(p)
    /\ \A p \in Paths : going.step # "none" /\ repo # Was /\ Apart(p)
                          => Stays(p) \/ IsAdded(p) \/ GoesWithItsDirectory(p)

BackInv == Leaving /\ Coming /\ Keeping

-----------------------------------------------------------------------------
(* The repository and the commands on it.                                  *)

LEMMA LastIs ==
    ASSUME NEW s \in Commits
    PROVE  /\ s \in Seq(Tree) /\ s # <<>>
           /\ Len(s) \in Nat /\ Len(s) >= 1 /\ DOMAIN s = 1..Len(s)
           /\ Last(s) = s[Len(s)] /\ Last(s) \in Tree
<1>1. s \in Seq(Tree) /\ s # <<>> /\ Len(s) \in Nat /\ Len(s) >= 1 /\ DOMAIN s = 1..Len(s)
    BY DEF Commits
<1>2. s[Len(s)] \in Tree
    BY <1>1, ElementOfSeq
<1> QED BY <1>1, <1>2 DEF Last

LEMMA AppendIs ==
    ASSUME NEW s \in Seq(Tree), NEW t \in Tree
    PROVE  /\ Append(s, t) \in Commits
           /\ Len(Append(s, t)) = Len(s) + 1
           /\ Last(Append(s, t)) = t
           /\ \A n \in DOMAIN s : Append(s, t)[n] = s[n]
<1>1. DOMAIN s = 1..Len(s)
    OBVIOUS
<1> QED BY <1>1, AppendProperties DEF Commits, Last

LEMMA HasIs ==
    ASSUME NEW tree \in Tree
    PROVE  /\ tree.files \in [Paths -> Contents \cup {NoFile}] /\ tree.ignore \in SUBSET Paths
           /\ Has(tree) \in SUBSET Paths
           /\ \A p \in Paths : p \in Has(tree) <=> tree.files[p] # NoFile
BY DEF Tree, Has

LEMMA HeadIs ==
    ASSUME NEW r, IsRepo(r)
    PROVE  /\ HeadOf(r) \in Commits /\ Last(HeadOf(r)) \in Tree
           /\ Tracked(r) \in SUBSET Paths
           /\ r.work \in Tree
<1>1. HeadOf(r) \in Commits
    BY BranchAssumption DEF HeadOf, IsRepo, Repos, Commits
<1>2. Last(HeadOf(r)) \in Tree
    BY <1>1, LastIs
<1>3. Tracked(r) \in SUBSET Paths
    BY <1>2, HasIs DEF Tracked
<1> QED BY <1>1, <1>2, <1>3 DEF IsRepo, Repos

LEMMA Overwritten ==
    ASSUME NEW work \in Tree, NEW tracked \in SUBSET Paths, NEW tree \in Tree
    PROVE  /\ Overwrite(work, tracked, tree) \in Tree
           /\ Overwrite(work, tracked, tree).ignore = tree.ignore
           /\ \A p \in Paths : Overwrite(work, tracked, tree).files[p] =
                 IF tree.files[p] # NoFile THEN tree.files[p]
                 ELSE IF p \in tracked THEN NoFile ELSE work.files[p]
BY DEF Overwrite, Tree

LEMMA AddedAll ==
    ASSUME NEW r, IsRepo(r)
    PROVE  /\ AddAll(r) \in Tree
           /\ AddAll(r).ignore = r.work.ignore
           /\ \A p \in Paths : AddAll(r).files[p] =
                 IF p \in r.work.ignore \ Tracked(r) THEN NoFile ELSE r.work.files[p]
<1>1. r.work \in Tree
    BY HeadIs
<1> QED BY <1>1 DEF AddAll, Tree

LEMMA PhotographIs ==
    ASSUME NEW r, IsRepo(r)
    PROVE  /\ photograph(r) \in Commits /\ photograph(r) \in Seq(Tree)
           /\ Last(photograph(r)) = AddAll(r)
           /\ Len(photograph(r)) = Len(HeadOf(r)) + 1
           /\ photograph(r)[Len(HeadOf(r)) + 1] = AddAll(r)
           /\ \A n \in DOMAIN HeadOf(r) : photograph(r)[n] = HeadOf(r)[n]
<1>1. HeadOf(r) \in Seq(Tree) /\ AddAll(r) \in Tree
    BY HeadIs, AddedAll DEF Commits
<1>2. photograph(r) \in Commits /\ Last(photograph(r)) = AddAll(r)
      /\ Len(photograph(r)) = Len(HeadOf(r)) + 1
      /\ \A n \in DOMAIN HeadOf(r) : photograph(r)[n] = HeadOf(r)[n]
    BY <1>1, AppendIs DEF photograph
<1>3. photograph(r)[Len(HeadOf(r)) + 1] = AddAll(r)
    BY <1>1, AppendProperties DEF photograph
<1> QED BY <1>2, <1>3 DEF Commits

LEMMA NoCheckpointIs ==
    /\ NoCheckpoint \notin Checkpoints
    /\ NoCheckpoint.branch = NoBranch
    /\ \A tips : HasItsPlace(NoCheckpoint, tips)
BY BranchAssumption DEF NoCheckpoint, Checkpoints, Commits, HasItsPlace

LEMMA CheckpointIs ==
    ASSUME NEW r, IsRepo(r)
    PROVE  takeCheckpoint(r) \in Checkpoints /\ HasItsPlace(takeCheckpoint(r), r.tips)
<1>1. photograph(r) \in Commits /\ HeadOf(r) \in Commits
    BY PhotographIs, HeadIs
<1> QED BY <1>1 DEF takeCheckpoint, Checkpoints, HasItsPlace, IsRepo, Repos

\* A branch that is there stays there.
Stand(tips, after) == \A b \in Branches : tips[b] # <<>> => after[b] # <<>>

LEMMA PlaceStays ==
    ASSUME NEW cp \in MaybeCheckpoint, NEW tips, NEW after, Stand(tips, after), HasItsPlace(cp, tips)
    PROVE  HasItsPlace(cp, after)
BY DEF Stand, HasItsPlace

\* A repository whose folder, or what is checked out, is changed.
LEMMA Rewritten ==
    ASSUME NEW r, IsRepo(r), NEW work \in Tree
    PROVE  /\ IsRepo([r EXCEPT !.work = work])
           /\ [r EXCEPT !.work = work].work = work
           /\ [r EXCEPT !.work = work].tips = r.tips
           /\ [r EXCEPT !.work = work].on = r.on
           /\ HeadOf([r EXCEPT !.work = work]) = HeadOf(r)
           /\ Tracked([r EXCEPT !.work = work]) = Tracked(r)
<1>1. /\ IsRepo([r EXCEPT !.work = work])
      /\ [r EXCEPT !.work = work].work = work
      /\ [r EXCEPT !.work = work].tips = r.tips
      /\ [r EXCEPT !.work = work].on = r.on
      /\ [r EXCEPT !.work = work].at = r.at
    BY DEF IsRepo, Repos
<1>2. HeadOf([r EXCEPT !.work = work]) = HeadOf(r)
    BY <1>1 DEF HeadOf
<1> QED BY <1>1, <1>2 DEF Tracked

\* What a branch checked out, or a commit, has: the target of the forced checkout.
Target(r, cp) == IF cp.branch = NoBranch THEN cp.head ELSE r.tips[cp.branch]

LEMMA CheckedOut ==
    ASSUME NEW r, IsRepo(r), NEW cp \in Checkpoints, HasItsPlace(cp, r.tips)
    PROVE  /\ IsRepo(CheckoutForce(r, cp))
           /\ Target(r, cp) \in Commits
           /\ CheckoutForce(r, cp).on = cp.branch
           /\ CheckoutForce(r, cp).tips = r.tips
           /\ cp.branch = NoBranch => CheckoutForce(r, cp).at = cp.head
           /\ CheckoutForce(r, cp).work = Overwrite(r.work, Tracked(r), Last(Target(r, cp)))
           /\ HeadOf(CheckoutForce(r, cp)) = Target(r, cp)
<1> DEFINE work == Overwrite(r.work, Tracked(r), Last(Target(r, cp)))
           at == IF cp.branch = NoBranch THEN cp.head ELSE r.at
<1>1. Target(r, cp) \in Commits
    BY DEF Target, HasItsPlace, IsRepo, Repos, Checkpoints, Commits
<1>2. work \in Tree
    BY <1>1, HeadIs, LastIs, Overwritten
<1>3. at \in Commits /\ cp.branch \in Branches \cup {NoBranch}
    BY DEF IsRepo, Repos, Checkpoints
<1>4. CheckoutForce(r, cp) = [r EXCEPT !.work = work, !.on = cp.branch, !.at = at]
    BY DEF CheckoutForce, Target
<1> HIDE DEF work, at
<1>5. /\ [r EXCEPT !.work = work, !.on = cp.branch, !.at = at] \in Repos
      /\ [r EXCEPT !.work = work, !.on = cp.branch, !.at = at].work = work
      /\ [r EXCEPT !.work = work, !.on = cp.branch, !.at = at].on = cp.branch
      /\ [r EXCEPT !.work = work, !.on = cp.branch, !.at = at].at = at
      /\ [r EXCEPT !.work = work, !.on = cp.branch, !.at = at].tips = r.tips
    BY <1>2, <1>3 DEF IsRepo, Repos
<1>6. IsRepo(CheckoutForce(r, cp))
    BY <1>4, <1>5 DEF IsRepo, HasItsPlace
<1>7. HeadOf(CheckoutForce(r, cp)) = Target(r, cp)
    BY <1>4, <1>5 DEF HeadOf, Target, at
<1> QED BY <1>1, <1>4, <1>5, <1>6, <1>7 DEF work, at

LEMMA WasReset ==
    ASSUME NEW r, IsRepo(r), NEW cp \in Checkpoints
    PROVE  /\ IsRepo(ResetHard(r, cp))
           /\ Stand(r.tips, ResetHard(r, cp).tips)
           /\ ResetHard(r, cp).on = r.on
           /\ cp.branch = NoBranch => ResetHard(r, cp) = r
           /\ cp.branch # NoBranch =>
                 /\ HeadOf(ResetHard(r, cp)) = cp.head
                 /\ ResetHard(r, cp).work = Overwrite(r.work, Tracked(r), Last(cp.head))
<1> DEFINE work == Overwrite(r.work, Tracked(r), Last(cp.head))
           reset == [r EXCEPT !.work = work]
<1>1. cp.head \in Commits /\ cp.head \in Seq(Tree) /\ cp.head # <<>>
    BY DEF Checkpoints, Commits
<1>2. work \in Tree
    BY <1>1, HeadIs, LastIs, Overwritten
<1>3. ResetHard(r, cp) = IF cp.branch = NoBranch THEN r
                         ELSE IF r.on = NoBranch THEN [reset EXCEPT !.at = cp.head]
                         ELSE [reset EXCEPT !.tips[r.on] = cp.head]
    BY DEF ResetHard
<1>4. work = Overwrite(r.work, Tracked(r), Last(cp.head))
    OBVIOUS
<1> HIDE DEF work
<1>5. CASE cp.branch = NoBranch
    BY <1>3, <1>5 DEF Stand
<1>6. CASE cp.branch # NoBranch /\ r.on = NoBranch
  <2> DEFINE q == [r EXCEPT !.work = work, !.at = cp.head]
  <2>1. /\ q \in Repos /\ q.work = work /\ q.on = r.on /\ q.at = cp.head /\ q.tips = r.tips
      BY <1>1, <1>2 DEF IsRepo, Repos
  <2>2. ResetHard(r, cp) = q
      BY <1>3, <1>6 DEF IsRepo, Repos
  <2> HIDE DEF q
  <2>3. IsRepo(q) /\ HeadOf(q) = cp.head /\ Stand(r.tips, q.tips)
      BY <1>6, <2>1, BranchAssumption DEF IsRepo, HeadOf, Stand
  <2> QED BY <1>4, <1>6, <2>1, <2>2, <2>3
<1>7. CASE cp.branch # NoBranch /\ r.on # NoBranch
  <2> DEFINE tips == [r.tips EXCEPT ![r.on] = cp.head]
             q == [r EXCEPT !.work = work, !.tips = tips]
  <2>1. r.on \in Branches
      BY <1>7 DEF IsRepo, Repos
  <2>2. /\ tips \in [Branches -> Seq(Tree)] /\ tips[r.on] = cp.head
        /\ \A b \in Branches \ {r.on} : tips[b] = r.tips[b]
      BY <1>1, <2>1 DEF IsRepo, Repos
  <2>3. ResetHard(r, cp) = q
      BY <1>3, <1>7 DEF IsRepo, Repos
  <2> HIDE DEF tips
  <2>4. /\ q \in Repos /\ q.work = work /\ q.on = r.on /\ q.tips = tips
      BY <1>2, <2>2 DEF IsRepo, Repos
  <2> HIDE DEF q
  <2>5. IsRepo(q) /\ HeadOf(q) = cp.head /\ Stand(r.tips, q.tips)
      BY <1>1, <1>7, <2>2, <2>4 DEF IsRepo, HeadOf, Stand
  <2> QED BY <1>4, <1>7, <2>3, <2>4, <2>5
<1> QED BY <1>5, <1>6, <1>7

LEMMA Cleaned ==
    ASSUME NEW r, IsRepo(r)
    PROVE  /\ IsRepo(Clean(r))
           /\ Clean(r).tips = r.tips /\ Clean(r).on = r.on /\ HeadOf(Clean(r)) = HeadOf(r)
           /\ Clean(r).work.ignore = r.work.ignore
           /\ \A p \in Paths : Clean(r).work.files[p] =
                 IF p \in CleanTakes(r) THEN NoFile ELSE r.work.files[p]
<1> DEFINE files == [p \in Paths |-> IF p \in CleanTakes(r) THEN NoFile ELSE r.work.files[p]]
           work == [r.work EXCEPT !.files = files]
<1>1. r.work \in Tree
    BY HeadIs
<1>2. work \in Tree /\ work.files = files /\ work.ignore = r.work.ignore
    BY <1>1 DEF Tree
<1>3. Clean(r) = [r EXCEPT !.work = work]
    BY <1>1 DEF Clean, IsRepo, Repos
<1> HIDE DEF work
<1> QED BY <1>2, <1>3, Rewritten

LEMMA Restored ==
    ASSUME NEW r, IsRepo(r), NEW cp \in Checkpoints
    PROVE  /\ IsRepo(RestoreFiles(r, cp))
           /\ RestoreFiles(r, cp).tips = r.tips /\ RestoreFiles(r, cp).on = r.on
           /\ HeadOf(RestoreFiles(r, cp)) = HeadOf(r)
           /\ RestoreFiles(r, cp).work = Overwrite(r.work, Tracked(r), Last(cp.commit))
<1> DEFINE work == Overwrite(r.work, Tracked(r), Last(cp.commit))
<1>1. cp.commit \in Commits
    BY DEF Checkpoints
<1>2. work \in Tree
    BY <1>1, HeadIs, LastIs, Overwritten
<1>3. RestoreFiles(r, cp) = [r EXCEPT !.work = work]
    BY DEF RestoreFiles
<1> HIDE DEF work
<1>4. work = Overwrite(r.work, Tracked(r), Last(cp.commit))
    BY DEF work
<1> QED BY <1>2, <1>3, <1>4, Rewritten

\* The safety record begins as it did, and has what is missing from it.
LEMMA KeptMore ==
    ASSUME NEW r, IsRepo(r), NEW safety \in Commits
    PROVE  LET kept == keepWhatCleanTakes(r, safety)
           IN  /\ kept \in Commits
               /\ Len(kept) >= Len(safety)
               /\ \A n \in DOMAIN safety : n \in DOMAIN kept /\ kept[n] = safety[n]
               /\ \A p \in MissingFrom(r, safety) :
                     \E n \in DOMAIN kept : kept[n].files[p] = r.work.files[p]
<1> DEFINE missing == MissingFrom(r, safety)
           kept == keepWhatCleanTakes(r, safety)
           files == [p \in Paths |-> IF p \in missing THEN r.work.files[p] ELSE Last(safety).files[p]]
           more == [Last(safety) EXCEPT !.files = files]
<1>1. Last(safety) \in Tree /\ r.work \in Tree /\ safety \in Seq(Tree)
    BY LastIs, HeadIs
<1>2. more \in Tree /\ more.files = files
    BY <1>1 DEF Tree
<1>3. missing \in SUBSET Paths
    BY <1>1, HasIs DEF MissingFrom, CleanTakes
<1>4. CASE missing = {}
    BY <1>4, LastIs DEF keepWhatCleanTakes
<1>5. CASE missing # {}
  <2>1. kept = Append(safety, more)
      BY <1>1, <1>5 DEF keepWhatCleanTakes, Tree
  <2> HIDE DEF more, kept, missing
  <2>2. /\ kept \in Commits /\ Len(kept) = Len(safety) + 1 /\ Last(kept) = more
        /\ \A n \in DOMAIN safety : kept[n] = safety[n]
      BY <1>1, <1>2, <2>1, AppendIs
  <2>3. DOMAIN safety = 1..Len(safety) /\ DOMAIN kept = 1..Len(kept) /\ Len(safety) \in Nat
        /\ Last(kept) = kept[Len(kept)]
      BY <2>2, LastIs
  <2>4. \A p \in missing : kept[Len(kept)].files[p] = r.work.files[p]
      BY <1>2, <1>3, <2>2, <2>3
  <2> QED BY <2>2, <2>3, <2>4 DEF kept, missing
<1> QED BY <1>4, <1>5

-----------------------------------------------------------------------------
(* The folder as it is edited.                                             *)

Edits(changed) == Edit(changed) /\ IsRepo(changed) /\ Stand(repo.tips, changed.tips)

LEMMA EditKinds ==
    ASSUME IsRepo(repo), WriteFile \/ Ignore \/ CommitAll \/ NewBranch \/ SwitchBranch
    PROVE  \E changed : Edits(changed)
<1>1. /\ repo.work \in Tree /\ HeadOf(repo) \in Commits /\ AddAll(repo) \in Tree
      /\ Tracked(repo) \in SUBSET Paths
      /\ repo.tips \in [Branches -> Seq(Tree)] /\ repo.on \in Branches \cup {NoBranch}
    BY HeadIs, AddedAll DEF IsRepo, Repos
<1>2. Stand(repo.tips, repo.tips)
    BY DEF Stand
<1>3. CASE WriteFile
  <2>1. PICK p \in Paths, c \in Contents \cup {NoFile} : Edit([repo EXCEPT !.work.files[p] = c])
      BY <1>3 DEF WriteFile
  <2> DEFINE work == [repo.work EXCEPT !.files[p] = c]
  <2>2. work \in Tree
      BY <1>1 DEF Tree
  <2>3. [repo EXCEPT !.work.files[p] = c] = [repo EXCEPT !.work = work]
      BY DEF IsRepo, Repos
  <2> HIDE DEF work
  <2>4. Edits([repo EXCEPT !.work = work])
      BY <1>2, <2>1, <2>2, <2>3, Rewritten DEF Edits
  <2> QED BY <2>4
<1>4. CASE Ignore
  <2>1. PICK ignored \in SUBSET Paths : Edit([repo EXCEPT !.work.ignore = ignored])
      BY <1>4 DEF Ignore
  <2> DEFINE work == [repo.work EXCEPT !.ignore = ignored]
  <2>2. work \in Tree
      BY <1>1 DEF Tree
  <2>3. [repo EXCEPT !.work.ignore = ignored] = [repo EXCEPT !.work = work]
      BY DEF IsRepo, Repos
  <2> HIDE DEF work
  <2>4. Edits([repo EXCEPT !.work = work])
      BY <1>2, <2>1, <2>2, <2>3, Rewritten DEF Edits
  <2> QED BY <2>4
<1>5. CASE CommitAll
  <2> DEFINE changed == [repo EXCEPT !.tips[repo.on] = Append(@, AddAll(repo))]
             tips == [repo.tips EXCEPT ![repo.on] = Append(@, AddAll(repo))]
  <2>1. repo.on \in Branches /\ Edit(changed)
      BY <1>1, <1>5 DEF CommitAll
  <2>2. Append(repo.tips[repo.on], AddAll(repo)) \in Commits
      BY <1>1, <2>1, AppendIs
  <2>3. /\ tips \in [Branches -> Seq(Tree)] /\ tips[repo.on] # <<>>
        /\ \A b \in Branches \ {repo.on} : tips[b] = repo.tips[b]
      BY <1>1, <2>1, <2>2 DEF Commits
  <2>4. changed = [repo EXCEPT !.work = repo.work, !.tips = tips, !.on = repo.on]
      BY DEF IsRepo, Repos
  <2> HIDE DEF changed, tips
  <2>5. IsRepo(changed) /\ changed.tips = tips
      BY <1>1, <2>1, <2>3, <2>4 DEF IsRepo, Repos
  <2>6. Edits(changed)
      BY <2>1, <2>3, <2>5 DEF Edits, Stand
  <2> QED BY <2>6
<1>6. CASE NewBranch
  <2>1. PICK b \in Branches : repo.tips[b] = <<>> /\ Edit([repo EXCEPT !.tips[b] = HeadOf(repo), !.on = b])
      BY <1>6 DEF NewBranch
  <2> DEFINE tips == [repo.tips EXCEPT ![b] = HeadOf(repo)]
             changed == [repo EXCEPT !.work = repo.work, !.tips = tips, !.on = b]
  <2>2. /\ tips \in [Branches -> Seq(Tree)] /\ tips[b] # <<>>
        /\ \A c \in Branches \ {b} : tips[c] = repo.tips[c]
      BY <1>1, <2>1 DEF Commits
  <2>3. [repo EXCEPT !.tips[b] = HeadOf(repo), !.on = b] = changed
      BY DEF IsRepo, Repos
  <2> HIDE DEF tips
  <2>4. IsRepo(changed) /\ changed.tips = tips
      BY <1>1, <2>2 DEF IsRepo, Repos
  <2> HIDE DEF changed
  <2>5. Edits(changed)
      BY <2>1, <2>2, <2>3, <2>4 DEF Edits, Stand
  <2> QED BY <2>5
<1>7. CASE SwitchBranch
  <2>1. PICK b \in Branches :
          /\ repo.tips[b] # <<>>
          /\ Edit([repo EXCEPT !.work = Overwrite(@, Tracked(repo), Last(repo.tips[b])), !.on = b])
      BY <1>7 DEF SwitchBranch
  <2> DEFINE work == Overwrite(repo.work, Tracked(repo), Last(repo.tips[b]))
             changed == [repo EXCEPT !.work = work, !.tips = repo.tips, !.on = b]
  <2>2. repo.tips[b] \in Commits
      BY <1>1, <2>1 DEF Commits
  <2>3. work \in Tree
    <3>1. Last(repo.tips[b]) \in Tree
        BY <2>2, LastIs
    <3> QED BY <1>1, <3>1 DEF Overwrite, Tree
  <2>4. [repo EXCEPT !.work = Overwrite(@, Tracked(repo), Last(repo.tips[b])), !.on = b] = changed
      BY DEF IsRepo, Repos
  <2> HIDE DEF work
  <2>5. IsRepo(changed) /\ changed.tips = repo.tips
      BY <1>1, <2>1, <2>3 DEF IsRepo, Repos
  <2> HIDE DEF changed
  <2>6. Edits(changed)
      BY <1>2, <2>1, <2>4, <2>5 DEF Edits
  <2> QED BY <2>6
<1> QED BY <1>3, <1>4, <1>5, <1>6, <1>7

-----------------------------------------------------------------------------
(* The shape, step by step.                                                *)

LEMMA MinIs ==
    ASSUME NEW n \in Nat, NEW S \in SUBSET (1..n), S # {}
    PROVE  Min(S) \in S /\ \A x \in S : Min(S) <= x
<1>1. S \subseteq Nat
    OBVIOUS
<1>2. PICK i \in S : \A j \in S : ~(<<j, i>> \in OpToRel(<, Nat))
    BY <1>1, NatLessThanWellFounded, WFMin
<1>3. \A j \in S : ~(j < i)
    BY <1>1, <1>2 DEF OpToRel
<1>4. \A j \in S : i <= j
    BY <1>1, <1>3
<1> QED BY <1>4 DEF Min

LEMMA Lengths ==
    ASSUME MessagesShape
    PROVE  /\ Len(tasks) \in Nat /\ DOMAIN tasks = 1..Len(tasks)
           /\ sent \in Nat /\ sent <= MaxMessages /\ MaxMessages \in Nat
           /\ \A i \in DOMAIN tasks : tasks[i] \in Message /\ tasks[i].id \in Ids
<1>1. tasks \in Seq(Message) /\ Len(tasks) \in Nat /\ DOMAIN tasks = 1..Len(tasks)
    BY DEF MessagesShape
<1>2. \A i \in DOMAIN tasks : tasks[i] \in Message
    BY <1>1, ElementOfSeq
<1>3. sent \in Nat /\ sent <= MaxMessages /\ MaxMessages \in Nat
    BY BoundsAssumption DEF MessagesShape
<1> QED BY <1>1, <1>2, <1>3 DEF MessagesShape, Ids

LEMMA NotGoingIs ==
    /\ NotGoing \in Going
    /\ NotGoing.cp = NoCheckpoint /\ NotGoing.step = "none"
<1>1. <<>> \in Seq(Tree) /\ <<>> \in Seq(Repos)
    OBVIOUS
<1> QED BY <1>1 DEF NotGoing, Going, Steps, MaybeCheckpoint

\* A step that takes no message out and begins or ends nothing of a going back.
LEMMA GoingStays ==
    ASSUME Shape, Stand(repo.tips, repo'.tips), DOMAIN tasks \subseteq DOMAIN tasks',
           going' = NotGoing \/ UNCHANGED going
    PROVE  GoingShape'
<1>1. CASE going' = NotGoing
  <2>1. going' \in Going /\ going'.cp = NoCheckpoint /\ going'.step = "none"
      BY <1>1, NotGoingIs
  <2> QED BY <2>1, NoCheckpointIs DEF GoingShape, Underway, Under
<1>2. CASE UNCHANGED going
  <2>1. HasItsPlace(going.cp, repo'.tips)
      BY PlaceStays DEF Shape, GoingShape, Going
  <2> QED BY <1>2, <2>1 DEF Shape, GoingShape, Underway, Under, Was
<1> QED BY <1>1, <1>2

\* The messages, where nothing happens to them.
LEMMA MessagesStay ==
    ASSUME Shape, Stand(repo.tips, repo'.tips), UNCHANGED <<tasks, sent, rewound>>,
           working' \in {0, working}
    PROVE  MessagesShape'
<1>1. \A i \in DOMAIN tasks : tasks[i].cp \in MaybeCheckpoint
    BY Lengths DEF Message, Shape
<1>2. \A i \in DOMAIN tasks : HasItsPlace(tasks[i].cp, repo'.tips)
    BY <1>1, PlaceStays DEF Shape, MessagesShape
<1> QED BY <1>2 DEF Shape, MessagesShape

LEMMA SameStand == ASSUME UNCHANGED repo PROVE Stand(repo.tips, repo'.tips)
BY DEF Stand

LEMMA EditShape ==
    ASSUME Shape, NEW changed, Edits(changed)
    PROVE  Shape'
<1>1. /\ repo' = changed /\ UNCHANGED <<records, tasks, rewound, sent, working>>
      /\ going' = NotGoing \/ UNCHANGED going
    BY DEF Edits, Edit, Forget
<1>2. IsRepo(repo)' /\ Stand(repo.tips, repo'.tips)
    BY <1>1 DEF Edits
<1> QED BY <1>1, <1>2, GoingStays, MessagesStay DEF Shape

LEMMA SendShape ==
    ASSUME Shape, chatSend
    PROVE  Shape'
<1> DEFINE new == [id |-> sent + 1, cp |-> NoCheckpoint, done |-> FALSE]
<1>1. /\ UNCHANGED <<repo, records, rewound, working, changes>>
      /\ going' = NotGoing \/ UNCHANGED going
      /\ sent < MaxMessages /\ sent' = sent + 1 /\ tasks' = Append(tasks, new)
    BY DEF chatSend, Forget
<1>2. /\ tasks \in Seq(Message) /\ Len(tasks) \in Nat /\ DOMAIN tasks = 1..Len(tasks)
      /\ sent \in Nat /\ MaxMessages \in Nat
    BY Lengths DEF Shape, MessagesShape
<1>3. new \in Message
    BY <1>2 DEF Message, MaybeCheckpoint
<1> HIDE DEF new
<1>4. /\ tasks' \in Seq(Message) /\ Len(tasks') = Len(tasks) + 1 /\ DOMAIN tasks' = 1..(Len(tasks) + 1)
      /\ \A i \in DOMAIN tasks : tasks'[i] = tasks[i]
      /\ tasks'[Len(tasks) + 1] = new
    BY <1>1, <1>2, <1>3, AppendProperties
<1>5. new.id = sent + 1 /\ new.cp = NoCheckpoint
    BY DEF new
<1>6. \A i \in DOMAIN tasks' : tasks'[i].id \in 1..sent' /\ HasItsPlace(tasks'[i].cp, repo'.tips)
  <2> SUFFICES ASSUME NEW i \in DOMAIN tasks'
               PROVE  tasks'[i].id \in 1..sent' /\ HasItsPlace(tasks'[i].cp, repo'.tips)
      OBVIOUS
  <2>1. CASE i \in DOMAIN tasks
    <3>1. tasks[i].id \in 1..sent /\ HasItsPlace(tasks[i].cp, repo.tips)
        BY <2>1 DEF Shape, MessagesShape
    <3> QED BY <1>1, <1>2, <1>4, <2>1, <3>1
  <2>2. CASE i = Len(tasks) + 1
      BY <1>1, <1>2, <1>4, <1>5, <2>2, NoCheckpointIs
  <2> QED BY <1>2, <1>4, <2>1, <2>2
<1>7. \A i, j \in DOMAIN tasks' : i < j => tasks'[i].id < tasks'[j].id
  <2> SUFFICES ASSUME NEW i \in DOMAIN tasks', NEW j \in DOMAIN tasks', i < j
               PROVE  tasks'[i].id < tasks'[j].id
      OBVIOUS
  <2>1. i \in DOMAIN tasks /\ tasks'[i] = tasks[i] /\ tasks[i].id \in 1..sent
      BY <1>2, <1>4 DEF Shape, MessagesShape
  <2>2. CASE j \in DOMAIN tasks
      BY <1>4, <2>1, <2>2 DEF Shape, MessagesShape
  <2>3. CASE j = Len(tasks) + 1
      BY <1>2, <1>4, <1>5, <2>1, <2>3
  <2> QED BY <1>2, <1>4, <2>2, <2>3
<1>8. sent' \in 0..MaxMessages
    BY <1>1, <1>2
<1>9. MessagesShape'
    BY <1>1, <1>4, <1>6, <1>7, <1>8 DEF Shape, MessagesShape
<1>10. GoingShape'
    BY <1>1, <1>2, <1>4, SameStand, GoingStays
<1> QED BY <1>1, <1>9, <1>10 DEF Shape, IsRepo

\* The messages, changed in their checkpoints or in whether they ended.
LEMMA MessagesChange ==
    ASSUME Shape, UNCHANGED <<repo, sent, rewound>>, working' \in {0} \cup Ids,
           tasks' \in Seq(Message), Len(tasks') = Len(tasks),
           \A i \in DOMAIN tasks : tasks'[i].id = tasks[i].id /\ HasItsPlace(tasks'[i].cp, repo.tips)
    PROVE  MessagesShape' /\ DOMAIN tasks' = DOMAIN tasks
<1>1. DOMAIN tasks' = DOMAIN tasks
    BY Lengths DEF Shape
<1> QED BY <1>1 DEF Shape, MessagesShape

LEMMA RunShape ==
    ASSUME Shape, RunMessage
    PROVE  Shape'
<1>1. PICK i \in DOMAIN tasks :
        /\ working' = tasks[i].id
        /\ tasks' = [tasks EXCEPT ![i].cp = FirstPhotograph(tasks[i])]
        /\ records' = records \cup {FirstPhotograph(tasks[i]).commit}
        /\ Forget
        /\ UNCHANGED <<repo, rewound, sent, changes>>
    BY DEF RunMessage
<1> DEFINE cp == FirstPhotograph(tasks[i])
           message == [tasks[i] EXCEPT !.cp = cp]
<1>2. /\ tasks[i] \in Message /\ tasks[i].id \in Ids
      /\ Len(tasks) \in Nat /\ DOMAIN tasks = 1..Len(tasks) /\ tasks \in Seq(Message)
    BY Lengths DEF Shape, MessagesShape
<1>3. cp \in Checkpoints /\ HasItsPlace(cp, repo.tips)
  <2>1. takeCheckpoint(repo) \in Checkpoints /\ HasItsPlace(takeCheckpoint(repo), repo.tips)
      BY CheckpointIs DEF Shape
  <2>2. HasItsPlace(tasks[i].cp, repo.tips)
      BY DEF Shape, MessagesShape
  <2>3. tasks[i].cp \in Checkpoints \/ ~Ran(tasks[i])
      BY <1>2 DEF Message, MaybeCheckpoint, Ran
  <2> QED BY <2>1, <2>2, <2>3 DEF FirstPhotograph
<1> HIDE DEF cp
<1>4. message \in Message /\ message.id = tasks[i].id /\ message.cp = cp
    BY <1>2, <1>3 DEF Message, MaybeCheckpoint
<1>5. tasks' = [tasks EXCEPT ![i] = message]
    BY <1>1 DEF cp
<1> HIDE DEF message
<1>6. /\ tasks' \in Seq(Message) /\ Len(tasks') = Len(tasks)
      /\ \A j \in DOMAIN tasks : tasks'[j] = IF j = i THEN message ELSE tasks[j]
    BY <1>2, <1>4, <1>5, ExceptSeq
<1>7. \A j \in DOMAIN tasks : tasks'[j].id = tasks[j].id /\ HasItsPlace(tasks'[j].cp, repo.tips)
    BY <1>3, <1>4, <1>6 DEF Shape, MessagesShape
<1>8. working' \in {0} \cup Ids
    BY <1>1, <1>2
<1>9. MessagesShape' /\ DOMAIN tasks' = DOMAIN tasks
    BY <1>1, <1>6, <1>7, <1>8, MessagesChange
<1>10. GoingShape'
    BY <1>1, <1>9, SameStand, GoingStays DEF Forget
<1>11. records' \subseteq Seq(Tree)
    BY <1>1, <1>3 DEF Shape, cp, Checkpoints, Commits
<1> QED BY <1>1, <1>9, <1>10, <1>11 DEF Shape, IsRepo

LEMMA EndShape ==
    ASSUME Shape, EndMessage
    PROVE  Shape'
<1>1. PICK done \in BOOLEAN :
        /\ working' = 0
        /\ tasks' = [i \in DOMAIN tasks |->
                       IF tasks[i].id = working THEN [tasks[i] EXCEPT !.done = done] ELSE tasks[i]]
        /\ UNCHANGED <<repo, records, rewound, sent, going, changes>>
    BY DEF EndMessage
<1>2. /\ Len(tasks) \in Nat /\ DOMAIN tasks = 1..Len(tasks)
      /\ \A i \in DOMAIN tasks : tasks[i] \in Message
    BY Lengths DEF Shape
<1>3. \A i \in DOMAIN tasks : /\ tasks'[i] \in Message
                              /\ tasks'[i].id = tasks[i].id /\ tasks'[i].cp = tasks[i].cp
    BY <1>1, <1>2 DEF Message
<1>4. tasks' \in [1..Len(tasks) -> Message]
    BY <1>1, <1>2, <1>3
<1>5. tasks' \in Seq(Message) /\ Len(tasks') = Len(tasks)
    BY <1>2, <1>4
<1>6. MessagesShape' /\ DOMAIN tasks' = DOMAIN tasks
    BY <1>1, <1>3, <1>5, MessagesChange DEF Shape, MessagesShape
<1>7. GoingShape'
    BY <1>1, <1>6, SameStand, GoingStays
<1> QED BY <1>1, <1>6, <1>7 DEF Shape, IsRepo

\* What a going back goes to, as it begins.
LEMMA FirstOf ==
    ASSUME Shape, NEW i \in DOMAIN tasks,
           NEW ran, ran = {j \in i..Len(tasks) : Ran(tasks[j])},
           NEW cp, cp = IF ran = {} THEN NoCheckpoint ELSE tasks[Min(ran)].cp
    PROVE  /\ cp \in MaybeCheckpoint /\ HasItsPlace(cp, repo.tips)
           /\ ran # {} => cp \in Checkpoints
           /\ FirstRan(i, cp)
<1>1. Len(tasks) \in Nat /\ DOMAIN tasks = 1..Len(tasks) /\ \A j \in DOMAIN tasks : tasks[j] \in Message
    BY Lengths DEF Shape
<1>2. CASE ran = {}
  <2>1. \A j \in DOMAIN tasks : i <= j => ~Ran(tasks[j])
      BY <1>1, <1>2
  <2> QED BY <1>2, <2>1, NoCheckpointIs DEF FirstRan, MaybeCheckpoint
<1>3. CASE ran # {}
  <2> DEFINE f == Min(ran)
  <2>1. f \in ran /\ \A k \in ran : f <= k
    <3>1. ran \in SUBSET (1..Len(tasks))
        BY <1>1
    <3> QED BY <1>1, <1>3, <3>1, MinIs
  <2> HIDE DEF f
  <2>2. f \in DOMAIN tasks /\ i <= f /\ Ran(tasks[f]) /\ f \in Nat
      BY <1>1, <2>1
  <2>3. cp = tasks[f].cp
      BY <1>3 DEF f
  <2>4. cp \in Checkpoints /\ HasItsPlace(cp, repo.tips)
      BY <1>1, <2>2, <2>3 DEF Shape, MessagesShape, Message, MaybeCheckpoint, Ran
  <2>5. \A k \in DOMAIN tasks : i <= k /\ k < f => ~Ran(tasks[k])
      BY <1>1, <2>1, <2>2
  <2> QED BY <2>2, <2>3, <2>4, <2>5, NoCheckpointIs DEF FirstRan, MaybeCheckpoint
<1> QED BY <1>2, <1>3

\* chatRewind, as it leaves what is under way.
Begun(i) ==
    /\ going'.step \in {"record", "photo"} /\ going'.at = i
    /\ going'.removed = {tasks[j].id : j \in i..Len(tasks)}
    /\ going'.cp \in MaybeCheckpoint /\ HasItsPlace(going'.cp, repo.tips)
    /\ going'.step = "photo" => going'.cp \in Checkpoints
    /\ going'.step = "record" => going'.cp = NoCheckpoint
    /\ FirstRan(i, going'.cp)
    /\ going'.safety = <<>> /\ going'.before = <<repo>>
    /\ going' \in Going

LEMMA BegunIs ==
    ASSUME Shape, chatRewind
    PROVE  /\ ~Underway /\ working = 0
           /\ UNCHANGED <<repo, records, tasks, rewound, sent, working>>
           /\ \E i \in DOMAIN tasks : Begun(i)
<1>1. PICK i \in DOMAIN tasks :
        LET ran == {j \in i..Len(tasks) : Ran(tasks[j])}
        IN  going' = [step |-> IF ran = {} THEN "record" ELSE "photo",
                      at |-> i, removed |-> {tasks[j].id : j \in i..Len(tasks)},
                      cp |-> IF ran = {} THEN NoCheckpoint ELSE tasks[Min(ran)].cp,
                      safety |-> <<>>, before |-> <<repo>>]
    BY DEF chatRewind
<1> DEFINE ran == {j \in i..Len(tasks) : Ran(tasks[j])}
           cp == IF ran = {} THEN NoCheckpoint ELSE tasks[Min(ran)].cp
           removed == {tasks[j].id : j \in i..Len(tasks)}
           first == IF ran = {} THEN "record" ELSE "photo"
<1>2. /\ cp \in MaybeCheckpoint /\ HasItsPlace(cp, repo.tips)
      /\ ran # {} => cp \in Checkpoints
      /\ FirstRan(i, cp)
    BY FirstOf
<1>3. first \in {"record", "photo"} /\ (first = "photo" => cp \in Checkpoints) /\ (first = "record" => cp = NoCheckpoint)
    BY <1>2
<1>4. going' = [step |-> first, at |-> i, removed |-> removed, cp |-> cp, safety |-> <<>>, before |-> <<repo>>]
    BY <1>1
<1>5. removed \in SUBSET Ids /\ i \in Nat
    BY Lengths DEF Shape
<1>6. <<repo>> \in Seq(Repos) /\ <<>> \in Seq(Tree)
    BY DEF Shape, IsRepo
<1> HIDE DEF cp, removed, first, ran
<1>7. going' \in Going
    BY <1>2, <1>3, <1>4, <1>5, <1>6 DEF Going, Steps, Under
<1>8. Begun(i)
    BY <1>2, <1>3, <1>4, <1>7 DEF Begun, removed
<1> QED BY <1>8 DEF chatRewind

LEMMA RewindShape ==
    ASSUME Shape, chatRewind
    PROVE  Shape'
<1>1. UNCHANGED <<repo, records, tasks, rewound, sent, working>>
    BY BegunIs
<1>2. PICK i \in DOMAIN tasks : Begun(i)
    BY BegunIs
<1>3. MessagesShape'
    BY <1>1, SameStand, MessagesStay
<1>4. going'.before # <<>> /\ going'.before[1] = repo /\ IsRepo(repo)
    BY <1>2 DEF Begun, Shape
<1>5. GoingShape'
    BY <1>1, <1>2, <1>4 DEF GoingShape, Begun, Underway, Under, Was, IsRepo
<1> QED BY <1>1, <1>3, <1>5 DEF Shape, IsRepo

\* One command of a going back, or its end.
Stepped(next, safety) ==
    /\ Underway /\ UNCHANGED <<tasks, sent, rewound>>
    /\ next \in Under => going.step # "record"
    /\ next \in {"checkout", "reset", "keep"} => safety # <<>>
    /\ going' = [going EXCEPT !.step = next, !.safety = safety]

LEMMA GoingIs ==
    ASSUME Shape, NEW next \in Steps, NEW safety \in Seq(Tree),
           going' = [going EXCEPT !.step = next, !.safety = safety]
    PROVE  /\ going' \in Going
           /\ going'.step = next /\ going'.safety = safety
           /\ going'.at = going.at /\ going'.removed = going.removed
           /\ going'.cp = going.cp /\ going'.before = going.before
           /\ Was' = Was
BY DEF Shape, GoingShape, Going, Was

LEMMA SteppedShape ==
    ASSUME Shape, Stand(repo.tips, repo'.tips), IsRepo(repo'), records' \subseteq Seq(Tree),
           working' \in {0, working},
           NEW next \in Steps \ {"none"}, NEW safety \in Seq(Tree), Stepped(next, safety)
    PROVE  Shape'
<1>1. MessagesShape'
    BY MessagesStay DEF Stepped
<1>2. /\ going' \in Going
      /\ going'.step = next /\ going'.safety = safety /\ going'.at = going.at
      /\ going'.cp = going.cp /\ going'.before = going.before /\ Was' = Was
    BY GoingIs DEF Stepped
<1>3. going.step # "none" /\ going.cp \in MaybeCheckpoint
    BY DEF Stepped, Underway, Under, Shape, GoingShape, Going
<1>4. HasItsPlace(going'.cp, repo'.tips)
    BY <1>2, <1>3, PlaceStays DEF Shape, GoingShape
<1>5. GoingShape'
    BY <1>2, <1>3, <1>4 DEF Shape, GoingShape, Stepped, Underway, Under
<1>6. IsRepo(repo)'
    BY DEF IsRepo
<1> QED BY <1>1, <1>5, <1>6 DEF Shape

LEMMA CommandIs ==
    ASSUME Shape, NEW this \in Under \ {"record"}, NEW next \in Steps \ {"none"}, NEW changed,
           Command(this, changed, next), next \in {"checkout", "reset", "keep"} => this \in {"checkout", "reset"},
           IsRepo(changed), Stand(repo.tips, changed.tips)
    PROVE  Shape' /\ Stepped(next, going.safety) /\ UNCHANGED <<records, working>> /\ repo' = changed
<1>1. /\ going.step = this /\ repo' = changed /\ going' = [going EXCEPT !.step = next]
      /\ UNCHANGED <<records, tasks, rewound, sent, working>>
    BY DEF Command
<1>2. going.safety \in Seq(Tree) /\ going' = [going EXCEPT !.step = next, !.safety = going.safety]
    BY <1>1 DEF Shape, GoingShape, Going
<1>3. Stepped(next, going.safety)
    BY <1>1, <1>2 DEF Stepped, Underway, Shape, GoingShape
<1> QED BY <1>1, <1>2, <1>3, SteppedShape DEF Shape

\* What is gone back to, while a command on the folder is under way.
LEMMA CheckpointThere ==
    ASSUME Shape, Underway, going.step # "record"
    PROVE  going.cp \in Checkpoints /\ HasItsPlace(going.cp, repo.tips) /\ IsRepo(repo) /\ Stand(repo.tips, repo.tips)
BY DEF Shape, GoingShape, Stand

LEMMA PhotographShape ==
    ASSUME Shape, PhotographSafety
    PROVE  Shape' /\ Stepped("checkout", photograph(repo))
<1>1. photograph(repo) \in Seq(Tree) /\ photograph(repo) # <<>>
    BY PhotographIs DEF Shape, Commits
<1>2. Stepped("checkout", photograph(repo)) /\ UNCHANGED <<repo, working>>
    BY <1>1 DEF PhotographSafety, Stepped, Underway, Under
<1>3. records' \subseteq Seq(Tree)
    BY <1>1 DEF PhotographSafety, Shape
<1> QED BY <1>1, <1>2, <1>3, SameStand, SteppedShape DEF Shape, Steps, Under

LEMMA CheckoutShape ==
    ASSUME Shape, StepCheckout
    PROVE  Shape' /\ Stepped("reset", going.safety)
<1>1. Command("checkout", CheckoutForce(repo, going.cp), "reset") /\ Underway /\ going.step = "checkout"
    BY DEF StepCheckout, Command, Underway, Under
<1>2. IsRepo(CheckoutForce(repo, going.cp)) /\ Stand(repo.tips, CheckoutForce(repo, going.cp).tips)
    BY <1>1, CheckpointThere, CheckedOut
<1> QED BY <1>1, <1>2, CommandIs DEF Under, Steps

LEMMA ResetShape ==
    ASSUME Shape, StepReset
    PROVE  Shape' /\ Stepped("keep", going.safety)
<1>1. Command("reset", ResetHard(repo, going.cp), "keep") /\ Underway /\ going.step = "reset"
    BY DEF StepReset, Command, Underway, Under
<1>2. IsRepo(ResetHard(repo, going.cp)) /\ Stand(repo.tips, ResetHard(repo, going.cp).tips)
    BY <1>1, CheckpointThere, WasReset
<1> QED BY <1>1, <1>2, CommandIs DEF Under, Steps

LEMMA KeepShape ==
    ASSUME Shape, StepKeep
    PROVE  Shape' /\ Stepped("clean", keepWhatCleanTakes(repo, going.safety))
<1> DEFINE kept == keepWhatCleanTakes(repo, going.safety)
<1>1. going.safety \in Commits
    BY DEF StepKeep, Shape, GoingShape, Going, Commits
<1>2. kept \in Seq(Tree)
    BY <1>1, KeptMore DEF Shape, Commits
<1>3. Stepped("clean", kept) /\ UNCHANGED <<repo, working>>
    BY DEF StepKeep, Stepped, Underway, Under
<1>4. records' \subseteq Seq(Tree)
    BY <1>2 DEF StepKeep, Shape
<1> HIDE DEF kept
<1>5. Shape'
    BY <1>2, <1>3, <1>4, SameStand, SteppedShape DEF Shape, Steps, Under
<1> QED BY <1>3, <1>5 DEF kept

LEMMA CleanShape ==
    ASSUME Shape, StepClean
    PROVE  Shape' /\ Stepped("files", going.safety)
<1>1. Command("clean", Clean(repo), "files") /\ Underway /\ going.step = "clean"
    BY DEF StepClean, Command, Underway, Under
<1>2. IsRepo(Clean(repo)) /\ Stand(repo.tips, Clean(repo).tips)
    BY <1>1, CheckpointThere, Cleaned
<1> QED BY <1>1, <1>2, CommandIs DEF Under, Steps

LEMMA FilesShape ==
    ASSUME Shape, StepFiles
    PROVE  Shape' /\ Stepped("record", going.safety)
<1>1. Command("files", RestoreFiles(repo, going.cp), "record") /\ Underway /\ going.step = "files"
    BY DEF StepFiles, Command, Underway, Under
<1>2. IsRepo(RestoreFiles(repo, going.cp)) /\ Stand(repo.tips, RestoreFiles(repo, going.cp).tips)
    BY <1>1, CheckpointThere, Restored
<1> QED BY <1>1, <1>2, CommandIs DEF Under, Steps

\* A going back that fails, or is killed.
Breaks ==
    /\ Stepped("failed", going.safety)
    /\ working' \in {0, working} /\ UNCHANGED <<repo, records>>

LEMMA BreakIs ==
    ASSUME Shape, CommandFails \/ (Kill /\ Underway)
    PROVE  Breaks
<1>1. going' = [going EXCEPT !.step = "failed"] /\ Underway
    BY DEF CommandFails, Kill
<1>2. going' = [going EXCEPT !.step = "failed", !.safety = going.safety]
    BY <1>1 DEF Shape, GoingShape, Going
<1> QED BY <1>1, <1>2 DEF Breaks, Stepped, CommandFails, Kill, Under

LEMMA BreakShape ==
    ASSUME Shape, Breaks
    PROVE  Shape'
<1>1. going.safety \in Seq(Tree)
    BY DEF Shape, GoingShape, Going
<1> QED BY <1>1, SameStand, SteppedShape DEF Shape, Breaks, Steps

\* Killed with no going back under way: the message at work has not ended.
LEMMA IdleKillShape ==
    ASSUME Shape, Kill, ~Underway
    PROVE  Shape'
<1>1. UNCHANGED <<repo, records, tasks, rewound, sent, going>> /\ working' = 0
    BY DEF Kill
<1>2. MessagesShape'
    BY <1>1, SameStand, MessagesStay
<1>3. GoingShape'
    BY <1>1, SameStand, GoingStays
<1> QED BY <1>1, <1>2, <1>3 DEF Shape, IsRepo

LEMMA RecordIs ==
    ASSUME Shape, StepRecord
    PROVE  /\ going.at \in DOMAIN tasks /\ going.at \in Nat
           /\ tasks' \in Seq(Message) /\ Len(tasks') = going.at - 1
           /\ DOMAIN tasks' = 1..(going.at - 1) /\ DOMAIN tasks' \subseteq DOMAIN tasks
           /\ \A i \in DOMAIN tasks' : tasks'[i] = tasks[i]
           /\ going' = [going EXCEPT !.step = "back", !.safety = going.safety]
<1>1. going.at \in DOMAIN tasks
    BY DEF StepRecord, Shape, GoingShape, Underway, Under
<1>2. Len(tasks) \in Nat /\ DOMAIN tasks = 1..Len(tasks) /\ \A i \in DOMAIN tasks : tasks[i] \in Message
    BY Lengths DEF Shape
<1>3. going.at \in Nat /\ going.at >= 1 /\ going.at <= Len(tasks)
    BY <1>1, <1>2
<1>4. \A i \in 1..(going.at - 1) : tasks[i] \in Message
    BY <1>2, <1>3
<1>5. /\ SubSeq(tasks, 1, going.at - 1) \in Seq(Message)
      /\ Len(SubSeq(tasks, 1, going.at - 1)) = going.at - 1
      /\ \A i \in 1..(going.at - 1) : SubSeq(tasks, 1, going.at - 1)[i] = tasks[i]
  <2> DEFINE n == going.at - 1
  <2>1. n \in Int /\ n >= 0 /\ 1 \in Int
      BY <1>3
  <2>2. \A i \in 1..n : tasks[i] \in Message
      BY <1>4
  <2> HIDE DEF n
  <2>3. /\ SubSeq(tasks, 1, n) \in Seq(Message)
        /\ Len(SubSeq(tasks, 1, n)) = IF 1 <= n THEN n - 1 + 1 ELSE 0
        /\ \A i \in 1..(n - 1 + 1) : SubSeq(tasks, 1, n)[i] = tasks[1 + i - 1]
      BY <2>1, <2>2, SubSeqProperties
  <2>4. Len(SubSeq(tasks, 1, n)) = n
      BY <2>1, <2>3
  <2>5. \A i \in 1..n : SubSeq(tasks, 1, n)[i] = tasks[i]
    <3> SUFFICES ASSUME NEW i \in 1..n PROVE SubSeq(tasks, 1, n)[i] = tasks[i]
        OBVIOUS
    <3>1. n - 1 + 1 = n /\ 1 + i - 1 = i
        BY <2>1
    <3> QED BY <2>3, <3>1
  <2> QED BY <2>3, <2>4, <2>5 DEF n
<1>6. tasks' = SubSeq(tasks, 1, going.at - 1) /\ going' = [going EXCEPT !.step = "back"]
    BY DEF StepRecord
<1>7. going' = [going EXCEPT !.step = "back", !.safety = going.safety]
    BY <1>6 DEF Shape, GoingShape, Going
<1>8. DOMAIN tasks' = 1..(going.at - 1)
    BY <1>3, <1>5, <1>6
<1>9. tasks' \in Seq(Message) /\ Len(tasks') = going.at - 1 /\ \A i \in DOMAIN tasks' : tasks'[i] = tasks[i]
    BY <1>5, <1>6, <1>8
<1>10. DOMAIN tasks' \subseteq DOMAIN tasks
    BY <1>2, <1>3, <1>8
<1> QED BY <1>1, <1>3, <1>7, <1>8, <1>9, <1>10

LEMMA RecordShape ==
    ASSUME Shape, StepRecord
    PROVE  Shape'
<1>1. UNCHANGED <<repo, records, sent, working>> /\ rewound' = rewound \cup going.removed
    BY DEF StepRecord
<1>2. going.safety \in Seq(Tree) /\ going.removed \subseteq Ids
    BY DEF Shape, GoingShape, Going
<1>3. going' \in Going /\ going'.step = "back" /\ going'.cp = going.cp /\ going'.before = going.before
      /\ Was' = Was
    BY <1>2, RecordIs, GoingIs DEF Steps
<1>4. MessagesShape'
    BY <1>1, <1>2, RecordIs DEF Shape, MessagesShape
<1>5. going.step # "none"
    BY DEF StepRecord
<1>6. GoingShape'
    BY <1>1, <1>3, <1>5 DEF Shape, GoingShape, Underway, Under
<1> QED BY <1>1, <1>4, <1>6 DEF Shape, IsRepo

LEMMA ShapeStep ==
    ASSUME Shape, [Next]_vars
    PROVE  Shape'
<1>1. CASE UNCHANGED vars
  <2>1. MessagesShape'
      BY <1>1, SameStand, MessagesStay DEF vars
  <2>2. GoingShape'
      BY <1>1, SameStand, GoingStays DEF vars
  <2> QED BY <1>1, <2>1, <2>2 DEF vars, Shape, IsRepo
<1>2. CASE WriteFile \/ Ignore \/ CommitAll \/ NewBranch \/ SwitchBranch
    BY <1>2, EditKinds, EditShape DEF Shape
<1>3. CASE chatSend
    BY <1>3, SendShape
<1>4. CASE RunMessage
    BY <1>4, RunShape
<1>5. CASE EndMessage
    BY <1>5, EndShape
<1>6. CASE chatRewind
    BY <1>6, RewindShape
<1>7. CASE GoingBack
  <2>1. CASE CommandFails
      BY <2>1, BreakIs, BreakShape
  <2> QED BY <1>7, <2>1, PhotographShape, CheckoutShape, ResetShape, KeepShape, CleanShape,
             FilesShape, RecordShape DEF GoingBack
<1>8. CASE Kill
    BY <1>8, BreakIs, BreakShape, IdleKillShape
<1> QED BY <1>1, <1>2, <1>3, <1>4, <1>5, <1>6, <1>7, <1>8 DEF Next

LEMMA ShapeInit == Init => Shape
<1> SUFFICES ASSUME Init PROVE Shape
    OBVIOUS
<1>1. PICK tree \in Tree, on \in {Main, NoBranch} :
        repo = [work |-> tree, on |-> on, at |-> <<tree>>,
                tips |-> [b \in Branches |-> IF b = Main THEN <<tree>> ELSE <<>>]]
    BY DEF Init, FirstTrees
<1>2. <<tree>> \in Commits /\ <<tree>> \in Seq(Tree) /\ <<>> \in Seq(Tree)
    BY DEF Commits
<1>3. IsRepo(repo)
  <2> DEFINE tips == [b \in Branches |-> IF b = Main THEN <<tree>> ELSE <<>>]
  <2>1. tips \in [Branches -> Seq(Tree)] /\ tips[Main] # <<>>
      BY <1>2, MainAssumption DEF Commits
  <2>2. repo = [work |-> tree, on |-> on, at |-> <<tree>>, tips |-> tips]
      BY <1>1
  <2> HIDE DEF tips
  <2>3. on \in Branches \cup {NoBranch} /\ (on \in Branches => on = Main)
      BY MainAssumption, BranchAssumption
  <2> QED BY <1>2, <2>1, <2>2, <2>3 DEF IsRepo, Repos
<1>4. /\ sent = 0 /\ tasks = <<>> /\ rewound = {} /\ working = 0 /\ records = {} /\ going = NotGoing
    BY DEF Init
<1>5. MessagesShape
  <2>1. tasks \in Seq(Message) /\ DOMAIN tasks = {}
      BY <1>4
  <2> QED BY <1>4, <2>1, BoundsAssumption DEF MessagesShape
<1>6. GoingShape
    BY <1>4, NotGoingIs, NoCheckpointIs DEF GoingShape, Underway, Under
<1> QED BY <1>3, <1>4, <1>5, <1>6 DEF Shape

(***************************************************************************)
(* The shape of the folder, the conversation and the going back, however   *)
(* the operator's actions and the git commands come (checkpoint.ts,        *)
(* OperatorService.chatRewind).                                            *)
(***************************************************************************)
THEOREM TypeCorrect == Spec => []TypeOK
<1>1. Spec => []Shape
    BY ShapeInit, ShapeStep, PTL DEF Spec
<1>2. Shape => TypeOK
  <2> SUFFICES ASSUME Shape PROVE TypeOK
      OBVIOUS
  <2>1. \A i \in DOMAIN tasks : tasks[i].id \in Ids /\ tasks[i].done \in BOOLEAN
      BY Lengths DEF Shape, Message
  <2>2. repo.work \in Tree /\ repo.on \in Branches \cup {NoBranch} /\ \A b \in Branches : repo.tips[b] \in Seq(Tree)
      BY DEF Shape, IsRepo, Repos
  <2>3. going.step \in Steps
      BY DEF Shape, GoingShape, Going
  <2> QED BY <2>1, <2>2, <2>3 DEF Shape, MessagesShape, TypeOK, Steps
<1> QED BY <1>1, <1>2, PTL

-----------------------------------------------------------------------------
(* The going back, step by step, where the operator waits for it.          *)

LEMMA RanIsLeft ==
    ASSUME UNCHANGED tasks, NEW at, NEW cp, FirstRan(at, cp)
    PROVE  FirstRan(at, cp)'
BY DEF FirstRan

\* What is done outside a going back: one that is over is forgotten.
LEMMA Forgotten ==
    ASSUME OperatorWaits, MayAct, Forget, EveryMessageOnRecord'
    PROVE  BackInv'
<1>1. going' = NotGoing
    BY DEF MayAct, Forget
<1>2. going'.step = "none"
    BY <1>1, NotGoingIs
<1>3. Leaving'
    BY <1>2 DEF Leaving, Underway, Under
<1>4. Coming'
    BY <1>2 DEF Coming
<1>5. Keeping'
    BY <1>2 DEF Keeping
<1> QED BY <1>3, <1>4, <1>5 DEF BackInv

LEMMA ActsBack ==
    ASSUME OperatorWaits, Shape, BackInv,
           \/ WriteFile \/ Ignore \/ CommitAll \/ NewBranch \/ SwitchBranch
           \/ chatSend \/ RunMessage
    PROVE  BackInv'
<1>1. EveryMessageOnRecord
    BY DEF BackInv, Leaving
<1>2. CASE WriteFile \/ Ignore \/ CommitAll \/ NewBranch \/ SwitchBranch
  <2>1. MayAct /\ Forget /\ UNCHANGED <<tasks, rewound, sent>>
      BY <1>2, EditKinds DEF Shape, Edits, Edit
  <2>2. EveryMessageOnRecord'
      BY <1>1, <2>1 DEF EveryMessageOnRecord, IdsOf
  <2> QED BY <2>1, <2>2, Forgotten
<1>3. CASE chatSend
  <2> DEFINE new == [id |-> sent + 1, cp |-> NoCheckpoint, done |-> FALSE]
  <2>1. MayAct /\ Forget /\ UNCHANGED rewound /\ sent' = sent + 1 /\ tasks' = Append(tasks, new)
      BY <1>3 DEF chatSend
  <2>2. /\ tasks \in Seq(Message) /\ Len(tasks) \in Nat /\ DOMAIN tasks = 1..Len(tasks) /\ sent \in Nat
      BY Lengths DEF Shape, MessagesShape
  <2>3. new \in Message /\ new.id = sent + 1
      BY <2>2 DEF Message, MaybeCheckpoint
  <2> HIDE DEF new
  <2>4. /\ DOMAIN tasks' = 1..(Len(tasks) + 1)
        /\ \A i \in DOMAIN tasks : tasks'[i] = tasks[i]
        /\ tasks'[Len(tasks) + 1] = new
      BY <2>1, <2>2, <2>3, AppendProperties
  <2>5. EveryMessageOnRecord'
    <3> SUFFICES ASSUME NEW m \in 1..sent' PROVE m \in IdsOf(tasks') \cup rewound'
        BY DEF EveryMessageOnRecord
    <3>1. CASE m = sent + 1
      <4>1. Len(tasks) + 1 \in DOMAIN tasks'
          BY <2>2, <2>4
      <4> QED BY <2>3, <2>4, <3>1, <4>1 DEF IdsOf
    <3>2. CASE m \in 1..sent
      <4>1. m \in IdsOf(tasks) \cup rewound
          BY <1>1, <3>2 DEF EveryMessageOnRecord
      <4>2. IdsOf(tasks) \subseteq IdsOf(tasks')
          BY <2>2, <2>4 DEF IdsOf
      <4> QED BY <2>1, <4>1, <4>2
    <3> QED BY <2>1, <2>2, <3>1, <3>2
  <2> QED BY <2>1, <2>5, Forgotten
<1>4. CASE RunMessage
  <2>1. PICK i \in DOMAIN tasks :
          /\ MayAct /\ Forget /\ UNCHANGED <<rewound, sent>>
          /\ tasks' = [tasks EXCEPT ![i].cp = FirstPhotograph(tasks[i])]
      BY <1>4 DEF RunMessage
  <2>2. /\ DOMAIN tasks' = DOMAIN tasks
        /\ \A j \in DOMAIN tasks : tasks[j] \in Message
      BY <2>1, Lengths DEF Shape
  <2>3. \A j \in DOMAIN tasks : tasks'[j].id = tasks[j].id
      BY <2>1, <2>2 DEF Message
  <2>4. IdsOf(tasks') = IdsOf(tasks)
      BY <2>2, <2>3 DEF IdsOf
  <2>5. EveryMessageOnRecord'
      BY <1>1, <2>1, <2>4 DEF EveryMessageOnRecord
  <2> QED BY <2>1, <2>5, Forgotten
<1> QED BY <1>2, <1>3, <1>4

\* What was gone back from, and the files that nothing of it can bring back.
LEMMA SameWas ==
    ASSUME Was' = Was, going'.cp = going.cp
    PROVE  \A p \in Paths : /\ Apart(p)' <=> Apart(p)
                            /\ GoesWithItsDirectory(p)' <=> GoesWithItsDirectory(p)
BY DEF Apart, WrittenOver, GoesWithItsDirectory

\* A step that leaves the folder, the records and the going back alone.
LEMMA FolderAlone ==
    ASSUME Coming, Keeping, UNCHANGED <<repo, records, going>>
    PROVE  Coming' /\ Keeping'
<1>1. Coming'
    BY DEF Coming
<1>2. Was' = Was /\ going' = going /\ repo' = repo
    BY DEF Was
<1>3. Covers(going.safety) => Covers(going.safety)'
    BY <1>2 DEF Covers
<1>4. \A p \in Paths : (Stays(p)' <=> Stays(p)) /\ (IsAdded(p)' <=> IsAdded(p))
    BY <1>2 DEF Stays, IsAdded
<1>5. Keeping'
    BY <1>2, <1>3, <1>4, SameWas DEF Keeping
<1> QED BY <1>1, <1>5

LEMMA EndBack ==
    ASSUME Shape, BackInv, EndMessage \/ (Kill /\ ~Underway) \/ UNCHANGED vars
    PROVE  BackInv'
<1>1. UNCHANGED <<repo, records, going, sent, rewound>>
    BY DEF EndMessage, Kill, vars
<1>2. Coming' /\ Keeping'
    BY <1>1, FolderAlone DEF BackInv
<1>3. CASE UNCHANGED vars
  <2>1. Leaving'
      BY <1>3, RanIsLeft DEF BackInv, Leaving, vars, Underway, EveryMessageOnRecord, IdsOf
  <2> QED BY <1>2, <2>1 DEF BackInv
<1>4. CASE EndMessage \/ (Kill /\ ~Underway)
  <2>1. ~Underway /\ ~Underway'
      BY <1>1, <1>4 DEF BackInv, Leaving, EndMessage, Underway
  <2>2. DOMAIN tasks' = DOMAIN tasks /\ \A i \in DOMAIN tasks : tasks'[i].id = tasks[i].id
    <3>1. CASE EndMessage
      <4>1. PICK done \in BOOLEAN : tasks' = [i \in DOMAIN tasks |->
                IF tasks[i].id = working THEN [tasks[i] EXCEPT !.done = done] ELSE tasks[i]]
          BY <3>1 DEF EndMessage
      <4>2. \A i \in DOMAIN tasks : tasks[i] \in Message
          BY Lengths DEF Shape
      <4> QED BY <4>1, <4>2 DEF Message
    <3>2. CASE Kill /\ ~Underway
        BY <3>2 DEF Kill
    <3> QED BY <1>4, <3>1, <3>2
  <2>3. IdsOf(tasks') = IdsOf(tasks)
      BY <2>2 DEF IdsOf
  <2>4. EveryMessageOnRecord'
      BY <1>1, <2>3 DEF BackInv, Leaving, EveryMessageOnRecord
  <2>5. Leaving'
      BY <1>1, <2>1, <2>2, <2>4 DEF BackInv, Leaving
  <2> QED BY <1>2, <2>5 DEF BackInv
<1> QED BY <1>3, <1>4

LEMMA RewindBack ==
    ASSUME Shape, BackInv, chatRewind
    PROVE  BackInv'
<1>1. ~Underway /\ working = 0 /\ UNCHANGED <<repo, records, tasks, rewound, sent, working>>
    BY BegunIs
<1>2. PICK i \in DOMAIN tasks : Begun(i)
    BY BegunIs
<1>3. /\ Len(tasks) \in Nat /\ DOMAIN tasks = 1..Len(tasks) /\ \A j \in DOMAIN tasks : tasks[j].id \in Nat
    BY Lengths DEF Shape, Message
<1>4. /\ going'.step \in {"record", "photo"} /\ going'.at = i
      /\ going'.removed = {tasks[j].id : j \in i..Len(tasks)}
      /\ going'.step = "photo" => going'.cp \in Checkpoints
      /\ going'.step = "record" => going'.cp = NoCheckpoint
      /\ FirstRan(i, going'.cp)
      /\ going'.before = <<repo>>
    BY <1>2 DEF Begun
<1>5. \A j \in DOMAIN tasks : i <= j => tasks[j].id \in going'.removed
    BY <1>3, <1>4
<1>6. \A j \in DOMAIN tasks : j < i => tasks[j].id \notin going'.removed
  <2> SUFFICES ASSUME NEW j \in DOMAIN tasks, j < i, NEW k \in i..Len(tasks), tasks[j].id = tasks[k].id
               PROVE  FALSE
      BY <1>4
  <2>1. k \in DOMAIN tasks /\ j < k
      BY <1>3
  <2>2. tasks[j].id < tasks[k].id
      BY <2>1 DEF Shape, MessagesShape
  <2> QED BY <1>3, <2>1, <2>2
<1>7. FirstRan(going.at, going.cp)'
    BY <1>1, <1>4 DEF FirstRan
<1>8. EveryMessageOnRecord'
    BY <1>1 DEF BackInv, Leaving, EveryMessageOnRecord, IdsOf
<1>9. Leaving'
  <2>1. going'.cp = NoCheckpoint => going'.step = "record"
      BY <1>4, NoCheckpointIs
  <2>2. /\ working' = 0
        /\ \A j \in DOMAIN tasks' : going'.at <= j => tasks'[j].id \in going'.removed
        /\ \A j \in DOMAIN tasks' : j < going'.at => tasks'[j].id \notin going'.removed
        /\ going'.step # "back"
      BY <1>1, <1>4, <1>5, <1>6
  <2> QED BY <1>7, <1>8, <2>1, <2>2 DEF Leaving
<1>10. Coming'
    BY <1>4 DEF Coming
<1>11. Was' = repo'
    BY <1>1, <1>4 DEF Was
<1>12. Keeping'
    BY <1>4, <1>11 DEF Keeping
<1> QED BY <1>9, <1>10, <1>12 DEF BackInv

\* The messages, while a command is made, fails, or the bot is killed.
LEMMA LeavingStepped ==
    ASSUME Shape, Leaving, NEW next \in Steps \ {"none", "back", "photo"}, NEW safety \in Seq(Tree),
           Stepped(next, safety), working' \in {0, working}
    PROVE  Leaving'
<1>1. /\ UNCHANGED <<tasks, sent, rewound>> /\ Underway
      /\ going'.step = next /\ going'.at = going.at /\ going'.removed = going.removed /\ going'.cp = going.cp
    BY GoingIs DEF Stepped
<1>2. working' = 0 /\ FirstRan(going.at, going.cp)
    BY <1>1 DEF Leaving
<1>3. FirstRan(going.at, going.cp)'
    BY <1>1, <1>2 DEF FirstRan
<1>4. Underway' /\ going'.cp = NoCheckpoint => going'.step = "record"
    BY <1>1 DEF Leaving, Stepped, Underway
<1>5. EveryMessageOnRecord'
    BY <1>1 DEF Leaving, EveryMessageOnRecord, IdsOf
<1> QED BY <1>1, <1>2, <1>3, <1>4, <1>5 DEF Leaving

LEMMA PhotographBack ==
    ASSUME Shape, BackInv, PhotographSafety
    PROVE  BackInv'
<1> DEFINE safety == photograph(repo)
<1>1. /\ safety \in Seq(Tree) /\ Len(safety) = Len(HeadOf(repo)) + 1
      /\ safety[Len(HeadOf(repo)) + 1] = AddAll(repo)
      /\ \A n \in DOMAIN HeadOf(repo) : safety[n] = HeadOf(repo)[n]
    BY PhotographIs DEF Shape
<1>2. Stepped("checkout", safety) /\ UNCHANGED <<repo, working>> /\ records' = records \cup {safety}
    BY PhotographShape DEF PhotographSafety
<1> HIDE DEF safety
<1>3. /\ going'.step = "checkout" /\ going'.safety = safety /\ going'.cp = going.cp
      /\ Was' = Was
    BY <1>1, <1>2, GoingIs DEF Stepped, Steps, Under
<1>4. Leaving'
    BY <1>1, <1>2, LeavingStepped DEF BackInv, Steps, Under
<1>5. Coming'
    BY <1>3 DEF Coming
<1>6. Was = repo /\ repo' = repo /\ Len(HeadOf(repo)) \in Nat
    BY <1>2, HeadIs, LastIs DEF BackInv, Keeping, PhotographSafety, Shape
<1>7. Covers(going.safety)'
    BY <1>1, <1>2, <1>3, <1>6 DEF Covers
<1>8. going'.safety = photograph(Was)'
    BY <1>3, <1>6 DEF safety
<1>9. Keeping'
    BY <1>3, <1>6, <1>7, <1>8 DEF Keeping
<1> QED BY <1>4, <1>5, <1>9 DEF BackInv

\* What is true of a going back whose next command changes the folder.
LEMMA AtCommand ==
    ASSUME Shape, BackInv, going.step \in {"checkout", "reset", "keep", "clean", "files"}
    PROVE  /\ going.cp \in Checkpoints /\ HasItsPlace(going.cp, repo.tips)
           /\ going.cp.head \in Commits /\ going.cp.commit \in Commits
           /\ Last(going.cp.head) \in Tree /\ Last(going.cp.commit) \in Tree
           /\ IsRepo(repo) /\ IsRepo(Was) /\ Covers(going.safety) /\ Underway
           /\ going.safety \in Seq(Tree)
<1>1. going.cp \in Checkpoints /\ HasItsPlace(going.cp, repo.tips) /\ IsRepo(repo) /\ IsRepo(Was) /\ Underway
      /\ going.safety \in Seq(Tree)
    BY DEF Shape, GoingShape, Going, Underway, Under
<1>2. going.cp.head \in Commits /\ going.cp.commit \in Commits
    BY <1>1 DEF Checkpoints
<1> QED BY <1>1, <1>2, LastIs DEF BackInv, Keeping

LEMMA ApartIs ==
    ASSUME NEW p \in Paths, Apart(p)
    PROVE  /\ p \notin Tracked(Was)
           /\ Last(going.cp.commit).files[p] = NoFile /\ Last(going.cp.head).files[p] = NoFile
           /\ going.cp.branch # NoBranch => Last(Was.tips[going.cp.branch]).files[p] = NoFile
           /\ p \in Has(Was.work) /\ p \in Was.work.ignore
BY DEF Apart, WrittenOver

\* A command of git that changes the folder and no record.
LEMMA CommandFacts ==
    ASSUME Shape, BackInv, NEW next \in Steps \ {"none", "back", "photo"}, Stepped(next, going.safety),
           UNCHANGED <<records, working>>, Covers(going.safety)
    PROVE  /\ going'.step = next /\ going'.safety = going.safety /\ going'.cp = going.cp /\ Was' = Was
           /\ Leaving' /\ Covers(going.safety)'
<1>1. going.safety \in Seq(Tree)
    BY DEF Shape, GoingShape, Going
<1>2. going'.step = next /\ going'.safety = going.safety /\ going'.cp = going.cp /\ Was' = Was
    BY <1>1, GoingIs DEF Stepped
<1>3. Leaving'
    BY <1>1, LeavingStepped DEF BackInv
<1>4. Covers(going.safety)'
    BY <1>2 DEF Covers
<1> QED BY <1>2, <1>3, <1>4

LEMMA CheckoutBack ==
    ASSUME Shape, BackInv, StepCheckout
    PROVE  BackInv'
<1>1. going.step = "checkout" /\ repo' = CheckoutForce(repo, going.cp) /\ UNCHANGED <<records, working>>
    BY DEF StepCheckout, Command
<1>2. Stepped("reset", going.safety)
    BY CheckoutShape
<1> DEFINE target == Last(Target(repo, going.cp))
<1>3. /\ going.cp \in Checkpoints /\ HasItsPlace(going.cp, repo.tips) /\ IsRepo(repo) /\ Covers(going.safety)
      /\ repo = Was /\ going.safety = photograph(Was)
    BY <1>1, AtCommand DEF BackInv, Keeping
<1>4. /\ repo'.on = going.cp.branch /\ repo'.tips = repo.tips
      /\ going.cp.branch = NoBranch => repo'.at = going.cp.head
      /\ repo'.work = Overwrite(repo.work, Tracked(repo), target)
      /\ target \in Tree
    BY <1>1, <1>3, CheckedOut, LastIs
<1>5. /\ repo'.work.ignore = target.ignore
      /\ \A p \in Paths : repo'.work.files[p] = IF target.files[p] # NoFile THEN target.files[p]
                                                ELSE IF p \in Tracked(repo) THEN NoFile ELSE repo.work.files[p]
    BY <1>3, <1>4, HeadIs, Overwritten
<1>6. /\ going'.step = "reset" /\ going'.safety = going.safety /\ going'.cp = going.cp /\ Was' = Was
      /\ Leaving' /\ Covers(going.safety)'
    BY <1>1, <1>2, <1>3, CommandFacts DEF Steps, Under
<1>7. going.cp.branch = NoBranch => target = Last(going.cp.head)
    BY DEF Target
<1>8. Coming'
    BY <1>4, <1>5, <1>6, <1>7 DEF Coming
<1>9. \A p \in Paths : Apart(p) => repo'.work.files[p] = Was.work.files[p]
  <2> SUFFICES ASSUME NEW p \in Paths, Apart(p) PROVE repo'.work.files[p] = Was.work.files[p]
      OBVIOUS
  <2>1. target.files[p] = NoFile
      BY <1>3, ApartIs DEF Target
  <2> QED BY <1>3, <1>5, <2>1, ApartIs
<1>10. \A p \in Paths : Apart(p)' => Stays(p)'
    BY <1>6, <1>9, SameWas DEF Stays
<1>11. going'.safety = photograph(Was)' /\ repo'.tips = Was'.tips
    BY <1>3, <1>4, <1>6
<1>12. Keeping'
    BY <1>6, <1>10, <1>11 DEF Keeping
<1> QED BY <1>6, <1>8, <1>12 DEF BackInv

LEMMA ResetBack ==
    ASSUME Shape, BackInv, StepReset
    PROVE  BackInv'
<1>1. going.step = "reset" /\ repo' = ResetHard(repo, going.cp) /\ UNCHANGED <<records, working>>
    BY DEF StepReset, Command
<1>2. Stepped("keep", going.safety)
    BY ResetShape
<1> DEFINE head == Last(going.cp.head)
<1>3. /\ going.cp \in Checkpoints /\ IsRepo(repo) /\ Covers(going.safety) /\ head \in Tree
      /\ repo.tips = Was.tips /\ repo.on = going.cp.branch /\ going.safety = photograph(Was)
      /\ going.cp.branch = NoBranch => repo.at = going.cp.head /\ repo.work.ignore = head.ignore
      /\ \A p \in Paths : Apart(p) => Stays(p)
    BY <1>1, AtCommand DEF BackInv, Coming, Keeping
<1>4. /\ going'.step = "keep" /\ going'.safety = going.safety /\ going'.cp = going.cp /\ Was' = Was
      /\ Leaving' /\ Covers(going.safety)'
    BY <1>1, <1>2, <1>3, CommandFacts DEF Steps, Under
<1>5. CASE going.cp.branch = NoBranch
  <2>1. repo' = repo /\ HeadOf(repo) = going.cp.head
      BY <1>1, <1>3, <1>5, WasReset DEF HeadOf
  <2>2. Coming'
      BY <1>3, <1>4, <1>5, <2>1 DEF Coming
  <2>3. \A p \in Paths : Apart(p)' => Stays(p)'
      BY <1>3, <1>4, <2>1, SameWas DEF Stays
  <2>4. Keeping'
      BY <1>3, <1>4, <2>3 DEF Keeping
  <2> QED BY <1>4, <2>2, <2>4 DEF BackInv
<1>6. CASE going.cp.branch # NoBranch
  <2>1. /\ repo'.on = going.cp.branch /\ HeadOf(repo') = going.cp.head
        /\ repo'.work = Overwrite(repo.work, Tracked(repo), head)
      BY <1>1, <1>3, <1>6, WasReset
  <2>2. /\ repo'.work.ignore = head.ignore
        /\ \A p \in Paths : repo'.work.files[p] = IF head.files[p] # NoFile THEN head.files[p]
                                                  ELSE IF p \in Tracked(repo) THEN NoFile ELSE repo.work.files[p]
    <3>1. repo.work \in Tree /\ Tracked(repo) \in SUBSET Paths
        BY <1>3, HeadIs
    <3> HIDE DEF head
    <3> QED BY <1>3, <2>1, <3>1, Overwritten
  <2>3. Coming'
      BY <1>4, <2>1, <2>2 DEF Coming
  <2>4. \A p \in Paths : Apart(p) => repo'.work.files[p] = Was.work.files[p]
    <3> SUFFICES ASSUME NEW p \in Paths, Apart(p) PROVE repo'.work.files[p] = Was.work.files[p]
        OBVIOUS
    <3>1. head.files[p] = NoFile /\ Last(Was.tips[going.cp.branch]).files[p] = NoFile
        BY <1>6, ApartIs
    <3>2. p \notin Tracked(repo)
        BY <1>3, <1>6, <3>1 DEF Tracked, Has, HeadOf
    <3> QED BY <1>3, <2>2, <3>1, <3>2 DEF Stays
  <2>5. \A p \in Paths : Apart(p)' => Stays(p)'
      BY <1>4, <2>4, SameWas DEF Stays
  <2>6. Keeping'
      BY <1>3, <1>4, <2>5 DEF Keeping
  <2> QED BY <1>4, <2>3, <2>6 DEF BackInv
<1> QED BY <1>5, <1>6

LEMMA KeepBack ==
    ASSUME Shape, BackInv, StepKeep
    PROVE  BackInv'
<1> DEFINE kept == keepWhatCleanTakes(repo, going.safety)
           safety == going.safety
<1>1. /\ going.step = "keep" /\ repo' = repo /\ UNCHANGED working
      /\ records' = (records \ {safety}) \cup {kept}
    BY DEF StepKeep
<1>2. Stepped("clean", kept)
    BY KeepShape
<1>3. /\ IsRepo(repo) /\ IsRepo(Was) /\ Covers(safety) /\ safety = photograph(Was)
      /\ going.cp \in Checkpoints
      /\ repo.on = going.cp.branch /\ HeadOf(repo) = going.cp.head
      /\ repo.work.ignore = Last(going.cp.head).ignore
      /\ \A p \in Paths : Apart(p) => Stays(p)
    BY <1>1, AtCommand DEF BackInv, Coming, Keeping
<1>4. safety \in Commits /\ Last(safety) = AddAll(Was) /\ safety \in Seq(Tree)
    BY <1>3, PhotographIs
<1>5. /\ kept \in Commits /\ Len(kept) >= Len(safety)
      /\ \A n \in DOMAIN safety : n \in DOMAIN kept /\ kept[n] = safety[n]
      /\ \A p \in MissingFrom(repo, safety) : \E n \in DOMAIN kept : kept[n].files[p] = repo.work.files[p]
    BY <1>3, <1>4, KeptMore
<1>6. kept \in Seq(Tree) /\ Len(kept) \in Nat /\ Len(safety) \in Nat /\ DOMAIN safety = 1..Len(safety)
    BY <1>4, <1>5 DEF Commits
<1> HIDE DEF kept
<1>7. /\ going'.step = "clean" /\ going'.safety = kept /\ going'.cp = going.cp /\ Was' = Was
    BY <1>2, <1>6, GoingIs DEF Stepped, Steps, Under
<1>8. Leaving'
    BY <1>1, <1>2, <1>6, LeavingStepped DEF BackInv, Steps, Under
<1>9. Coming'
    BY <1>1, <1>3, <1>7 DEF Coming
<1>10. Covers(going.safety)'
  <2>1. Len(HeadOf(Was)) \in Nat /\ DOMAIN HeadOf(Was) = 1..Len(HeadOf(Was))
      BY <1>3, HeadIs, LastIs
  <2>2. /\ Len(HeadOf(Was)) + 1 \in DOMAIN safety /\ DOMAIN HeadOf(Was) \subseteq DOMAIN safety
        /\ safety[Len(HeadOf(Was)) + 1] = AddAll(Was)
        /\ \A n \in DOMAIN HeadOf(Was) : safety[n] = HeadOf(Was)[n]
      BY <1>3, <1>6, <2>1 DEF Covers
  <2>3. /\ kept[Len(HeadOf(Was)) + 1] = AddAll(Was)
        /\ \A n \in DOMAIN HeadOf(Was) : kept[n] = HeadOf(Was)[n]
      BY <1>5, <2>2
  <2>4. Len(HeadOf(Was)) + 1 <= Len(kept)
      BY <1>5, <1>6, <2>1, <2>2
  <2>5. kept \in records'
      BY <1>1
  <2> QED BY <1>7, <2>3, <2>4, <2>5 DEF Covers
<1>11. \A p \in Paths : Apart(p) /\ p \in CleanTakes(repo) =>
          \/ \E n \in DOMAIN kept : kept[n].files[p] = Was.work.files[p]
          \/ GoesWithItsDirectory(p)
  <2> SUFFICES ASSUME NEW p \in Paths, Apart(p), p \in CleanTakes(repo), ~GoesWithItsDirectory(p)
               PROVE  \E n \in DOMAIN kept : kept[n].files[p] = Was.work.files[p]
      OBVIOUS
  <2>1. p \notin Has(AddAll(Was))
    <3>1. AddAll(Was).files[p] = NoFile
        BY <1>3, AddedAll, ApartIs
    <3> QED BY <3>1 DEF Has
  <2>2. \A q \in Has(Last(safety)) : DirOf[q] # DirOf[p]
      BY <1>4 DEF GoesWithItsDirectory
  <2>3. p \in MissingFrom(repo, safety)
      BY <1>4, <2>1, <2>2 DEF MissingFrom
  <2>4. repo.work.files[p] = Was.work.files[p]
      BY <1>3 DEF Stays
  <2> QED BY <1>5, <2>3, <2>4
<1>12. \A p \in Paths : Apart(p)' => Stays(p)'
    BY <1>1, <1>3, <1>7, SameWas DEF Stays
<1>13. \A p \in Paths : Apart(p)' /\ p \in CleanTakes(repo)' => IsAdded(p)' \/ GoesWithItsDirectory(p)'
    BY <1>1, <1>7, <1>11, SameWas DEF IsAdded
<1>14. Keeping'
    BY <1>7, <1>10, <1>12, <1>13 DEF Keeping
<1> QED BY <1>8, <1>9, <1>14 DEF BackInv

LEMMA CleanBack ==
    ASSUME Shape, BackInv, StepClean
    PROVE  BackInv'
<1>1. going.step = "clean" /\ repo' = Clean(repo) /\ UNCHANGED <<records, working>>
    BY DEF StepClean, Command
<1>2. Stepped("files", going.safety)
    BY CleanShape
<1>3. /\ IsRepo(repo) /\ Covers(going.safety) /\ Last(going.cp.head) \in Tree
      /\ repo.on = going.cp.branch /\ HeadOf(repo) = going.cp.head
      /\ repo.work.ignore = Last(going.cp.head).ignore
      /\ \A p \in Paths : Apart(p) => Stays(p)
      /\ \A p \in Paths : Apart(p) /\ p \in CleanTakes(repo) => IsAdded(p) \/ GoesWithItsDirectory(p)
    BY <1>1, AtCommand DEF BackInv, Coming, Keeping
<1>4. /\ repo'.on = repo.on /\ HeadOf(repo') = HeadOf(repo) /\ repo'.work.ignore = repo.work.ignore
      /\ IsRepo(repo')
      /\ \A p \in Paths : repo'.work.files[p] = IF p \in CleanTakes(repo) THEN NoFile ELSE repo.work.files[p]
    BY <1>1, <1>3, Cleaned
<1>5. /\ going'.step = "files" /\ going'.safety = going.safety /\ going'.cp = going.cp /\ Was' = Was
      /\ Leaving' /\ Covers(going.safety)'
    BY <1>1, <1>2, <1>3, CommandFacts DEF Steps, Under
<1>6. Has(repo'.work) \subseteq Has(Last(going.cp.head)) \cup Last(going.cp.head).ignore
  <2> SUFFICES ASSUME NEW p \in Paths, p \in Has(repo'.work)
               PROVE  p \in Has(Last(going.cp.head)) \cup Last(going.cp.head).ignore
      BY DEF Has
  <2>1. p \notin CleanTakes(repo) /\ repo.work.files[p] # NoFile
      BY <1>4 DEF Has
  <2> QED BY <1>3, <2>1 DEF CleanTakes, Has, Tracked
<1>7. Coming'
    BY <1>3, <1>4, <1>5, <1>6 DEF Coming
<1>8. \A p \in Paths : Apart(p)' => Stays(p)' \/ IsAdded(p)' \/ GoesWithItsDirectory(p)'
  <2> SUFFICES ASSUME NEW p \in Paths, Apart(p)
               PROVE  \/ repo'.work.files[p] = Was.work.files[p]
                      \/ IsAdded(p) \/ GoesWithItsDirectory(p)
      BY <1>5, SameWas DEF Stays, IsAdded
  <2> QED BY <1>3, <1>4 DEF Stays
<1>9. Keeping'
    BY <1>5, <1>8 DEF Keeping
<1> QED BY <1>5, <1>7, <1>9 DEF BackInv

LEMMA FilesBack ==
    ASSUME Shape, BackInv, StepFiles
    PROVE  BackInv'
<1>1. going.step = "files" /\ repo' = RestoreFiles(repo, going.cp) /\ UNCHANGED <<records, working>>
    BY DEF StepFiles, Command
<1>2. Stepped("record", going.safety)
    BY FilesShape
<1> DEFINE cp == going.cp
           commit == Last(cp.commit)
<1>3. /\ cp \in Checkpoints /\ IsRepo(repo) /\ Covers(going.safety) /\ commit \in Tree /\ Last(cp.head) \in Tree
      /\ repo.on = cp.branch /\ HeadOf(repo) = cp.head
      /\ Has(repo.work) \subseteq Has(Last(cp.head)) \cup Last(cp.head).ignore
    BY <1>1, AtCommand DEF BackInv, Coming
<1>4. cp # NoCheckpoint
    BY <1>3, NoCheckpointIs
<1>5. /\ repo'.on = repo.on /\ HeadOf(repo') = HeadOf(repo) /\ IsRepo(repo')
      /\ repo'.work = Overwrite(repo.work, Tracked(repo), commit)
    BY <1>1, <1>3, Restored
<1>6. Tracked(repo) = Has(Last(cp.head)) /\ Tracked(repo) \in SUBSET Paths /\ repo.work \in Tree
    BY <1>3, HeadIs DEF Tracked
<1>7. /\ repo'.work.ignore = commit.ignore
      /\ \A p \in Paths : repo'.work.files[p] = IF commit.files[p] # NoFile THEN commit.files[p]
                                                ELSE IF p \in Tracked(repo) THEN NoFile ELSE repo.work.files[p]
  <2> HIDE DEF commit
  <2> QED BY <1>3, <1>5, <1>6, Overwritten
<1>8. /\ going'.step = "record" /\ going'.safety = going.safety /\ going'.cp = going.cp /\ Was' = Was
      /\ Leaving' /\ Covers(going.safety)'
    BY <1>1, <1>2, <1>3, CommandFacts DEF Steps, Under
<1>9. IsBack(repo', cp)
  <2>1. \A p \in Paths : \/ repo'.work.files[p] = commit.files[p]
                         \/ p \in Last(cp.head).ignore /\ commit.files[p] = NoFile
    <3> SUFFICES ASSUME NEW p \in Paths, commit.files[p] = NoFile, p \notin Last(cp.head).ignore
                 PROVE  repo'.work.files[p] = NoFile
        BY <1>7
    <3>1. p \in Tracked(repo) \/ repo.work.files[p] = NoFile
        BY <1>3, <1>6 DEF Has
    <3> QED BY <1>7, <3>1
  <2> QED BY <1>3, <1>5, <1>7, <2>1 DEF IsBack
<1>10. Coming'
    BY <1>8, <1>9 DEF Coming
<1>11. \A p \in Paths : Apart(p)' /\ repo' # Was' => Stays(p)' \/ IsAdded(p)' \/ GoesWithItsDirectory(p)'
  <2> SUFFICES ASSUME NEW p \in Paths, Apart(p)
               PROVE  \/ repo'.work.files[p] = Was.work.files[p]
                      \/ IsAdded(p) \/ GoesWithItsDirectory(p)
      BY <1>8, SameWas DEF Stays, IsAdded
  <2>1. commit.files[p] = NoFile /\ p \notin Tracked(repo)
      BY <1>3, <1>6, ApartIs DEF Has
  <2>2. repo'.work.files[p] = repo.work.files[p]
      BY <1>7, <2>1
  <2>3. Stays(p) \/ IsAdded(p) \/ GoesWithItsDirectory(p)
      BY <1>1 DEF BackInv, Keeping, Stays
  <2> QED BY <2>2, <2>3 DEF Stays
<1>12. Keeping'
    BY <1>4, <1>8, <1>11 DEF Keeping
<1> QED BY <1>8, <1>10, <1>12 DEF BackInv

LEMMA BreakBack ==
    ASSUME Shape, BackInv, Breaks
    PROVE  BackInv'
<1>1. /\ Stepped("failed", going.safety) /\ working' \in {0, working} /\ UNCHANGED <<repo, records>>
      /\ going.safety \in Seq(Tree) /\ going.step # "none"
    BY DEF Breaks, Shape, GoingShape, Going, Stepped, Underway, Under
<1>2. /\ going'.step = "failed" /\ going'.safety = going.safety /\ going'.cp = going.cp /\ Was' = Was
    BY <1>1, GoingIs DEF Stepped, Steps
<1>3. Leaving'
    BY <1>1, LeavingStepped DEF BackInv, Steps
<1>4. Coming'
    BY <1>2 DEF Coming
<1>5. repo' = Was' \/ Covers(going.safety)'
    BY <1>1, <1>2 DEF BackInv, Keeping, Covers
<1>6. \A p \in Paths : Apart(p)' /\ repo' # Was' => Stays(p)' \/ IsAdded(p)' \/ GoesWithItsDirectory(p)'
    BY <1>1, <1>2, SameWas DEF BackInv, Keeping, Stays, IsAdded
<1>7. Keeping'
    BY <1>2, <1>5, <1>6 DEF Keeping
<1> QED BY <1>3, <1>4, <1>7 DEF BackInv

LEMMA RecordBack ==
    ASSUME Shape, BackInv, StepRecord
    PROVE  BackInv'
<1>1. /\ going.step = "record" /\ UNCHANGED <<repo, records, sent, working>>
      /\ rewound' = rewound \cup going.removed /\ going.safety \in Seq(Tree) /\ Underway
    BY DEF StepRecord, Shape, GoingShape, Going, Underway, Under
<1>2. /\ going'.step = "back" /\ going'.safety = going.safety /\ going'.cp = going.cp
      /\ going'.removed = going.removed /\ Was' = Was
  <2>1. going' = [going EXCEPT !.step = "back", !.safety = going.safety]
      BY RecordIs
  <2>2. "back" \in Steps
      BY DEF Steps
  <2> QED BY <1>1, <2>1, <2>2, GoingIs
<1>3. /\ Len(tasks) \in Nat /\ DOMAIN tasks = 1..Len(tasks) /\ going.at \in 1..Len(tasks)
      /\ DOMAIN tasks' = 1..(going.at - 1) /\ \A i \in DOMAIN tasks' : tasks'[i] = tasks[i]
    BY RecordIs, Lengths DEF Shape
<1>4. EveryMessageOnRecord'
  <2> SUFFICES ASSUME NEW m \in 1..sent PROVE m \in IdsOf(tasks') \cup rewound'
      BY <1>1 DEF EveryMessageOnRecord
  <2>1. CASE m \in rewound
      BY <1>1, <2>1
  <2>2. CASE m \in IdsOf(tasks)
    <3>1. PICK j \in DOMAIN tasks : m = tasks[j].id
        BY <2>2 DEF IdsOf
    <3>2. CASE j < going.at
        BY <1>3, <3>1, <3>2 DEF IdsOf
    <3>3. CASE going.at <= j
        BY <1>1, <3>1, <3>3 DEF BackInv, Leaving
    <3> QED BY <1>3, <3>2, <3>3
  <2> QED BY <2>1, <2>2 DEF BackInv, Leaving, EveryMessageOnRecord
<1>5. Leaving'
  <2>1. \A i \in DOMAIN tasks' : tasks'[i].id \notin going'.removed
    <3> SUFFICES ASSUME NEW i \in DOMAIN tasks' PROVE tasks'[i].id \notin going'.removed
        OBVIOUS
    <3>1. i \in DOMAIN tasks /\ i < going.at /\ tasks'[i] = tasks[i]
        BY <1>3
    <3> QED BY <1>1, <1>2, <3>1 DEF BackInv, Leaving
  <2> QED BY <1>2, <1>4, <2>1 DEF Leaving, Underway, Under
<1>6. Coming'
    BY <1>1, <1>2 DEF BackInv, Coming
<1>7. Covers(going.safety)' <=> Covers(going.safety)
    BY <1>1, <1>2 DEF Covers
<1>8. \A p \in Paths : Apart(p)' /\ repo' # Was' => Stays(p)' \/ IsAdded(p)' \/ GoesWithItsDirectory(p)'
    BY <1>1, <1>2, SameWas DEF BackInv, Keeping, Stays, IsAdded
<1>9. Keeping'
    BY <1>1, <1>2, <1>7, <1>8 DEF BackInv, Keeping
<1> QED BY <1>5, <1>6, <1>9 DEF BackInv

LEMMA BackStep ==
    ASSUME OperatorWaits, Shape, BackInv, [Next]_vars
    PROVE  BackInv'
<1>1. CASE GoingBack
    BY <1>1, PhotographBack, CheckoutBack, ResetBack, KeepBack, CleanBack, FilesBack, RecordBack,
       BreakIs, BreakBack DEF GoingBack
<1>2. CASE Kill
    BY <1>2, BreakIs, BreakBack, EndBack
<1>3. CASE EndMessage \/ UNCHANGED vars
    BY <1>3, EndBack
<1>4. CASE chatRewind
    BY <1>4, RewindBack
<1>5. CASE WriteFile \/ Ignore \/ CommitAll \/ NewBranch \/ SwitchBranch \/ chatSend \/ RunMessage
    BY <1>5, ActsBack
<1> QED BY <1>1, <1>2, <1>3, <1>4, <1>5 DEF Next

LEMMA BackInit == Init => BackInv
<1> SUFFICES ASSUME Init PROVE BackInv
    OBVIOUS
<1>1. going.step = "none" /\ sent = 0
    BY NotGoingIs DEF Init
<1>2. Leaving
    BY <1>1 DEF Leaving, Underway, Under, EveryMessageOnRecord
<1>3. Coming
    BY <1>1 DEF Coming
<1>4. Keeping
    BY <1>1 DEF Keeping
<1> QED BY <1>2, <1>3, <1>4 DEF BackInv

IInv == Shape /\ BackInv

(***************************************************************************)
(* The inductive invariant: which messages a going back takes out, where   *)
(* each of its git commands has brought the folder, and what it has kept   *)
(* of the folder gone back from (chatRewind, restoreCheckpoint).           *)
(***************************************************************************)
THEOREM Inductive == ASSUME OperatorWaits PROVE Spec => []IInv
<1>1. Init => IInv
    BY ShapeInit, BackInit DEF IInv
<1>2. IInv /\ [Next]_vars => IInv'
    BY ShapeStep, BackStep DEF IInv
<1> QED BY <1>1, <1>2, PTL DEF Spec

(***************************************************************************)
(* Gone back, the folder is as the message found it, and the messages from *)
(* there on are out of the conversation - also over a going back that      *)
(* broke off in the middle, and for a message carried on since.            *)
(***************************************************************************)
THEOREM BackIsBack == ASSUME OperatorWaits PROVE Spec => []BackMeansBack
<1>1. IInv => BackMeansBack
  <2> SUFFICES ASSUME IInv, going.step = "back" PROVE BackMeansBack
      BY DEF BackMeansBack
  <2>1. going.cp # NoCheckpoint => IsBack(repo, going.cp)
      BY DEF IInv, BackInv, Coming
  <2>2. going.removed \cap IdsOf(tasks) = {}
      BY DEF IInv, BackInv, Leaving, IdsOf
  <2> QED BY <2>1, <2>2 DEF BackMeansBack
<1> QED BY <1>1, Inductive, PTL

\* The one step that takes messages out.
LEMMA OnlyTheRecordTakesOut ==
    ASSUME Shape, [Next]_vars, NEW i \in DOMAIN tasks, tasks[i].id \notin IdsOf(tasks')
    PROVE  StepRecord
<1>1. Len(tasks) \in Nat /\ DOMAIN tasks = 1..Len(tasks) /\ \A j \in DOMAIN tasks : tasks[j] \in Message
    BY Lengths DEF Shape
<1>2. ASSUME i \in DOMAIN tasks', tasks'[i].id = tasks[i].id
      PROVE  FALSE
    BY <1>2 DEF IdsOf
<1>3. ~UNCHANGED tasks
    BY <1>2
<1>4. ~chatSend
  <2> SUFFICES ASSUME chatSend PROVE FALSE
      OBVIOUS
  <2> DEFINE new == [id |-> sent + 1, cp |-> NoCheckpoint, done |-> FALSE]
  <2>1. tasks' = Append(tasks, new) /\ sent \in Nat /\ tasks \in Seq(Message)
      BY Lengths DEF chatSend, Shape, MessagesShape
  <2>2. new \in Message
      BY <2>1 DEF Message, MaybeCheckpoint
  <2> HIDE DEF new
  <2>3. Len(tasks') = Len(tasks) + 1 /\ DOMAIN tasks' = 1..(Len(tasks) + 1) /\ \A j \in 1..Len(tasks) : tasks'[j] = tasks[j]
      BY <1>1, <2>1, <2>2, AppendProperties
  <2> QED BY <1>1, <1>2, <2>3
<1>5. ~RunMessage
  <2> SUFFICES ASSUME RunMessage PROVE FALSE
      OBVIOUS
  <2>1. PICK j \in DOMAIN tasks : tasks' = [tasks EXCEPT ![j].cp = FirstPhotograph(tasks[j])]
      BY DEF RunMessage
  <2>2. i \in DOMAIN tasks' /\ tasks'[i].id = tasks[i].id
      BY <1>1, <2>1 DEF Message
  <2> QED BY <1>2, <2>2
<1>6. ~EndMessage
  <2> SUFFICES ASSUME EndMessage PROVE FALSE
      OBVIOUS
  <2>1. PICK done \in BOOLEAN : tasks' = [j \in DOMAIN tasks |->
            IF tasks[j].id = working THEN [tasks[j] EXCEPT !.done = done] ELSE tasks[j]]
      BY DEF EndMessage
  <2>2. i \in DOMAIN tasks' /\ tasks'[i].id = tasks[i].id
      BY <1>1, <2>1 DEF Message
  <2> QED BY <1>2, <2>2
<1>7. ~(WriteFile \/ Ignore \/ CommitAll \/ NewBranch \/ SwitchBranch)
    BY <1>3 DEF WriteFile, Ignore, CommitAll, NewBranch, SwitchBranch, Edit
<1>8. ~(chatRewind \/ Kill \/ UNCHANGED vars)
    BY <1>3 DEF chatRewind, Kill, vars
<1>9. ~(PhotographSafety \/ StepCheckout \/ StepReset \/ StepKeep \/ StepClean \/ StepFiles \/ CommandFails)
    BY <1>3 DEF PhotographSafety, StepCheckout, StepReset, StepKeep, StepClean, StepFiles, CommandFails, Command
<1> QED BY <1>4, <1>5, <1>6, <1>7, <1>8, <1>9 DEF Next, GoingBack

(***************************************************************************)
(* A message that ran leaves the conversation only once the folder is as   *)
(* the first of those leaving that ever ran found it: a going back that    *)
(* fails or is killed on the way takes none out.                           *)
(***************************************************************************)
THEOREM OutOnlyOnceBack == ASSUME OperatorWaits PROVE Spec => TakenOutOnlyOnceBack
<1> DEFINE step == \A i \in DOMAIN tasks :
             (tasks[i].id \notin IdsOf(tasks') /\ Ran(tasks[i])) =>
                \E j \in 1..i : Ran(tasks[j]) /\ tasks[j].id \notin IdsOf(tasks')
                                /\ IsBack(repo', tasks[j].cp)
<1>1. IInv /\ [Next]_vars => step
  <2> SUFFICES ASSUME IInv, [Next]_vars, NEW i \in DOMAIN tasks, tasks[i].id \notin IdsOf(tasks'), Ran(tasks[i])
               PROVE  \E j \in 1..i : Ran(tasks[j]) /\ tasks[j].id \notin IdsOf(tasks')
                                      /\ IsBack(repo', tasks[j].cp)
      OBVIOUS
  <2>1. StepRecord
      BY OnlyTheRecordTakesOut DEF IInv
  <2>2. /\ Len(tasks) \in Nat /\ DOMAIN tasks = 1..Len(tasks) /\ going.at \in 1..Len(tasks)
        /\ DOMAIN tasks' = 1..(going.at - 1) /\ \A k \in DOMAIN tasks' : tasks'[k] = tasks[k]
      BY <2>1, RecordIs, Lengths DEF IInv, Shape
  <2>3. going.at <= i
      BY <2>2 DEF IdsOf
  <2>4. going.step = "record" /\ Underway /\ repo' = repo
      BY <2>1 DEF StepRecord, Underway, Under
  <2>5. FirstRan(going.at, going.cp)
      BY <2>4 DEF IInv, BackInv, Leaving
  <2>6. going.cp # NoCheckpoint
      BY <2>3, <2>5 DEF FirstRan
  <2>7. PICK j \in DOMAIN tasks : /\ going.at <= j /\ Ran(tasks[j]) /\ tasks[j].cp = going.cp
                                  /\ \A k \in DOMAIN tasks : going.at <= k /\ k < j => ~Ran(tasks[k])
      BY <2>5, <2>6 DEF FirstRan
  <2>8. j \in 1..i
      BY <2>2, <2>3, <2>7
  <2>9. tasks[j].id \notin IdsOf(tasks')
    <3> SUFFICES ASSUME NEW k \in DOMAIN tasks', tasks'[k].id = tasks[j].id PROVE FALSE
        BY DEF IdsOf
    <3>1. k \in DOMAIN tasks /\ k < j /\ tasks'[k] = tasks[k]
        BY <2>2, <2>7
    <3>2. tasks[k].id < tasks[j].id /\ tasks[k].id \in Nat
        BY <3>1, Lengths DEF IInv, Shape, MessagesShape, Message
    <3> QED BY <3>1, <3>2
  <2>10. IsBack(repo', tasks[j].cp)
      BY <2>4, <2>6, <2>7 DEF IInv, BackInv, Coming
  <2> QED BY <2>7, <2>8, <2>9, <2>10
<1>2. [][step]_vars <=> TakenOutOnlyOnceBack
    BY PTL DEF TakenOutOnlyOnceBack
<1> QED BY <1>1, <1>2, Inductive, PTL DEF Spec

-----------------------------------------------------------------------------
(* What is kept.                                                           *)

LEMMA CoveredIsKept ==
    ASSUME IsRepo(Was), NEW safety \in Seq(Tree), Covers(safety)
    PROVE  /\ safety \in Reachable
           /\ \E n \in DOMAIN safety : safety[n] = AddAll(Was)
           /\ \A tree \in Range(HeadOf(Was)) : tree \in Range(safety)
<1>1. HeadOf(Was) \in Commits /\ Len(HeadOf(Was)) \in Nat /\ DOMAIN HeadOf(Was) = 1..Len(HeadOf(Was))
    BY HeadIs, LastIs
<1>2. DOMAIN safety = 1..Len(safety) /\ Len(safety) \in Nat
    OBVIOUS
<1>3. DOMAIN HeadOf(Was) \subseteq DOMAIN safety /\ Len(HeadOf(Was)) + 1 \in DOMAIN safety
    BY <1>1, <1>2 DEF Covers
<1>4. \A tree \in Range(HeadOf(Was)) : tree \in Range(safety)
    BY <1>3 DEF Covers, Range
<1> QED BY <1>3, <1>4 DEF Covers, Reachable

\* A file that is not there and in no record was of a directory clean named whole.
AllButItsDirectory ==
    going.step # "none" =>
       \A p \in Has(Was.work) : StillThere(p) \/ WrittenOver(p) \/ GoesWithItsDirectory(p)

LEMMA FilesAreKept == IInv => AllButItsDirectory
<1> SUFFICES ASSUME IInv, going.step # "none", NEW p \in Has(Was.work), ~WrittenOver(p), ~GoesWithItsDirectory(p)
             PROVE  StillThere(p)
    BY DEF AllButItsDirectory
<1>1. IsRepo(Was) /\ going.safety \in Seq(Tree) /\ p \in Paths
    BY DEF IInv, Shape, GoingShape, Going, Has
<1>2. CASE repo = Was
    BY <1>2 DEF StillThere
<1>3. CASE repo # Was
  <2>1. Covers(going.safety)
      BY <1>3 DEF IInv, BackInv, Keeping
  <2>2. going.safety \in Reachable /\ \E n \in DOMAIN going.safety : going.safety[n] = AddAll(Was)
      BY <1>1, <2>1, CoveredIsKept
  <2>3. CASE p \in Was.work.ignore \ Tracked(Was)
    <3>1. Apart(p)
        BY <2>3 DEF Apart
    <3>2. Stays(p) \/ IsAdded(p)
        BY <1>1, <1>3, <3>1 DEF IInv, BackInv, Keeping
    <3> QED BY <2>2, <3>2 DEF StillThere, Stays, IsAdded, KeptIn
  <2>4. CASE p \notin Was.work.ignore \ Tracked(Was)
    <3>1. AddAll(Was).files[p] = Was.work.files[p]
        BY <1>1, <2>4, AddedAll
    <3>2. \E n \in DOMAIN going.safety : going.safety[n].files[p] = Was.work.files[p]
        BY <2>2, <3>1
    <3> QED BY <2>2, <3>2 DEF StillThere, KeptIn
  <2> QED BY <2>3, <2>4
<1> QED BY <1>2, <1>3

LEMMA CommitsAreKept ==
    ASSUME IInv, going.step # "none", NEW tree \in Range(HeadOf(Was))
    PROVE  \E c \in Reachable : tree \in Range(c)
<1>1. IsRepo(Was) /\ going.safety \in Seq(Tree)
    BY DEF IInv, Shape, GoingShape, Going
<1>2. CASE repo = Was
    BY <1>2 DEF Reachable
<1>3. CASE Covers(going.safety)
    BY <1>1, <1>3, CoveredIsKept
<1> QED BY <1>2, <1>3 DEF IInv, BackInv, Keeping

(***************************************************************************)
(* Whatever step of a going back is the last to be made, each file the     *)
(* folder held is there or on record; or it is one that was ignored, and   *)
(* what is gone back to has a file in its place, or clean named its whole  *)
(* directory and keepWhatCleanTakes found another file of that in the      *)
(* photograph (checkpoint.ts:101).                                         *)
(***************************************************************************)
THEOREM FilesStay == ASSUME OperatorWaits PROVE Spec => []AllButItsDirectory
<1> QED BY FilesAreKept, Inductive, PTL

(***************************************************************************)
(* Where no two files share a directory that clean can name, nothing of    *)
(* the folder is lost but what is written over, nor any commit of its      *)
(* branch, and every message sent is in the conversation or on record.     *)
(***************************************************************************)
THEOREM WorkStays ==
    ASSUME OperatorWaits, \A p, q \in Paths : DirOf[p] = DirOf[q] => p = q
    PROVE  Spec => []WorkIsKept
<1>1. IInv => WorkIsKept
  <2> SUFFICES ASSUME IInv PROVE WorkIsKept
      OBVIOUS
  <2>1. EveryMessageOnRecord
      BY DEF IInv, BackInv, Leaving
  <2>2. ASSUME going.step # "none", NEW p \in Has(Was.work)
        PROVE  StillThere(p) \/ WrittenOver(p)
    <3>1. CASE p \in Was.work.ignore \ Tracked(Was)
      <4>1. IsRepo(Was) /\ p \in Paths
          BY <2>2 DEF IInv, Shape, GoingShape, Has
      <4>2. AddAll(Was).files[p] = NoFile
          BY <3>1, <4>1, AddedAll
      <4>3. ~GoesWithItsDirectory(p)
          BY <4>1, <4>2 DEF GoesWithItsDirectory, Has
      <4> QED BY <2>2, <4>3, FilesAreKept DEF AllButItsDirectory
    <3>2. CASE p \notin Was.work.ignore \ Tracked(Was)
      <4>1. IsRepo(Was) /\ p \in Paths /\ going.safety \in Seq(Tree)
          BY <2>2 DEF IInv, Shape, GoingShape, Going, Has
      <4>2. AddAll(Was).files[p] = Was.work.files[p]
          BY <3>2, <4>1, AddedAll
      <4>3. CASE repo = Was
          BY <4>3 DEF StillThere
      <4>4. CASE Covers(going.safety)
        <5>1. going.safety \in Reachable /\ \E n \in DOMAIN going.safety : going.safety[n] = AddAll(Was)
            BY <4>1, <4>4, CoveredIsKept
        <5> QED BY <4>2, <5>1 DEF StillThere, KeptIn
      <4> QED BY <2>2, <4>3, <4>4 DEF IInv, BackInv, Keeping
    <3> QED BY <3>1, <3>2
  <2>3. ASSUME going.step # "none"
        PROVE  \A tree \in Range(HeadOf(Was)) : \E c \in Reachable : tree \in Range(c)
      BY <2>3, CommitsAreKept
  <2> QED BY <2>1, <2>2, <2>3 DEF WorkIsKept
<1> QED BY <1>1, Inductive, PTL
=============================================================================
