----------------------------- MODULE Checkpoint -----------------------------
(***************************************************************************)
(* session/checkpoint.ts: the photographs of the open folder a chat        *)
(* message begins and ends with, and the git commands that put the folder  *)
(* back as one of them shows it.  Everything here is an operator on a      *)
(* repository; ChatRewind says who uses them and when.                     *)
(*                                                                         *)
(* A repository is a record: the working tree (work), the branch checked   *)
(* out (on, NoBranch when HEAD is detached), the commit HEAD is at when it *)
(* is detached (at), and each branch's tip (tips).  A tree is the content  *)
(* of each path and the paths its .gitignore names.  A commit is the       *)
(* sequence of the trees of its history, its own last: its parent is its   *)
(* Front, and what it keeps reachable is its Range.  The index is HEAD's   *)
(* tree: work staged and not committed is left out.                        *)
(***************************************************************************)
EXTENDS Sequences, SequencesExt

CONSTANTS
    Paths,      \* the files of the folder
    DirOf,      \* [Paths -> directories]: the directory a path is in
    Contents,   \* what a file may hold
    NoFile,     \* a path that has no file
    Branches,   \* the names a branch may have
    NoBranch    \* HEAD is detached

ASSUME ContentsAssumption == NoFile \notin Contents
ASSUME BranchAssumption == NoBranch \notin Branches

Tree == [files : [Paths -> Contents \cup {NoFile}], ignore : SUBSET Paths]

Has(tree) == {p \in Paths : tree.files[p] # NoFile}

HeadOf(repo) == IF repo.on = NoBranch THEN repo.at ELSE repo.tips[repo.on]

Tracked(repo) == Has(Last(HeadOf(repo)))

(***************************************************************************)
(* What `add -A` records in a scratch index read from HEAD: the folder,    *)
(* without the files that are ignored and not tracked.                     *)
(***************************************************************************)
AddAll(repo) ==
    [files |-> [p \in Paths |-> IF p \in repo.work.ignore \ Tracked(repo)
                                  THEN NoFile ELSE repo.work.files[p]],
     ignore |-> repo.work.ignore]

\* The photograph: a commit of the folder as it is, on top of the commit HEAD is at.
photograph(repo) == Append(HeadOf(repo), AddAll(repo))

\* Before a message: the photograph, the commit the folder was on, and its branch.
takeCheckpoint(repo) ==
    [commit |-> photograph(repo), head |-> HeadOf(repo), branch |-> repo.on]

(***************************************************************************)
(* What a forced checkout, a hard reset and a restore do to the folder:    *)
(* what `tree` has is written over what is there, ignored or not; what it  *)
(* has not goes only where the index tracked it.                           *)
(***************************************************************************)
Overwrite(work, tracked, tree) ==
    [files |-> [p \in Paths |-> IF tree.files[p] # NoFile THEN tree.files[p]
                                ELSE IF p \in tracked THEN NoFile
                                ELSE work.files[p]],
     ignore |-> tree.ignore]

\* checkout --force <branch>, or --detach <head> for a checkpoint on no branch.
CheckoutForce(repo, cp) ==
    LET to == IF cp.branch = NoBranch THEN cp.head ELSE repo.tips[cp.branch]
    IN  [repo EXCEPT !.work = Overwrite(@, Tracked(repo), Last(to)),
                     !.on = cp.branch,
                     !.at = IF cp.branch = NoBranch THEN cp.head ELSE @]

\* reset --hard <head>, of what is checked out: not made for a checkpoint on no branch.
ResetHard(repo, cp) ==
    LET reset == [repo EXCEPT !.work = Overwrite(@, Tracked(repo), Last(cp.head))]
    IN  IF cp.branch = NoBranch THEN repo
        ELSE IF repo.on = NoBranch THEN [reset EXCEPT !.at = cp.head]
        ELSE [reset EXCEPT !.tips[repo.on] = cp.head]

\* The files `clean -f -d` removes: neither tracked nor ignored now.
CleanTakes(repo) == Has(repo.work) \ (Tracked(repo) \cup repo.work.ignore)

(***************************************************************************)
(* A file clean names on a line of its own, or within the line of its      *)
(* whole directory ("Would remove d/"), when clean takes all that is there.*)
(***************************************************************************)
WholeDir(repo, p) ==
    {q \in Has(repo.work) : DirOf[q] = DirOf[p]} \subseteq CleanTakes(repo)

(***************************************************************************)
(* Of what clean would remove, what keepWhatCleanTakes adds to the safety  *)
(* record: a file the record has not, and a directory of which it has no   *)
(* file at all.                                                            *)
(***************************************************************************)
MissingFrom(repo, safety) ==
    {p \in CleanTakes(repo) :
        IF WholeDir(repo, p)
          THEN \A q \in Has(Last(safety)) : DirOf[q] # DirOf[p]
          ELSE p \notin Has(Last(safety))}

(* Mutant: the safety record is the folder before going back, and no more. *)
KeepNothingMore(repo, safety) == safety

keepWhatCleanTakes(repo, safety) ==
    LET missing == MissingFrom(repo, safety)
        kept == [Last(safety) EXCEPT !.files =
                   [p \in Paths |-> IF p \in missing THEN repo.work.files[p] ELSE @[p]]]
    IN  IF missing = {} THEN safety ELSE Append(safety, kept)

(* Mutant: clean is not made. *)
CleanNothing(repo) == repo

Clean(repo) ==
    [repo EXCEPT !.work.files =
        [p \in Paths |-> IF p \in CleanTakes(repo) THEN NoFile ELSE @[p]]]

\* restore --source <photograph> --worktree -- .
RestoreFiles(repo, cp) ==
    [repo EXCEPT !.work = Overwrite(@, Tracked(repo), Last(cp.commit))]

-----------------------------------------------------------------------------
(***************************************************************************)
(* The folder is as `cp` photographed it: its branch at its commit, and    *)
(* every file with what it held.  A file the commit's own .gitignore names *)
(* and the photograph has not is left where it is: clean does not take it. *)
(***************************************************************************)
IsBack(repo, cp) ==
    /\ repo.on = cp.branch
    /\ HeadOf(repo) = cp.head
    /\ repo.work.ignore = Last(cp.commit).ignore
    /\ \A p \in Paths :
          \/ repo.work.files[p] = Last(cp.commit).files[p]
          \/ p \in Last(cp.head).ignore /\ Last(cp.commit).files[p] = NoFile

\* Some commit of `commits`, or one it stands on, holds the file as it was.
KeptIn(commits, p, content) ==
    \E c \in commits : \E i \in DOMAIN c : c[i].files[p] = content
=============================================================================
