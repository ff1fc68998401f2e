----------------------------- MODULE ChatRewind -----------------------------
(***************************************************************************)
(* A conversation of the workbench and the folder it works in: messages    *)
(* sent, carried out and ended, and the operator going back to before one  *)
(* of them (OperatorService.chatRewind with session/checkpoint.ts).  Going *)
(* back is several git commands, each awaited; any of them may fail, the   *)
(* bot may be killed between two, and nothing keeps a message from being   *)
(* sent meanwhile.                                                         *)
(***************************************************************************)
EXTENDS Checkpoint, Naturals, FiniteSets

CONSTANTS
    Main,           \* the branch the folder is on at first
    MaxMessages,    \* bound: messages sent
    MaxChanges,     \* bound: changes made to the folder, goings back among them
    OperatorWaits   \* the operator starts nothing while a going back is under way,
                    \* another going back included: see chatRewind

ASSUME MainAssumption == Main \in Branches
ASSUME BoundsAssumption ==
    /\ MaxMessages \in Nat /\ MaxChanges \in Nat
    /\ OperatorWaits \in BOOLEAN

VARIABLES
    repo,       \* the folder
    records,    \* the commits kept under refs/copilot-operator
    tasks,      \* the conversation's messages (Session.tasks)
    rewound,    \* the messages taken out by going back, kept on record
    sent,       \* messages sent so far
    working,    \* the message a run is working on, 0 when the session is idle
    going,      \* the going back under way, or the last one
    changes     \* changes made to the folder so far

vars == <<repo, records, tasks, rewound, sent, working, going, changes>>

\* A message: its place in the order sent, its checkpoint once it first ran, and whether it ended.
Ids == 1..MaxMessages
NoCheckpoint == [commit |-> <<>>, head |-> <<>>, branch |-> NoBranch]
Ran(m) == m.cp # NoCheckpoint
IdsOf(list) == {list[i].id : i \in DOMAIN list}

NotGoing == [step |-> "none", at |-> 0, removed |-> {}, cp |-> NoCheckpoint,
             safety |-> <<>>, before |-> <<>>]
Under == {"photo", "checkout", "reset", "keep", "clean", "files", "record"}
Underway == going.step \in Under

\* What the operator and the chat do outside a going back; it forgets one that is over.
MayAct == OperatorWaits => ~Underway
Forget == going' = IF Underway THEN going ELSE NotGoing

\* The folder at first: one commit, checked out on Main or on no branch, with nothing uncommitted.
FirstTrees == {tree \in Tree : tree.ignore = {}}

Init ==
    /\ \E tree \in FirstTrees, on \in {Main, NoBranch} :
          repo = [work |-> tree, on |-> on, at |-> <<tree>>,
                  tips |-> [b \in Branches |-> IF b = Main THEN <<tree>> ELSE <<>>]]
    /\ records = {}
    /\ tasks = <<>>
    /\ rewound = {}
    /\ sent = 0
    /\ working = 0
    /\ going = NotGoing
    /\ changes = 0

-----------------------------------------------------------------------------
(***************************************************************************)
(* The folder as the chat's steps and the operator change it.              *)
(***************************************************************************)
Edit(changed) ==
    /\ MayAct
    /\ changes < MaxChanges
    /\ changed # repo
    /\ repo' = changed
    /\ changes' = changes + 1
    /\ Forget
    /\ UNCHANGED <<records, tasks, rewound, sent, working>>

WriteFile == \E p \in Paths, c \in Contents \cup {NoFile} :
    Edit([repo EXCEPT !.work.files[p] = c])

Ignore == \E ignored \in SUBSET Paths : Edit([repo EXCEPT !.work.ignore = ignored])

\* git add -A and git commit, on the branch checked out.
CommitAll ==
    /\ repo.on # NoBranch
    /\ Last(HeadOf(repo)) # AddAll(repo)
    /\ Edit([repo EXCEPT !.tips[repo.on] = Append(@, AddAll(repo))])

\* git switch -c: a branch of the commit the folder is on, the folder as it is.
NewBranch == \E b \in Branches :
    /\ repo.tips[b] = <<>>
    /\ Edit([repo EXCEPT !.tips[b] = HeadOf(repo), !.on = b])

\* git switch to a branch there is, with nothing uncommitted but ignored files out of its way.
SwitchBranch == \E b \in Branches \ {repo.on} :
    /\ repo.tips[b] # <<>>
    /\ AddAll(repo) = Last(HeadOf(repo))
    /\ \A p \in Has(repo.work) \ Tracked(repo) : Last(repo.tips[b]).files[p] = NoFile
    /\ Edit([repo EXCEPT !.work = Overwrite(@, Tracked(repo), Last(repo.tips[b])), !.on = b])

-----------------------------------------------------------------------------
\* chatSend: the message is a task at the end of the conversation.
chatSend ==
    /\ MayAct
    /\ sent < MaxMessages
    /\ working = 0
    /\ sent' = sent + 1
    /\ tasks' = Append(tasks, [id |-> sent + 1, cp |-> NoCheckpoint, done |-> FALSE])
    /\ Forget
    /\ UNCHANGED <<repo, records, rewound, working, changes>>

(***************************************************************************)
(* The run of a message that has not ended: the folder is photographed the *)
(* first time it runs, and a message carried on keeps that photograph.     *)
(***************************************************************************)
FirstPhotograph(m) == IF Ran(m) THEN m.cp ELSE takeCheckpoint(repo)

RunMessage == \E i \in DOMAIN tasks :
    LET cp == FirstPhotograph(tasks[i])
    IN  /\ MayAct
        /\ working = 0
        /\ ~tasks[i].done
        /\ working' = tasks[i].id
        /\ tasks' = [tasks EXCEPT ![i].cp = cp]
        /\ records' = records \cup {cp.commit}
        /\ Forget
        /\ UNCHANGED <<repo, rewound, sent, changes>>

\* The run ends, done or stopped; a message taken out meanwhile has no record to write.
EndMessage == \E done \in BOOLEAN :
    /\ working # 0
    /\ working' = 0
    /\ tasks' = [i \in DOMAIN tasks |->
                   IF tasks[i].id = working THEN [tasks[i] EXCEPT !.done = done] ELSE tasks[i]]
    /\ UNCHANGED <<repo, records, rewound, sent, going, changes>>

-----------------------------------------------------------------------------
(***************************************************************************)
(* chatRewind, to before the message at `i`: refused while the session     *)
(* works.  The folder goes back to the checkpoint of the first message     *)
(* from there on that ever ran; one that never ran is only taken out.      *)
(* The code does not refuse a second going back while the first is at its  *)
(* git commands; the model has one at a time (~Underway), which is part of *)
(* what OperatorWaits assumes: where it is TRUE this leaves nothing out,   *)
(* where it is FALSE messages and edits may come in between, but not that. *)
(***************************************************************************)
chatRewind == \E i \in DOMAIN tasks :
    /\ ~Underway
    /\ working = 0
    /\ changes < MaxChanges
    /\ changes' = changes + 1
    /\ LET after == i..Len(tasks)
           ran == {j \in after : Ran(tasks[j])}
       IN  going' = [step |-> IF ran = {} THEN "record" ELSE "photo",
                     at |-> i, removed |-> {tasks[j].id : j \in after},
                     cp |-> IF ran = {} THEN NoCheckpoint ELSE tasks[Min(ran)].cp,
                     safety |-> <<>>, before |-> <<repo>>]
    /\ UNCHANGED <<repo, records, tasks, rewound, sent, working>>

\* One git command of it, done: the folder as it leaves it, and the command after it.
Command(this, changed, next) ==
    /\ going.step = this
    /\ repo' = changed
    /\ going' = [going EXCEPT !.step = next]
    /\ UNCHANGED <<records, tasks, rewound, sent, working, changes>>

PhotographSafety ==
    /\ going.step = "photo"
    /\ going' = [going EXCEPT !.step = "checkout", !.safety = photograph(repo)]
    /\ records' = records \cup {photograph(repo)}
    /\ UNCHANGED <<repo, tasks, rewound, sent, working, changes>>

StepCheckout == Command("checkout", CheckoutForce(repo, going.cp), "reset")
StepReset == Command("reset", ResetHard(repo, going.cp), "keep")

StepKeep ==
    LET kept == keepWhatCleanTakes(repo, going.safety)
    IN  /\ going.step = "keep"
        /\ going' = [going EXCEPT !.step = "clean", !.safety = kept]
        /\ records' = (records \ {going.safety}) \cup {kept}
        /\ UNCHANGED <<repo, tasks, rewound, sent, working, changes>>

StepClean == Command("clean", Clean(repo), "files")
StepFiles == Command("files", RestoreFiles(repo, going.cp), "record")

\* The messages taken out and kept as rewound, by what was read before the first command.
StepRecord ==
    /\ going.step = "record"
    /\ tasks' = SubSeq(tasks, 1, going.at - 1)
    /\ rewound' = rewound \cup going.removed
    /\ going' = [going EXCEPT !.step = "back"]
    /\ UNCHANGED <<repo, records, sent, working, changes>>

(* Mutant: a command that failed is not looked at. *)
CommandFailsUnseen ==
    /\ Underway /\ going.step # "record"
    /\ going' = [going EXCEPT !.step = "record"]
    /\ UNCHANGED <<repo, records, tasks, rewound, sent, working, changes>>

\* A git command fails: the ones after it are not made, and the conversation stays as it is.
CommandFails ==
    /\ Underway /\ going.step # "record"
    /\ going' = [going EXCEPT !.step = "failed"]
    /\ UNCHANGED <<repo, records, tasks, rewound, sent, working, changes>>

\* The bot is killed: a going back stops where it is, and a message at work has not ended.
Kill ==
    /\ Underway \/ working # 0
    /\ working' = 0
    /\ going' = IF Underway THEN [going EXCEPT !.step = "failed"] ELSE going
    /\ UNCHANGED <<repo, records, tasks, rewound, sent, changes>>

GoingBack == \/ PhotographSafety \/ StepCheckout \/ StepReset \/ StepKeep
             \/ StepClean \/ StepFiles \/ StepRecord \/ CommandFails

Next == \/ WriteFile \/ Ignore \/ CommitAll \/ NewBranch \/ SwitchBranch
        \/ chatSend \/ RunMessage \/ EndMessage \/ chatRewind
        \/ GoingBack \/ Kill

Spec == Init /\ [][Next]_vars
-----------------------------------------------------------------------------
TypeOK ==
    /\ repo.work \in Tree
    /\ repo.on \in Branches \cup {NoBranch}
    /\ \A b \in Branches : repo.tips[b] \in Seq(Tree)
    /\ records \subseteq Seq(Tree)
    /\ \A i \in DOMAIN tasks : tasks[i].id \in Ids /\ tasks[i].done \in BOOLEAN
    /\ rewound \subseteq Ids
    /\ working \in {0} \cup Ids
    /\ going.step \in Under \cup {"none", "back", "failed"}

-----------------------------------------------------------------------------
\* The folder as it was when the operator went back, and what still holds its work.
Was == going.before[1]
Reachable == records \cup {repo.tips[b] : b \in Branches} \cup {HeadOf(repo)}
StillThere(p) ==
    \/ repo.work.files[p] = Was.work.files[p]
    \/ KeptIn(Reachable, p, Was.work.files[p])

\* An ignored file of the folder that a commit gone back to, or the photograph, writes over.
WrittenOver(p) ==
    /\ p \in Was.work.ignore \ Tracked(Was)
    /\ \/ Last(going.cp.commit).files[p] # NoFile
       \/ Last(going.cp.head).files[p] # NoFile
       \/ going.cp.branch # NoBranch /\ Last(Was.tips[going.cp.branch]).files[p] # NoFile

(***************************************************************************)
(* operator.service.ts:2304, as it stands: every message sent is in the    *)
(* conversation, or on record among those taken out of it.                 *)
(***************************************************************************)
EveryMessageOnRecord == 1..sent \subseteq IdsOf(tasks) \cup rewound

(***************************************************************************)
(* Whatever step of a going back is the last to be made - all of them, the *)
(* one before a command that failed, or the one before the bot was killed -*)
(* every file the folder held is still there or in a record, and so is     *)
(* every commit of the branch that was checked out.  Only an ignored file  *)
(* that what is gone back to has a file in the place of is not.  Every     *)
(* message sent is in the conversation, or on record among those taken out *)
(* of it.                                                                  *)
(***************************************************************************)
WorkIsKept ==
    /\ EveryMessageOnRecord
    /\ going.step # "none" =>
          /\ \A p \in Has(Was.work) : StillThere(p) \/ WrittenOver(p)
          /\ \A tree \in Range(HeadOf(Was)) : \E c \in Reachable : tree \in Range(c)

(***************************************************************************)
(* checkpoint.ts:12, as it stands: nothing that going back removes is      *)
(* lost, neither a file of the folder nor a commit of any branch.          *)
(***************************************************************************)
NothingIsLost ==
    going.step # "none" =>
       /\ \A p \in Has(Was.work) : StillThere(p)
       /\ \A b \in Branches : \A tree \in Range(Was.tips[b]) :
             \E c \in Reachable : tree \in Range(c)

(***************************************************************************)
(* Gone back means the folder is as the message found it - the branch, its *)
(* commit, and every file - also when an earlier going back broke off in   *)
(* the middle, or the message was stopped and carried on since.            *)
(***************************************************************************)
BackMeansBack ==
    going.step = "back" =>
       /\ going.cp # NoCheckpoint => IsBack(repo, going.cp)
       /\ going.removed \cap IdsOf(tasks) = {}

(***************************************************************************)
(* A message leaves the conversation only once the folder is back as it    *)
(* was before the first of those leaving that ever ran: a going back that  *)
(* fails or is killed on the way takes none out.                           *)
(***************************************************************************)
TakenOutOnlyOnceBack ==
    [][\A i \in DOMAIN tasks :
          (tasks[i].id \notin IdsOf(tasks') /\ Ran(tasks[i])) =>
             \E j \in 1..i : Ran(tasks[j]) /\ tasks[j].id \notin IdsOf(tasks')
                             /\ IsBack(repo', tasks[j].cp)]_vars
=============================================================================
