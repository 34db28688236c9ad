----------------------------- MODULE BackupGit -----------------------------
(***************************************************************************)
(* Backups of device configurations into one Git repository: the clone on  *)
(* the server, its remote, the jobs that write and commit in the clone     *)
(* (backup_executor.py, backup_tasks.py on services/git/service.py) and    *)
(* the operator who synchronises or replaces it on the Git page.  Nothing  *)
(* locks the clone: any number of jobs work in it, and every commit stages *)
(* whatever it finds there.                                                *)
(*                                                                         *)
(* Git is the one of the images (docker/Dockerfile.all-in-one and           *)
(* Dockerfile.basic install Debian's, later than 2.33), and nothing in the *)
(* repository sets pull.rebase or pull.ff: a pull of branches that have    *)
(* diverged fails.                                                         *)
(*                                                                         *)
(* A configuration is its version, a tree says which version of each file  *)
(* it holds (0 for none) and a branch is the sequence of its trees.        *)
(***************************************************************************)
EXTENDS Naturals, Sequences, SequencesExt

CONSTANTS
  Job,
  Parallel,          \* the jobs that back up their devices in a chord
  Device,
  Elsewhere,         \* a file no backup writes
  Operator, Nobody,
  MaxVersion,        \* bounds the changes of a configuration
  MaxElsewhere       \* and of Elsewhere

ASSUME BackupAssumption ==
  /\ Parallel \subseteq Job
  /\ Elsewhere \notin Device
  /\ Operator \notin Job /\ Nobody \notin Job \cup {Operator}
  /\ MaxVersion \in Nat \ {0} /\ MaxElsewhere \in Nat

VARIABLES
  config,            \* the version each device runs
  remote,            \* the branch of the remote
  clone,             \* the directory: "absent" (no repository), "partial" (one
                     \* without a commit), "valid"
  cloner,            \* who clones into it
  local, index, files,
  pc,                \* what each job does next
  dev,               \* each job's progress on each device
  got,               \* the version it retrieved
  outcome,           \* of each job
  disturbed          \* jobs whose written files others replaced (for properties)

cloneVars == <<clone, cloner, local, index, files>>
jobVars == <<pc, dev, got, outcome>>
vars == <<config, remote, cloneVars, jobVars, disturbed>>

Path == Device \cup {Elsewhere}
Tree == [Path -> Nat]
Blank == [p \in Path |-> 0]
Outcome == {"pushed", "unchanged", "empty", "unprepared", "uncommitted",
            "rejected", "died"}

Init ==
  /\ config = [d \in Device |-> 1]
  /\ remote = <<Blank>>
  /\ clone \in {"absent", "valid"}
  /\ cloner = Nobody
  /\ local = IF clone = "valid" THEN remote ELSE <<>>
  /\ index = Blank /\ files = Blank
  /\ pc = [j \in Job |-> "open"]
  /\ dev = [j \in Job |-> [d \in Device |-> "todo"]]
  /\ got = [j \in Job |-> [d \in Device |-> 0]]
  /\ outcome = [j \in Job |-> "none"]
  /\ disturbed = {}

----------------------------------------------------------------------------
\* The world: devices are reconfigured, others push to the remote.
DeviceChanges(d) ==
  /\ config[d] < MaxVersion
  /\ config' = [config EXCEPT ![d] = @ + 1]
  /\ UNCHANGED <<remote, cloneVars, jobVars, disturbed>>

OthersPush ==
  /\ Last(remote)[Elsewhere] < MaxElsewhere
  /\ remote' = Append(remote, [Last(remote) EXCEPT ![Elsewhere] = @ + 1])
  /\ UNCHANGED <<config, cloneVars, jobVars, disturbed>>

----------------------------------------------------------------------------
\* The clone.
Written(j) == {d \in Device : dev[j][d] = "written"}
UnderWay(j) == outcome[j] = "none" /\ Written(j) # {}

\* The directory is removed, with all that was not pushed.
Emptied(c, a) ==
  /\ clone' = c /\ cloner' = a
  /\ local' = <<>> /\ index' = Blank /\ files' = Blank
  /\ disturbed' = disturbed \cup {j \in Job : UnderWay(j)}

\* Mutant: the repository is initialised, not cloned.
CheckedOutUnborn ==
  /\ clone' = "valid" /\ cloner' = Nobody
  /\ UNCHANGED <<local, index, files>>

\* git clone checks out beside what was written meanwhile, never over it.
CheckedOut ==
  LET head == Last(remote) IN
  /\ \A p \in Path : files[p] = 0 \/ head[p] = 0
  /\ clone' = "valid" /\ cloner' = Nobody
  /\ local' = remote /\ index' = head
  /\ files' = [p \in Path |-> IF files[p] = 0 THEN head[p] ELSE files[p]]

\* What a clone cut short left behind: a repository without a commit.
Unborn == clone = "partial" /\ cloner = Nobody

Tip == IF Unborn THEN Blank ELSE Last(local)

Merge(tree, old, new) ==
  [p \in Path |-> IF tree[p] = old[p] THEN new[p] ELSE tree[p]]

\* Mutant: a pull merges branches that have diverged.
Merged ==
  LET new == [p \in Path |-> IF Last(remote)[p] > Last(local)[p]
                             THEN Last(remote)[p] ELSE Last(local)[p]] IN
  /\ local' = remote \o <<new>>
  /\ index' = new /\ files' = new

PulledMerging ==
  /\ clone = "valid"
  /\ Merged
  /\ UNCHANGED <<clone, cloner>>

\* git pull only ever fast-forwards here (nothing tells it to merge or rebase),
\* and gives up when it would overwrite a file that is not committed.
Pulled ==
  LET old == Tip  new == Last(remote) IN
  /\ clone = "valid" \/ Unborn
  /\ IsPrefix(local, remote)
  /\ \A p \in Path : old[p] = new[p] \/ (files[p] = old[p] /\ index[p] = old[p])
  /\ local' = remote
  /\ index' = Merge(index, old, new)
  /\ files' = Merge(files, old, new)
  /\ clone' = "valid" /\ UNCHANGED cloner

----------------------------------------------------------------------------
\* The operator: "sync" pulls, or clones where there is no repository;
\* "remove and sync" puts the old directory aside and clones.
Sync ==
  /\ cloner # Operator
  /\ \/ Pulled /\ UNCHANGED disturbed
     \/ clone = "absent" /\ Emptied("partial", Operator)
  /\ UNCHANGED <<config, remote, jobVars>>

RemoveAndSync ==
  /\ cloner # Operator
  /\ Emptied("partial", Operator)
  /\ UNCHANGED <<config, remote, jobVars>>

OperatorCloned ==
  /\ cloner = Operator
  /\ CheckedOut
  /\ UNCHANGED <<config, remote, jobVars, disturbed>>

OperatorCloneFails ==
  /\ cloner = Operator
  /\ Emptied("absent", Nobody)
  /\ UNCHANGED <<config, remote, jobVars>>

----------------------------------------------------------------------------
\* The jobs.
Goto(j, l) == pc' = [pc EXCEPT ![j] = l] /\ UNCHANGED <<dev, got, outcome>>

Finish(j, o) ==
  /\ pc' = [pc EXCEPT ![j] = "done"]
  /\ outcome' = [outcome EXCEPT ![j] = o]
  /\ UNCHANGED <<dev, got>>

\* open_or_clone: what is not a repository, or is the clone of an address that
\* is not the configured one any more, is removed and cloned afresh.
open_or_clone(j) ==
  /\ pc[j] = "open"
  /\ \/ /\ clone = "valid"
        /\ Goto(j, "pull")
        /\ UNCHANGED <<cloneVars, disturbed>>
     \/ /\ Emptied("partial", j)
        /\ Goto(j, "clone")
     \/ /\ clone = "partial"             \* opened, but it has no commit yet
        /\ Finish(j, "unprepared")
        /\ UNCHANGED <<cloneVars, disturbed>>
  /\ UNCHANGED <<config, remote>>

Cloned(j) ==
  /\ pc[j] = "clone" /\ cloner = j
  /\ CheckedOut
  /\ Goto(j, "pull")
  /\ UNCHANGED <<config, remote, disturbed>>

\* A clone that fails, also because another one removed its directory, removes
\* the directory, whoever it belongs to by then.
CloneFails(j) ==
  /\ pc[j] = "clone"
  /\ Emptied("absent", Nobody)
  /\ Finish(j, "unprepared")
  /\ UNCHANGED <<config, remote>>

\* A pull that fails is a warning.
pull(j) ==
  /\ pc[j] = "pull"
  /\ Pulled \/ UNCHANGED cloneVars
  /\ Goto(j, "backup")
  /\ UNCHANGED <<config, remote, disturbed>>

SetDevice(j, d, s) == dev' = [dev EXCEPT ![j][d] = s]

\* A sequential job takes one device after the other.
Retrieve(j, d) ==
  /\ pc[j] = "backup" /\ dev[j][d] = "todo"
  /\ j \in Parallel \/ \A e \in Device : dev[j][e] # "retrieved"
  /\ SetDevice(j, d, "retrieved")
  /\ got' = [got EXCEPT ![j][d] = config[d]]
  /\ UNCHANGED <<config, remote, cloneVars, pc, outcome, disturbed>>

\* Mutant: another backup of the device is taken for ours.
WriteFileOnce(j, d) ==
  /\ files' = IF files[d] # 0 THEN files ELSE [files EXCEPT ![d] = got[j][d]]
  /\ UNCHANGED disturbed

WriteFile(j, d) ==
  /\ files' = [files EXCEPT ![d] = got[j][d]]
  /\ disturbed' = disturbed \cup
       {k \in Job : UnderWay(k) /\ d \in Written(k) /\ got[k][d] # got[j][d]}

Write(j, d) ==
  /\ pc[j] = "backup" /\ dev[j][d] = "retrieved"
  /\ SetDevice(j, d, "written")
  /\ WriteFile(j, d)
  /\ UNCHANGED <<config, remote, clone, cloner, local, index, pc, got, outcome>>

\* The running configuration may be on the disk when the start-up one fails.
DeviceFails(j, d) ==
  /\ pc[j] = "backup" /\ dev[j][d] \in {"todo", "retrieved"}
  /\ SetDevice(j, d, "failed")
  /\ got' = [got EXCEPT ![j][d] = 0]
  /\ \/ UNCHANGED <<files, disturbed>>
     \/ dev[j][d] = "retrieved" /\ WriteFile(j, d)
  /\ UNCHANGED <<config, remote, clone, cloner, local, index, pc, outcome>>

DevicesDone(j) == \A d \in Device : dev[j][d] \in {"written", "failed"}

NothingBackedUp(j) ==
  /\ pc[j] = "backup" /\ DevicesDone(j) /\ Written(j) = {}
  /\ Finish(j, "empty")
  /\ UNCHANGED <<config, remote, cloneVars, disturbed>>

\* Mutant: only files that Git knows are staged.
StageKnown(j) ==
  /\ pc[j] = "backup" /\ DevicesDone(j) /\ Written(j) # {}
  /\ clone = "valid" \/ Unborn
  /\ index' = [p \in Path |-> IF index[p] = 0 THEN 0 ELSE files[p]]
  /\ Goto(j, "commit")
  /\ UNCHANGED <<config, remote, clone, cloner, local, files, disturbed>>

\* commit_and_push, step by step: git add ., the commit of the index, the push.
Stage(j) ==
  /\ pc[j] = "backup" /\ DevicesDone(j) /\ Written(j) # {}
  /\ clone = "valid" \/ Unborn
  /\ index' = files
  /\ Goto(j, "commit")
  /\ UNCHANGED <<config, remote, clone, cloner, local, files, disturbed>>

\* No repository, or another job holds Git's lock on the index.
CommitFails(j) ==
  /\ \/ pc[j] = "backup" /\ DevicesDone(j) /\ Written(j) # {}
     \/ pc[j] = "commit"
  /\ Finish(j, "uncommitted")
  /\ UNCHANGED <<config, remote, cloneVars, disturbed>>

\* The first commit of a repository without one starts a history of its own.
Commit(j) ==
  /\ pc[j] = "commit" /\ (clone = "valid" \/ Unborn)
  /\ IF index = Tip
     THEN Finish(j, "unchanged") /\ UNCHANGED <<clone, local>>
     ELSE Goto(j, "push") /\ local' = Append(local, index) /\ clone' = "valid"
  /\ UNCHANGED <<config, remote, cloner, index, files, disturbed>>

\* Mutant: the push is forced.
PushForced(j) ==
  /\ pc[j] = "push" /\ clone = "valid"
  /\ remote' = local
  /\ Finish(j, "pushed")
  /\ UNCHANGED <<config, cloneVars, disturbed>>

Push(j) ==
  /\ pc[j] = "push" /\ clone = "valid"
  /\ IsPrefix(remote, local)
  /\ remote' = local
  /\ Finish(j, "pushed")
  /\ UNCHANGED <<config, cloneVars, disturbed>>

\* Rejected, or the connection failed, perhaps after the remote took it.
PushFails(j) ==
  /\ pc[j] = "push"
  /\ \/ UNCHANGED remote
     \/ clone = "valid" /\ IsPrefix(remote, local) /\ remote' = local
  /\ Finish(j, "rejected")
  /\ UNCHANGED <<config, cloneVars, disturbed>>

\* The worker dies; its files stay behind, and so may a clone it had begun.
Die(j) ==
  /\ outcome[j] = "none" /\ pc[j] # "open"
  /\ Finish(j, "died")
  /\ \/ cloner = j /\ Emptied("absent", Nobody)
     \/ /\ cloner' = IF cloner = j THEN Nobody ELSE cloner
        /\ UNCHANGED <<clone, local, index, files, disturbed>>
  /\ UNCHANGED <<config, remote>>

----------------------------------------------------------------------------
World == OthersPush \/ \E d \in Device : DeviceChanges(d)
Operates == Sync \/ RemoveAndSync \/ OperatorCloned \/ OperatorCloneFails
Works(j) ==
  \/ open_or_clone(j) \/ Cloned(j) \/ CloneFails(j) \/ pull(j)
  \/ \E d \in Device : Retrieve(j, d) \/ Write(j, d) \/ DeviceFails(j, d)
  \/ NothingBackedUp(j) \/ Stage(j) \/ CommitFails(j) \/ Commit(j)
  \/ Push(j) \/ PushFails(j) \/ Die(j)

Next == World \/ Operates \/ \E j \in Job : Works(j)

Spec == Init /\ [][Next]_vars

----------------------------------------------------------------------------
TypeOK ==
  /\ config \in [Device -> 1..MaxVersion]
  /\ remote \in Seq(Tree) /\ remote # <<>>
  /\ clone \in {"absent", "partial", "valid"}
  /\ cloner \in Job \cup {Operator, Nobody}
  /\ local \in Seq(Tree) /\ (clone = "valid") = (local # <<>>)
  /\ index \in Tree /\ files \in Tree
  /\ pc \in [Job -> {"open", "clone", "pull", "backup", "commit", "push", "done"}]
  /\ dev \in [Job -> [Device -> {"todo", "retrieved", "written", "failed"}]]
  /\ got \in [Job -> [Device -> 0..MaxVersion]]
  /\ outcome \in [Job -> Outcome \cup {"none"}]
  /\ disturbed \subseteq Job

OnRemote(j) ==
  \A d \in Written(j) : \E i \in DOMAIN remote : remote[i][d] = got[j][d]

\* What a backup reports as pushed is in the history of the remote, file by
\* file and in the version it retrieved, although other jobs stage and commit
\* in the same clone.  Two things only can break this: the clone was replaced
\* under the backup, or another one overwrote its files with other versions.
PushedIsKept ==
  \A j \in Job : outcome[j] = "pushed" /\ j \notin disturbed => OnRemote(j)

\* A sequential backup fails with its push, a parallel one reports on its
\* devices alone (finalize_backup_task).
Succeeded(j) ==
  IF j \in Parallel
  THEN outcome[j] \notin {"none", "unprepared", "died"} /\ Written(j) = Device
  ELSE outcome[j] \in {"pushed", "unchanged", "empty"}

\* A backup that succeeded without its files reaching the remote either was
\* disturbed as above, or is a chord that says nothing of its failed commit or
\* push, or found nothing to commit: then another job had committed its files,
\* and that one has yet to push, or never will because its push failed, it died,
\* or its clone was replaced (and its push came from another one).
Unpushed(k) ==
  k \in disturbed \/ outcome[k] \in {"rejected", "died"} \/ pc[k] = "push"

SuccessExplained ==
  \A j \in Job :
    Succeeded(j) /\ ~OnRemote(j) =>
      \/ j \in disturbed
      \/ j \in Parallel /\ outcome[j] \in {"rejected", "uncommitted"}
      \/ outcome[j] = "unchanged" /\ \E k \in Job \ {j} : Unpushed(k)

Diverged == clone = "valid" /\ ~IsPrefix(local, remote) /\ ~IsPrefix(remote, local)

\* Once the clone and the remote have diverged, no backup gets through until
\* the clone is replaced: neither a pull, which is what the rejected push asks
\* for, nor the push of the next job mends it, and the failing pull is only a
\* warning.
DivergedUntilReplaced ==
  [][Diverged => /\ Diverged' \/ clone' # "valid"
                 /\ \A j \in Job : outcome'[j] = "pushed" => outcome[j] = "pushed"
    ]_vars

\* The backups implement RemoteHistory: nothing that reached the remote is
\* taken back, whatever jobs, operators and failures do.
History == INSTANCE RemoteHistory WITH
  Job <- Job, Open <- "none", Outcome <- Outcome,
  history <- remote, reported <- outcome
ImplementsHistory == History!Spec
=============================================================================
