-------------------------- MODULE BackupGitProofs --------------------------
(***************************************************************************)
(* For any number of jobs and devices: type correctness, that what a       *)
(* backup reports as pushed is on the remote, why one that succeeded may   *)
(* have left nothing there, that a clone which has diverged stays so until *)
(* it is replaced, and that the backups implement RemoteHistory.           *)
(***************************************************************************)
EXTENDS BackupGit, TLAPS

(* Sequences of trees. *)
LEMMA PrefixItems ==
  ASSUME NEW S, NEW s \in Seq(S), NEW t \in Seq(S)
  PROVE  IsPrefix(s, t) <=> /\ Len(s) <= Len(t)
                            /\ \A i \in 1..Len(s) : s[i] = t[i]
<1>1. CASE Len(s) <= Len(t)
  <2>1. /\ SubSeq(s, 1, Len(s)) = [i \in 1..Len(s) |-> s[i]]
        /\ SubSeq(t, 1, Len(s)) = [i \in 1..Len(s) |-> t[i]]
    BY <1>1
  <2> QED
    BY <1>1, <2>1 DEF IsPrefix
<1> QED
  BY <1>1 DEF IsPrefix

LEMMA PrefixTrans ==
  ASSUME NEW S, NEW s \in Seq(S), NEW t \in Seq(S), NEW u \in Seq(S),
         IsPrefix(s, t), IsPrefix(t, u)
  PROVE  IsPrefix(s, u)
<1>1. /\ Len(s) <= Len(t) /\ \A i \in 1..Len(s) : s[i] = t[i]
      /\ Len(t) <= Len(u) /\ \A i \in 1..Len(t) : t[i] = u[i]
  BY PrefixItems
<1>2. Len(s) <= Len(u) /\ \A i \in 1..Len(s) : s[i] = u[i]
  BY <1>1
<1> QED
  BY <1>2, PrefixItems

LEMMA StrictlyLonger ==
  ASSUME NEW S, NEW s \in Seq(S), NEW t \in Seq(S), IsPrefix(s, t), s # t
  PROVE  IsStrictPrefix(s, t)
  BY DEF IsStrictPrefix

LEMMA AppendExtends ==
  ASSUME NEW S, NEW s \in Seq(S), NEW x \in S
  PROVE  IsStrictPrefix(s, Append(s, x)) /\ IsPrefix(s, Append(s, x))
<1>1. IsPrefix(s, Append(s, x))
  <2> DEFINE t == Append(s, x)
  <2>1. t \in Seq(S) /\ Len(s) <= Len(t) /\ \A i \in 1..Len(s) : s[i] = t[i]
    OBVIOUS
  <2>2. IsPrefix(s, t)
    <3> HIDE DEF t
    <3> QED
      BY <2>1, PrefixItems
  <2> QED
    BY <2>2
<1>2. s # Append(s, x)
  <2>1. Len(Append(s, x)) = Len(s) + 1
    OBVIOUS
  <2> QED
    BY <2>1
<1> QED
  BY <1>1, <1>2 DEF IsStrictPrefix

LEMMA AppendType ==
  ASSUME NEW S, NEW s \in Seq(S), NEW x \in S
  PROVE  Append(s, x) \in Seq(S) /\ Append(s, x) # <<>>
<1>1. Append(s, x) \in Seq(S) /\ Len(Append(s, x)) = Len(s) + 1 /\ Len(s) \in Nat
  OBVIOUS
<1>2. Len(<<>>) = 0
  OBVIOUS
<1> QED
  BY <1>1, <1>2

LEMMA LastItem ==
  ASSUME NEW S, NEW s \in Seq(S), s # <<>>
  PROVE  Last(s) \in S /\ Len(s) \in DOMAIN s /\ Last(s) = s[Len(s)]
  BY DEF Last

\* Neither is a prefix of the other: they differ at some place.
Forked(s, t) == \E i \in DOMAIN s \cap DOMAIN t : s[i] # t[i]

LEMMA ForkedIsDiverged ==
  ASSUME NEW S, NEW s \in Seq(S), NEW t \in Seq(S)
  PROVE  Forked(s, t) <=> ~IsPrefix(s, t) /\ ~IsPrefix(t, s)
<1>1. DOMAIN s = 1..Len(s) /\ DOMAIN t = 1..Len(t) /\ Len(s) \in Nat /\ Len(t) \in Nat
  OBVIOUS
<1> QED
  BY <1>1, PrefixItems DEF Forked

----------------------------------------------------------------------------
(* Type correctness. *)
LEMMA Trees ==
  ASSUME TypeOK
  PROVE  /\ Blank \in Tree /\ Last(remote) \in Tree
         /\ clone = "valid" => Last(local) \in Tree
         /\ clone = "valid" \/ Unborn => Tip \in Tree
         /\ \A t \in Tree, p \in Path, n \in Nat : [t EXCEPT ![p] = n] \in Tree
         /\ \A t, u, v \in Tree : Merge(t, u, v) \in Tree
<1>1. Last(remote) \in Tree /\ (clone = "valid" => Last(local) \in Tree)
  BY LastItem DEF TypeOK
<1> QED
  BY <1>1 DEF Tree, Blank, Merge, Tip, Unborn

LEMMA OthersExtend ==
  ASSUME TypeOK, OthersPush
  PROVE  IsPrefix(remote, remote') /\ IsStrictPrefix(remote, remote')
<1> DEFINE x == [Last(remote) EXCEPT ![Elsewhere] = @ + 1]
<1>1. remote' = Append(remote, x) /\ remote \in Seq(Tree)
  BY DEF OthersPush, TypeOK
<1>2. x \in Tree
  <2>1. Elsewhere \in Path /\ Last(remote)[Elsewhere] \in Nat
    BY Trees DEF Path, Tree
  <2> QED
    BY <2>1, Trees DEF Tree
<1> HIDE DEF x
<1> QED
  BY <1>1, <1>2, AppendExtends

LEMMA InitTypeOK == Init => TypeOK
<1> SUFFICES ASSUME Init PROVE TypeOK
  OBVIOUS
<1>1. Blank \in Tree
  BY DEF Tree, Blank
<1>2. remote \in Seq(Tree) /\ remote # <<>>
  BY <1>1 DEF Init
<1>3. local \in Seq(Tree) /\ (clone = "valid") = (local # <<>>)
  BY <1>2 DEF Init
<1> QED
  BY <1>1, <1>2, <1>3, BackupAssumption DEF Init, TypeOK

CloneType ==
  /\ clone \in {"absent", "partial", "valid"}
  /\ cloner \in Job \cup {Operator, Nobody}
  /\ local \in Seq(Tree) /\ (clone = "valid") = (local # <<>>)
  /\ index \in Tree /\ files \in Tree
  /\ disturbed \subseteq Job

LEMMA EmptiedType ==
  ASSUME TypeOK, NEW c \in {"absent", "partial"}, NEW a \in Job \cup {Operator, Nobody},
         Emptied(c, a)
  PROVE  CloneType'
  BY Trees DEF TypeOK, Emptied, CloneType

LEMMA CheckedOutType ==
  ASSUME TypeOK, CheckedOut, UNCHANGED disturbed
  PROVE  CloneType'
<1>1. files' \in Tree
  BY Trees DEF CheckedOut, TypeOK, Tree
<1> QED
  BY <1>1, Trees DEF CheckedOut, TypeOK, CloneType

LEMMA PulledType ==
  ASSUME TypeOK, Pulled, UNCHANGED disturbed
  PROVE  CloneType'
<1>1. Tip \in Tree /\ Last(remote) \in Tree /\ \A t, u, v \in Tree : Merge(t, u, v) \in Tree
  BY Trees DEF Pulled
<1> QED
  BY <1>1 DEF Pulled, TypeOK, CloneType

LEMMA WriteFileType ==
  ASSUME TypeOK, NEW j \in Job, NEW d \in Device, WriteFile(j, d),
         UNCHANGED <<clone, cloner, local, index>>
  PROVE  CloneType'
<1>1. got[j][d] \in Nat /\ d \in Path
  BY BackupAssumption DEF TypeOK, Path
<1>2. files' \in Tree
  BY <1>1, Trees DEF WriteFile, TypeOK
<1> QED
  BY <1>2 DEF WriteFile, CloneType, TypeOK

LEMMA NextTypeOK == TypeOK /\ [Next]_vars => TypeOK'
<1> SUFFICES ASSUME TypeOK, [Next]_vars PROVE TypeOK'
  OBVIOUS
<1> USE DEF cloneVars, jobVars
<1> DEFINE JobType == /\ pc' \in [Job -> {"open", "clone", "pull", "backup", "commit",
                                          "push", "done"}]
                      /\ dev' \in [Job -> [Device -> {"todo", "retrieved", "written", "failed"}]]
                      /\ got' \in [Job -> [Device -> 0..MaxVersion]]
                      /\ outcome' \in [Job -> Outcome \cup {"none"}]
<1>1. ASSUME NEW j \in Job, NEW l \in {"clone", "pull", "backup", "commit", "push"}, Goto(j, l)
      PROVE  JobType
  BY <1>1 DEF Goto, TypeOK
<1>2. ASSUME NEW j \in Job, NEW o \in Outcome, Finish(j, o)
      PROVE  JobType
  BY <1>2 DEF Finish, TypeOK
<1>3. UNCHANGED jobVars => JobType
  BY DEF TypeOK
<1>4. UNCHANGED <<cloneVars, disturbed>> => CloneType'
  BY DEF TypeOK, CloneType
<1>5. UNCHANGED <<config, remote>> /\ JobType /\ CloneType' => TypeOK'
  BY DEF TypeOK, CloneType
<1> HIDE DEF JobType
<1>6. CASE UNCHANGED vars
  BY <1>3, <1>4, <1>5, <1>6 DEF vars
<1>7. CASE World
  <2>1. ASSUME NEW d \in Device, DeviceChanges(d) PROVE TypeOK'
    <3>1. config' \in [Device -> 1..MaxVersion]
      BY <2>1, BackupAssumption DEF DeviceChanges, TypeOK
    <3> QED
      BY <2>1, <3>1 DEF DeviceChanges, TypeOK
  <2>2. CASE OthersPush
    <3>1. Elsewhere \in Path /\ Last(remote)[Elsewhere] \in Nat
      BY Trees DEF Path, Tree
    <3>2. [Last(remote) EXCEPT ![Elsewhere] = @ + 1] \in Tree
      BY <3>1, Trees DEF Tree
    <3>3. remote' \in Seq(Tree) /\ remote' # <<>>
      <4> DEFINE t == [Last(remote) EXCEPT ![Elsewhere] = @ + 1]
      <4>1. remote \in Seq(Tree) /\ t \in Tree /\ remote' = Append(remote, t)
        BY <2>2, <3>2 DEF OthersPush, TypeOK
      <4> HIDE DEF t
      <4>2. Append(remote, t) \in Seq(Tree) /\ Append(remote, t) # <<>>
        BY <4>1, AppendType
      <4> QED
        BY <4>1, <4>2
    <3> QED
      BY <2>2, <3>3 DEF OthersPush, TypeOK
  <2> QED
    BY <1>7, <2>1, <2>2 DEF World
<1>8. CASE Operates
  <2>1. CloneType'
    BY <1>4, <1>8, EmptiedType, CheckedOutType, PulledType
    DEF Operates, Sync, RemoveAndSync, OperatorCloned, OperatorCloneFails
  <2> QED
    BY <1>3, <1>5, <1>8, <2>1
    DEF Operates, Sync, RemoveAndSync, OperatorCloned, OperatorCloneFails
<1>9. ASSUME NEW j \in Job, Works(j) PROVE TypeOK'
  <2> USE DEF Outcome
  <2>1. CASE open_or_clone(j)
    <3>1. JobType
      BY <1>1, <1>2, <2>1 DEF open_or_clone
    <3>2. CloneType'
      BY <1>4, <2>1, EmptiedType DEF open_or_clone
    <3> QED
      BY <1>5, <2>1, <3>1, <3>2 DEF open_or_clone
  <2>2. CASE Cloned(j)
    BY <1>1, <1>5, <2>2, CheckedOutType DEF Cloned
  <2>3. CASE CloneFails(j)
    BY <1>2, <1>5, <2>3, EmptiedType DEF CloneFails
  <2>4. CASE pull(j)
    <3>1. CloneType'
      BY <1>4, <2>4, PulledType DEF pull
    <3> QED
      BY <1>1, <1>5, <2>4, <3>1 DEF pull
  <2>5. ASSUME NEW d \in Device, Retrieve(j, d) PROVE TypeOK'
    <3>1. dev' \in [Job -> [Device -> {"todo", "retrieved", "written", "failed"}]]
      BY <2>5 DEF Retrieve, SetDevice, TypeOK
    <3>2. got' \in [Job -> [Device -> 0..MaxVersion]]
      BY <2>5, BackupAssumption DEF Retrieve, TypeOK
    <3>3. JobType
      BY <2>5, <3>1, <3>2 DEF JobType, Retrieve, TypeOK
    <3> QED
      BY <1>4, <1>5, <2>5, <3>3 DEF Retrieve
  <2>6. ASSUME NEW d \in Device, DeviceFails(j, d) PROVE TypeOK'
    <3>1. dev' \in [Job -> [Device -> {"todo", "retrieved", "written", "failed"}]]
      BY <2>6 DEF DeviceFails, SetDevice, TypeOK
    <3>2. got' \in [Job -> [Device -> 0..MaxVersion]]
      BY <2>6, BackupAssumption DEF DeviceFails, TypeOK
    <3>3. JobType
      BY <2>6, <3>1, <3>2 DEF JobType, DeviceFails, TypeOK
    <3>4. CloneType'
      BY <1>4, <2>6, WriteFileType DEF DeviceFails
    <3> QED
      BY <1>5, <2>6, <3>3, <3>4 DEF DeviceFails
  <2>7. ASSUME NEW d \in Device, Write(j, d) PROVE TypeOK'
    <3>1. dev' \in [Job -> [Device -> {"todo", "retrieved", "written", "failed"}]]
      BY <2>7 DEF Write, SetDevice, TypeOK
    <3>2. JobType
      BY <2>7, <3>1 DEF JobType, Write, TypeOK
    <3>3. CloneType'
      BY <2>7, WriteFileType DEF Write
    <3> QED
      BY <1>5, <2>7, <3>2, <3>3 DEF Write
  <2>8. CASE NothingBackedUp(j) \/ CommitFails(j)
    BY <1>2, <1>4, <1>5, <2>8 DEF NothingBackedUp, CommitFails
  <2>9. CASE Stage(j)
    <3>1. CloneType'
      BY <2>9 DEF Stage, CloneType, TypeOK
    <3> QED
      BY <1>1, <1>5, <2>9, <3>1 DEF Stage
  <2>10. CASE Commit(j)
    <3>1. JobType
      BY <1>1, <1>2, <2>10 DEF Commit
    <3>2. Append(local, index) \in Seq(Tree) /\ Append(local, index) # <<>>
      <4>1. Append(local, index) \in Seq(Tree) /\ Append(local, index) # <<>>
        <5>1. local \in Seq(Tree) /\ index \in Tree
          BY DEF TypeOK
        <5> QED
          BY <5>1, AppendType
      <4> QED
        BY <4>1
    <3>3. CloneType'
      BY <2>10, <3>2 DEF Commit, CloneType, TypeOK
    <3> QED
      BY <1>5, <2>10, <3>1, <3>3 DEF Commit
  <2>11. CASE Push(j) \/ PushFails(j)
    <3>1. JobType
      BY <1>2, <2>11 DEF Push, PushFails
    <3>2. remote' \in Seq(Tree) /\ remote' # <<>>
      BY <2>11 DEF Push, PushFails, TypeOK
    <3> QED
      BY <2>11, <3>1, <3>2 DEF Push, PushFails, TypeOK, JobType
  <2>12. CASE Die(j)
    <3>1. CloneType'
      <4>1. CASE cloner = j /\ Emptied("absent", Nobody)
        BY <4>1, EmptiedType
      <4>2. CASE ~(cloner = j /\ Emptied("absent", Nobody))
        BY <2>12, <4>2 DEF Die, CloneType, TypeOK
      <4> QED
        BY <4>1, <4>2
    <3> QED
      BY <1>2, <1>5, <2>12, <3>1 DEF Die
  <2> QED
    BY <1>9, <2>1, <2>2, <2>3, <2>4, <2>5, <2>6, <2>7, <2>8, <2>9, <2>10, <2>11, <2>12
    DEF Works
<1> QED
  BY <1>6, <1>7, <1>8, <1>9 DEF Next

\* Type correctness: in particular the clone has commits exactly while it is a
\* repository.
THEOREM TypeCorrect == Spec => []TypeOK
  BY InitTypeOK, NextTypeOK, PTL DEF Spec

----------------------------------------------------------------------------
(* Divergence and the history of the remote. *)

\* A job has reported when it is done, and who clones leaves no repository.
Standing ==
  /\ TypeOK
  /\ \A j \in Job : (outcome[j] = "none") = (pc[j] # "done")
  /\ cloner # Nobody => clone = "partial"

LEMMA StandingHolds == Spec => []Standing
<1>1. Init => Standing
  BY InitTypeOK DEF Init, Standing
<1>2. Standing /\ [Next]_vars => Standing'
  <2> SUFFICES ASSUME Standing, [Next]_vars PROVE Standing'
    OBVIOUS
  <2> USE DEF cloneVars, jobVars
  <2>1. TypeOK'
    BY NextTypeOK DEF Standing
  <2>2. \A j \in Job : (outcome'[j] = "none") = (pc'[j] # "done")
    <3>1. ASSUME NEW j \in Job, NEW o \in Outcome, Finish(j, o)
          PROVE  \A k \in Job : (outcome'[k] = "none") = (pc'[k] # "done")
      BY <3>1 DEF Finish, Standing, TypeOK, Outcome
    <3>2. ASSUME NEW j \in Job, NEW l \in {"clone", "pull", "backup", "commit", "push"},
                 pc[j] # "done", Goto(j, l)
          PROVE  \A k \in Job : (outcome'[k] = "none") = (pc'[k] # "done")
      BY <3>2 DEF Goto, Standing, TypeOK
    <3>3. UNCHANGED <<pc, outcome>> => \A k \in Job : (outcome'[k] = "none") = (pc'[k] # "done")
      BY DEF Standing
    <3>4. ASSUME NEW j \in Job, Works(j)
          PROVE  \A k \in Job : (outcome'[k] = "none") = (pc'[k] # "done")
      BY <3>1, <3>2, <3>3, <3>4
      DEF Works, open_or_clone, Cloned, CloneFails, pull, Retrieve, Write, DeviceFails,
          NothingBackedUp, Stage, CommitFails, Commit, Push, PushFails, Die, Outcome
    <3> QED
      BY <3>3, <3>4 DEF Next, World, Operates, OthersPush, DeviceChanges, Sync,
         RemoveAndSync, OperatorCloned, OperatorCloneFails, vars
  <2>3. (cloner # Nobody => clone = "partial")'
    <3>1. ASSUME NEW j \in Job, Works(j) PROVE cloner' # Nobody => clone' = "partial"
      BY <3>1 DEF Standing, Works, open_or_clone, Cloned, CloneFails, pull, Retrieve,
         Write, DeviceFails, NothingBackedUp, Stage, CommitFails, Commit, Push,
         PushFails, Die, Emptied, CheckedOut, Pulled, Unborn
    <3> QED
      BY <3>1 DEF Standing, Next, World, Operates, OthersPush, DeviceChanges, Sync,
         RemoveAndSync, OperatorCloned, OperatorCloneFails, Emptied, CheckedOut,
         Pulled, Unborn, vars
  <2> QED
    BY <2>1, <2>2, <2>3 DEF Standing
<1> QED
  BY <1>1, <1>2, PTL DEF Spec

\* A fork stays when either side grows.
LEMMA ForkStays ==
  ASSUME NEW S, NEW s \in Seq(S), NEW t \in Seq(S), NEW x \in S, Forked(s, t)
  PROVE  Forked(Append(s, x), t) /\ Forked(s, Append(t, x))
<1>1. PICK i \in DOMAIN s \cap DOMAIN t : s[i] # t[i]
  BY DEF Forked
<1>2. i \in DOMAIN Append(s, x) /\ Append(s, x)[i] = s[i]
  OBVIOUS
<1>3. i \in DOMAIN Append(t, x) /\ Append(t, x)[i] = t[i]
  OBVIOUS
<1> QED
  BY <1>1, <1>2, <1>3 DEF Forked

LEMMA DivergedForks ==
  TypeOK => (Diverged <=> clone = "valid" /\ Forked(local, remote))
  BY ForkedIsDiverged DEF TypeOK, Diverged

\* What each kind of step does to a clone that has diverged.
LEMMA DivergedStep ==
  ASSUME Standing, Diverged, Next
  PROVE  Diverged' \/ clone' # "valid"
<1> USE DEF cloneVars, jobVars
<1>1. /\ clone = "valid" /\ Forked(local, remote)
      /\ local \in Seq(Tree) /\ remote \in Seq(Tree) /\ index \in Tree
      /\ ~IsPrefix(local, remote) /\ ~IsPrefix(remote, local)
  BY DivergedForks DEF Standing, TypeOK, Diverged
<1>2. UNCHANGED <<clone, local, remote>> => Diverged'
  BY DEF Diverged
<1>3. ~Pulled
  BY <1>1 DEF Pulled
<1>4. cloner = Nobody
  BY <1>1 DEF Standing
<1>5. CASE World
  <2>1. CASE OthersPush
    <3> DEFINE x == [Last(remote) EXCEPT ![Elsewhere] = @ + 1]
    <3>1. remote' = Append(remote, x) /\ UNCHANGED <<clone, local>>
      BY <2>1 DEF OthersPush
    <3>2. x \in Tree
      <4>1. Elsewhere \in Path /\ Last(remote)[Elsewhere] \in Nat
        BY Trees DEF Path, Tree, Standing
      <4> QED
        BY <4>1, Trees DEF Tree, Standing
    <3> HIDE DEF x
    <3>3. Forked(local, Append(remote, x)) /\ Append(remote, x) \in Seq(Tree)
      BY <1>1, <3>2, ForkStays, AppendType
    <3>4. ~IsPrefix(local, Append(remote, x)) /\ ~IsPrefix(Append(remote, x), local)
      BY <1>1, <3>3, ForkedIsDiverged
    <3> QED
      BY <1>1, <3>1, <3>4 DEF Diverged
  <2> QED
    BY <1>2, <1>5, <2>1 DEF World, DeviceChanges
<1>6. CASE Operates
  BY <1>3, <1>4, <1>6, BackupAssumption
  DEF Operates, Sync, RemoveAndSync, OperatorCloned, OperatorCloneFails, Emptied
<1>7. ASSUME NEW j \in Job, Works(j) PROVE Diverged' \/ clone' # "valid"
  <2>1. CASE Commit(j)
    <3>1. index = Tip \/ index # Tip
      OBVIOUS
    <3>2. local' \in {local, Append(local, index)} /\ UNCHANGED <<clone, remote>>
      BY <1>1, <2>1, <3>1 DEF Commit
    <3>3. Forked(Append(local, index), remote) /\ Append(local, index) \in Seq(Tree)
      BY <1>1, ForkStays, AppendType
    <3>4. ~IsPrefix(Append(local, index), remote) /\ ~IsPrefix(remote, Append(local, index))
      BY <1>1, <3>3, ForkedIsDiverged
    <3> QED
      BY <1>1, <3>2, <3>4 DEF Diverged
  <2>2. CASE Push(j) \/ PushFails(j)
    BY <1>1, <1>2, <2>2 DEF Push, PushFails
  <2>3. CASE pull(j)
    BY <1>2, <1>3, <2>3 DEF pull
  <2>4. ~Cloned(j)
    BY <1>4, BackupAssumption DEF Cloned
  <2>5. CASE open_or_clone(j) \/ CloneFails(j) \/ Die(j)
    BY <1>2, <2>5 DEF open_or_clone, CloneFails, Die, Emptied
  <2> QED
    BY <1>2, <1>7, <2>1, <2>2, <2>3, <2>4, <2>5
    DEF Works, Retrieve, Write, DeviceFails, NothingBackedUp, Stage, CommitFails
<1> QED
  BY <1>5, <1>6, <1>7 DEF Next

\* Only a push reports "pushed".
LEMMA OnlyPushReports ==
  ASSUME TypeOK, Next, NEW j \in Job, outcome'[j] = "pushed", outcome[j] # "pushed"
  PROVE  Push(j)
<1>1. PICK k \in Job : Works(k)
  BY DEF Next, World, Operates, OthersPush, DeviceChanges, Sync, RemoveAndSync,
         OperatorCloned, OperatorCloneFails, jobVars
<1>2. ASSUME NEW o \in Outcome \ {"pushed"}, Finish(k, o) PROVE FALSE
  BY <1>2 DEF Finish, TypeOK
<1>3. outcome' = outcome => FALSE
  OBVIOUS
<1>4. Push(k)
  BY <1>1, <1>2, <1>3
  DEF Works, open_or_clone, Cloned, CloneFails, pull, Retrieve, Write, DeviceFails,
      NothingBackedUp, Stage, CommitFails, Commit, PushFails, Die, Goto, Outcome
<1>5. j = k
  BY <1>4 DEF Push, Finish, TypeOK
<1> QED
  BY <1>4, <1>5

\* Once the clone and the remote have diverged, no backup gets through until the
\* clone is replaced.
THEOREM DivergedStays == Spec => DivergedUntilReplaced
<1> DEFINE Stays == Diverged => /\ Diverged' \/ clone' # "valid"
                                /\ \A j \in Job :
                                     outcome'[j] = "pushed" => outcome[j] = "pushed"
<1>1. Standing /\ [Next]_vars => [Stays]_vars
  <2> SUFFICES ASSUME Standing, Next, Diverged PROVE Stays
    OBVIOUS
  <2>1. Diverged' \/ clone' # "valid"
    BY DivergedStep
  <2>2. ASSUME NEW j \in Job PROVE ~Push(j)
    BY DEF Diverged, Push
  <2>3. \A j \in Job : outcome'[j] = "pushed" => outcome[j] = "pushed"
    BY <2>2, OnlyPushReports DEF Standing
  <2> QED
    BY <2>1, <2>3
<1> QED
  BY <1>1, StandingHolds, PTL DEF Spec, DivergedUntilReplaced

\* The backups implement RemoteHistory: every step adds to the remote, reports,
\* or both, or leaves remote and reports alone.
THEOREM Implements == Spec => ImplementsHistory
<1>1. Init => History!Init
  <2> SUFFICES ASSUME Init PROVE History!Init
    OBVIOUS
  <2>1. Len(remote) = 1
    BY DEF Init
  <2> QED
    BY <2>1 DEF Init, History!Init
<1>2. IsStrictPrefix(remote, remote') => History!Add
  BY DEF History!Add, History!IsStrictPrefix, History!IsPrefix, IsStrictPrefix, IsPrefix
<1>3. Standing /\ [Next]_vars => [History!Next]_(History!vars)
  <2> SUFFICES ASSUME Standing, [Next]_vars, ~UNCHANGED <<remote, outcome>>
               PROVE  History!Next
    BY DEF History!vars
  <2>1. CASE OthersPush
    BY <1>2, <2>1, OthersExtend
    DEF OthersPush, jobVars, Standing, History!Next, History!Extend
  <2>2. ASSUME NEW j \in Job, Works(j) PROVE History!Next
    <3>1. ASSUME NEW o \in Outcome, Finish(j, o), pc[j] # "done",
                 \/ o \in {"pushed", "rejected"} /\ IsStrictPrefix(remote, remote')
                 \/ UNCHANGED remote
          PROVE  History!Next
      <4>1. outcome[j] = "none" /\ outcome' = [outcome EXCEPT ![j] = o] /\ outcome'[j] = o
        BY <3>1 DEF Finish, Standing, TypeOK
      <4>2. History!Report(j)
        BY <1>2, <3>1, <4>1 DEF History!Report
      <4> QED
        BY <4>2 DEF History!Next
    <3>2. CASE Push(j) \/ PushFails(j)
      <4>1. remote' = remote \/ (remote' = local /\ IsPrefix(remote, local))
        BY <3>2 DEF Push, PushFails
      <4>2. remote' = remote \/ IsStrictPrefix(remote, remote')
        BY <4>1, StrictlyLonger DEF Standing, TypeOK
      <4> QED
        BY <3>1, <3>2, <4>2 DEF Push, PushFails, Outcome
    <3> QED
      BY <2>2, <3>1, <3>2
      DEF Works, open_or_clone, Cloned, CloneFails, pull, Retrieve, Write, DeviceFails,
          NothingBackedUp, Stage, CommitFails, Commit, Die, Goto, Outcome, Standing
  <2> QED
    BY <2>1, <2>2 DEF Next, World, Operates, DeviceChanges, Sync, RemoveAndSync,
       OperatorCloned, OperatorCloneFails, jobVars, vars
<1> QED
  BY <1>1, <1>3, StandingHolds, PTL DEF Spec, ImplementsHistory, History!Spec

----------------------------------------------------------------------------
(* What is pushed is kept. *)

InLocal(j, d) == \E i \in DOMAIN local : local[i][d] = got[j][d]

\* The written files of a job nobody disturbed are in the clone as written, or
\* are in its history already.
FilesKept ==
  \A j \in Job, d \in Device :
    outcome[j] = "none" /\ j \notin disturbed /\ dev[j][d] = "written" =>
      got[j][d] # 0 /\ (files[d] = got[j][d] \/ InLocal(j, d))

\* So they are once staged, and in the history once committed.
StagedKept ==
  \A j \in Job :
    pc[j] = "commit" /\ j \notin disturbed =>
      /\ (clone = "valid" \/ Unborn) /\ Written(j) # {}
      /\ \A d \in Written(j) : index[d] = got[j][d] \/ InLocal(j, d)

CommittedKept ==
  \A j \in Job :
    pc[j] = "push" /\ j \notin disturbed =>
      /\ clone = "valid" /\ Written(j) # {}
      /\ \A d \in Written(j) : InLocal(j, d)

\* What was retrieved is a version.
Versions ==
  \A j \in Job, d \in Device : dev[j][d] \in {"retrieved", "written"} => got[j][d] # 0

PInv == Standing /\ Versions /\ FilesKept /\ StagedKept /\ CommittedKept /\ PushedIsKept

\* The jobs go on, without writing a file, staging, committing or pushing.
Onward ==
  /\ UNCHANGED <<dev, got>>
  /\ \A k \in Job :
       /\ outcome'[k] = "none" => outcome[k] = "none"
       /\ outcome'[k] = "pushed" => outcome[k] = "pushed"
       /\ pc'[k] \in {"commit", "push"} => pc'[k] = pc[k]

LEMMA Goes ==
  ASSUME Standing, NEW j \in Job,
         \/ \E l \in {"clone", "pull", "backup"} : Goto(j, l)
         \/ \E o \in Outcome \ {"pushed"} : Finish(j, o)
  PROVE  Onward
<1>1. CASE \E l \in {"clone", "pull", "backup"} : Goto(j, l)
  BY <1>1 DEF Onward, Goto, Standing, TypeOK
<1>2. CASE \E o \in Outcome \ {"pushed"} : Finish(j, o)
  BY <1>2 DEF Onward, Finish, Standing, TypeOK, Outcome
<1> QED
  BY <1>1, <1>2

\* The remote keeps what it has.
LEMMA RemoteGrows ==
  ASSUME Standing, Standing', IsPrefix(remote, remote'), NEW j \in Job, OnRemote(j),
         dev'[j] = dev[j], got'[j] = got[j]
  PROVE  OnRemote(j)'
<1>1. /\ remote \in Seq(Tree) /\ remote' \in Seq(Tree)
      /\ Len(remote) <= Len(remote') /\ \A i \in 1..Len(remote) : remote[i] = remote'[i]
  BY PrefixItems DEF Standing, TypeOK
<1>2. ASSUME NEW i \in DOMAIN remote PROVE i \in DOMAIN remote' /\ remote'[i] = remote[i]
  BY <1>1
<1> QED
  BY <1>2 DEF OnRemote, Written

\* The clone's history keeps what it has, as long as it grows.
LEMMA LocalGrows ==
  ASSUME Standing, Standing', IsPrefix(local, local'), NEW j \in Job, NEW d \in Device,
         InLocal(j, d), got'[j] = got[j]
  PROVE  InLocal(j, d)'
<1>1. /\ local \in Seq(Tree) /\ local' \in Seq(Tree)
      /\ Len(local) <= Len(local') /\ \A i \in 1..Len(local) : local[i] = local'[i]
  BY PrefixItems DEF Standing, TypeOK
<1>2. ASSUME NEW i \in DOMAIN local PROVE i \in DOMAIN local' /\ local'[i] = local[i]
  BY <1>1
<1> QED
  BY <1>2 DEF InLocal

\* Removing the clone disturbs every job that has written.
LEMMA EmptiedP ==
  ASSUME PInv, Standing', Onward, UNCHANGED remote,
         NEW c \in {"absent", "partial"}, NEW a, Emptied(c, a)
  PROVE  PInv'
<1> USE DEF PInv, Onward, Standing
<1>1. \A j \in Job : j \notin disturbed' =>
        j \notin disturbed /\ (outcome'[j] = "none" => Written(j) = {})
  BY DEF Emptied, UnderWay
<1>2. Versions' /\ PushedIsKept'
  BY <1>1 DEF Versions, PushedIsKept, OnRemote, Written
<1>3. FilesKept'
  BY <1>1 DEF FilesKept, Written
<1>4. ASSUME NEW j \in Job, pc'[j] \in {"commit", "push"}, j \notin disturbed' PROVE FALSE
  <2>1. pc[j] = pc'[j] /\ outcome'[j] = "none" /\ Written(j) = {} /\ j \notin disturbed
    BY <1>1, <1>4
  <2> QED
    BY <1>4, <2>1 DEF StagedKept, CommittedKept
<1> QED
  BY <1>2, <1>3, <1>4 DEF StagedKept, CommittedKept

\* A clone that is checked out keeps the files it finds.
LEMMA CheckedOutP ==
  ASSUME PInv, Standing', Onward, UNCHANGED <<remote, disturbed>>, cloner # Nobody,
         CheckedOut
  PROVE  PInv'
<1> USE DEF PInv, Onward, Standing
<1>1. local = <<>> /\ DOMAIN local = {}
  BY DEF TypeOK
<1>2. \A d \in Device : files[d] # 0 => files'[d] = files[d]
  BY DEF CheckedOut, Path
<1>3. Versions' /\ PushedIsKept'
  BY DEF Versions, PushedIsKept, OnRemote, Written
<1>4. FilesKept'
  BY <1>1, <1>2 DEF FilesKept, InLocal
<1>5. StagedKept' /\ CommittedKept'
  BY DEF StagedKept, CommittedKept, Unborn
<1> QED
  BY <1>3, <1>4, <1>5

\* A pull replaces a file only by a later commit over one that is committed.
LEMMA PulledP ==
  ASSUME PInv, Standing', Onward, UNCHANGED <<remote, disturbed>>, Pulled
  PROVE  PInv'
<1> USE DEF PInv, Onward, Standing
<1>1. IsPrefix(local, local') /\ (clone = "valid" \/ Unborn) /\ clone' = "valid"
  BY DEF Pulled
<1>2. \A j \in Job, d \in Device : InLocal(j, d) => InLocal(j, d)'
  BY <1>1, LocalGrows
<1>3. \A j \in Job, d \in Device : dev[j][d] = "written" /\ Tip[d] = got[j][d] => InLocal(j, d)
  <2>1. CASE Unborn
    BY <2>1 DEF Versions, Tip, Blank, Path
  <2>2. CASE ~Unborn
    <3>1. Len(local) \in DOMAIN local /\ Tip = local[Len(local)]
      BY <1>1, <2>2, LastItem DEF TypeOK, Tip
    <3> QED
      BY <3>1 DEF InLocal
  <2> QED
    BY <2>1, <2>2
<1>4. \A d \in Device : /\ files'[d] = files[d] \/ files[d] = Tip[d]
                        /\ index'[d] = index[d] \/ index[d] = Tip[d]
  BY DEF Pulled, Merge, Path
<1>5. Versions' /\ PushedIsKept'
  BY DEF Versions, PushedIsKept, OnRemote, Written
<1>6. FilesKept'
  BY <1>2, <1>3, <1>4 DEF FilesKept
<1>7. StagedKept' /\ CommittedKept'
  BY <1>1, <1>2, <1>3, <1>4 DEF StagedKept, CommittedKept, Written
<1> QED
  BY <1>5, <1>6, <1>7

\* Steps that leave the clone alone.
LEMMA QuietP ==
  ASSUME PInv, Standing', Onward, UNCHANGED <<clone, local, index, files, disturbed>>,
         cloner = Nobody => cloner' = Nobody, IsPrefix(remote, remote')
  PROVE  PInv'
<1> USE DEF PInv, Onward
<1>1. PushedIsKept'
  BY RemoteGrows DEF PushedIsKept
<1>2. Versions' /\ FilesKept'
  BY DEF Versions, FilesKept, InLocal
<1>3. StagedKept' /\ CommittedKept'
  BY DEF StagedKept, CommittedKept, Written, InLocal, Unborn
<1> QED
  BY <1>1, <1>2, <1>3

\* A device's file is written, by a job that succeeds with it or fails after all:
\* jobs that wrote another version are disturbed.
LEMMA WriteFileP ==
  ASSUME PInv, Standing', NEW j \in Job, NEW d \in Device, WriteFile(j, d),
         UNCHANGED <<remote, clone, cloner, local, index, pc, outcome>>,
         pc[j] = "backup", dev[j][d] = "retrieved",
         \A k \in Job, e \in Device :
           ~(k = j /\ e = d) => dev'[k][e] = dev[k][e] /\ got'[k][e] = got[k][e],
         dev'[j][d] = "failed" \/ (dev'[j][d] = "written" /\ got'[j][d] = got[j][d])
  PROVE  PInv'
<1> USE DEF PInv, Standing
<1>1. /\ d \in Path /\ files'[d] = got[j][d] /\ got[j][d] # 0
      /\ \A e \in Device : e # d => files'[e] = files[e]
      /\ outcome[j] = "none"
  BY DEF WriteFile, Versions, TypeOK, Path, Tree
<1>2. \A k \in Job, e \in Device : dev'[k][e] = "written" =>
        /\ got'[k][e] = got[k][e]
        /\ dev[k][e] = "written" \/ (k = j /\ e = d)
  OBVIOUS
<1>3. \A k \in Job : k \notin disturbed' => k \notin disturbed
  BY DEF WriteFile
<1>4. \A k \in Job : k \notin disturbed' /\ outcome[k] = "none" /\ dev[k][d] = "written"
        => got[k][d] = got[j][d]
  BY DEF WriteFile, UnderWay, Written
<1>5. \A k \in Job : k # j => Written(k)' = Written(k)
  BY DEF Written
<1>6. Versions'
  BY <1>1 DEF Versions
<1>7. PushedIsKept'
  BY <1>1, <1>2, <1>3, <1>5 DEF PushedIsKept, OnRemote, Written
<1>8. FilesKept'
  <2> SUFFICES ASSUME NEW k \in Job, NEW e \in Device, outcome[k] = "none",
                      k \notin disturbed', dev'[k][e] = "written"
               PROVE  got[k][e] # 0 /\ (files'[e] = got[k][e] \/ InLocal(k, e))
    BY <1>2 DEF FilesKept, InLocal
  <2>1. CASE e # d
    BY <1>1, <1>2, <1>3, <2>1 DEF FilesKept
  <2>2. CASE e = d /\ k = j
    BY <1>1, <2>2
  <2>3. CASE e = d /\ k # j
    BY <1>1, <1>2, <1>4, <2>3
  <2> QED
    BY <2>1, <2>2, <2>3
<1>9. StagedKept' /\ CommittedKept'
  BY <1>2, <1>3, <1>5 DEF StagedKept, CommittedKept, InLocal, Written, Unborn
<1> QED
  BY <1>6, <1>7, <1>8, <1>9

LEMMA WriteP ==
  ASSUME PInv, Standing', NEW j \in Job, NEW d \in Device, Write(j, d)
  PROVE  PInv'
<1>1. /\ WriteFile(j, d)
      /\ UNCHANGED <<remote, clone, cloner, local, index, pc, outcome>>
      /\ pc[j] = "backup" /\ dev[j][d] = "retrieved"
  BY DEF Write
<1>2. /\ \A k \in Job, e \in Device :
           ~(k = j /\ e = d) => dev'[k][e] = dev[k][e] /\ got'[k][e] = got[k][e]
      /\ dev'[j][d] = "written" /\ got'[j][d] = got[j][d]
  BY DEF Write, SetDevice, PInv, Standing, TypeOK
<1> QED
  BY <1>1, <1>2, WriteFileP

\* A version is retrieved, or given up before its file is written.
LEMMA RetrieveP ==
  ASSUME PInv, Standing', NEW j \in Job, NEW d \in Device,
         Retrieve(j, d) \/ (DeviceFails(j, d) /\ UNCHANGED <<files, disturbed>>)
  PROVE  PInv'
<1> USE DEF PInv, Standing
<1>1. /\ UNCHANGED <<config, remote, cloneVars, pc, outcome, disturbed>>
      /\ pc[j] = "backup" /\ outcome[j] = "none"
      /\ dev[j][d] \in {"todo", "retrieved"}
  BY DEF Retrieve, DeviceFails, TypeOK, cloneVars
<1>2. /\ \A k \in Job, e \in Device :
           ~(k = j /\ e = d) => dev'[k][e] = dev[k][e] /\ got'[k][e] = got[k][e]
      /\ dev'[j][d] # "written" /\ (dev'[j][d] = "retrieved" => got'[j][d] # 0)
  <2>1. config[d] # 0
    BY BackupAssumption DEF TypeOK
  <2> QED
    <3>1. CASE Retrieve(j, d)
      BY <2>1, <3>1 DEF Retrieve, SetDevice, TypeOK
    <3>2. CASE DeviceFails(j, d)
      BY <3>2 DEF DeviceFails, SetDevice, TypeOK
    <3> QED
      BY <3>1, <3>2
<1>3. Versions'
  BY <1>2 DEF Versions
<1>4. \A k \in Job, e \in Device : dev'[k][e] = "written" =>
        dev[k][e] = "written" /\ got'[k][e] = got[k][e]
  BY <1>2
<1>5. \A k \in Job : Written(k)' = Written(k)
  BY <1>1, <1>2 DEF Written
<1>6. FilesKept'
  BY <1>1, <1>4 DEF FilesKept, InLocal, cloneVars
<1>7. StagedKept' /\ CommittedKept' /\ PushedIsKept'
  BY <1>1, <1>4, <1>5 DEF StagedKept, CommittedKept, PushedIsKept, OnRemote, InLocal,
     Written, Unborn, cloneVars
<1> QED
  BY <1>3, <1>6, <1>7

LEMMA DeviceFailsP ==
  ASSUME PInv, Standing', NEW j \in Job, NEW d \in Device, DeviceFails(j, d)
  PROVE  PInv'
<1>1. CASE UNCHANGED <<files, disturbed>>
  BY <1>1, RetrieveP
<1>2. CASE dev[j][d] = "retrieved" /\ WriteFile(j, d)
  <2>1. /\ UNCHANGED <<remote, clone, cloner, local, index, pc, outcome>>
        /\ pc[j] = "backup"
    BY DEF DeviceFails
  <2>2. /\ \A k \in Job, e \in Device :
             ~(k = j /\ e = d) => dev'[k][e] = dev[k][e] /\ got'[k][e] = got[k][e]
        /\ dev'[j][d] = "failed"
    BY DEF DeviceFails, SetDevice, PInv, Standing, TypeOK
  <2> QED
    BY <1>2, <2>1, <2>2, WriteFileP
<1> QED
  BY <1>1, <1>2 DEF DeviceFails

\* Everything in the clone is staged.
LEMMA StageP ==
  ASSUME PInv, Standing', NEW j \in Job, Stage(j)
  PROVE  PInv'
<1> USE DEF PInv, Standing
<1>1. /\ UNCHANGED <<remote, clone, cloner, local, files, disturbed, dev, got, outcome>>
      /\ index' = files /\ (clone = "valid" \/ Unborn)
      /\ pc[j] = "backup" /\ outcome[j] = "none" /\ Written(j) # {}
      /\ \A k \in Job : pc'[k] = IF k = j THEN "commit" ELSE pc[k]
  BY DEF Stage, Goto, TypeOK
<1>2. Versions' /\ FilesKept' /\ PushedIsKept'
  BY <1>1 DEF Versions, FilesKept, InLocal, PushedIsKept, OnRemote, Written
<1>3. CommittedKept'
  BY <1>1 DEF CommittedKept, InLocal, Written
<1>4. StagedKept'
  <2> SUFFICES ASSUME NEW k \in Job, pc'[k] = "commit", k \notin disturbed
               PROVE  /\ Written(k) # {}
                      /\ \A d \in Written(k) : files[d] = got[k][d] \/ InLocal(k, d)
    BY <1>1 DEF StagedKept, InLocal, Written, Unborn
  <2>1. outcome[k] = "none" /\ Written(k) # {}
    BY <1>1 DEF StagedKept
  <2> QED
    BY <2>1 DEF FilesKept, Written
<1> QED
  BY <1>2, <1>3, <1>4

\* What is staged enters the history.
LEMMA CommitP ==
  ASSUME PInv, Standing', NEW j \in Job, Commit(j)
  PROVE  PInv'
<1> USE DEF PInv, Standing
<1>1. CASE index = Tip
  <2>1. /\ Finish(j, "unchanged")
        /\ UNCHANGED <<remote, clone, cloner, local, index, files, disturbed>>
    BY <1>1 DEF Commit
  <2>2. Onward
    BY <2>1, Goes DEF Outcome
  <2>3. IsPrefix(remote, remote')
    BY <2>1, PrefixItems DEF TypeOK
  <2> QED
    BY <2>1, <2>2, <2>3, QuietP
<1>2. CASE index # Tip
  <2>1. /\ UNCHANGED <<remote, index, files, disturbed, dev, got, outcome>>
        /\ pc[j] = "commit" /\ clone' = "valid" /\ local' = Append(local, index)
        /\ \A k \in Job : pc'[k] = IF k = j THEN "push" ELSE pc[k]
    BY <1>2 DEF Commit, Goto, TypeOK
  <2>2. local \in Seq(Tree) /\ index \in Tree
    BY DEF TypeOK
  <2>3. IsPrefix(local, local')
    BY <2>1, <2>2, AppendExtends
  <2>4. \A k \in Job, d \in Device : InLocal(k, d) => InLocal(k, d)'
    BY <2>1, <2>3, LocalGrows
  <2>5. \A d \in Device : index[d] = got[j][d] => InLocal(j, d)'
    <3>1. Len(local) + 1 \in DOMAIN local' /\ local'[Len(local) + 1] = index
      BY <2>1, <2>2
    <3> QED
      BY <2>1, <3>1 DEF InLocal
  <2>6. Versions' /\ FilesKept' /\ PushedIsKept'
    BY <2>1, <2>4 DEF Versions, FilesKept, PushedIsKept, OnRemote, Written
  <2>7. StagedKept'
    BY <2>1, <2>4 DEF StagedKept, Written
  <2>8. CommittedKept'
    BY <2>1, <2>4, <2>5 DEF StagedKept, CommittedKept, Written
  <2> QED
    BY <2>6, <2>7, <2>8
<1> QED
  BY <1>1, <1>2

\* What is in the clone's history is on the remote after a push.
LEMMA PushP ==
  ASSUME PInv, Standing', NEW j \in Job, Push(j)
  PROVE  PInv'
<1> USE DEF PInv, Standing
<1>1. /\ UNCHANGED <<clone, cloner, local, index, files, disturbed, dev, got>>
      /\ remote' = local /\ IsPrefix(remote, remote') /\ pc[j] = "push"
      /\ \A k \in Job : /\ pc'[k] = IF k = j THEN "done" ELSE pc[k]
                        /\ outcome'[k] = IF k = j THEN "pushed" ELSE outcome[k]
  BY DEF Push, Finish, TypeOK, cloneVars
<1>2. Versions' /\ FilesKept'
  BY <1>1 DEF Versions, FilesKept, InLocal
<1>3. StagedKept' /\ CommittedKept'
  BY <1>1 DEF StagedKept, CommittedKept, Written, InLocal, Unborn
<1>4. j \notin disturbed => OnRemote(j)'
  BY <1>1 DEF CommittedKept, OnRemote, InLocal, Written
<1>5. PushedIsKept'
  BY <1>1, <1>4, RemoteGrows DEF PushedIsKept
<1> QED
  BY <1>2, <1>3, <1>5

LEMMA NextP == PInv /\ Standing' /\ [Next]_vars => PInv'
<1> SUFFICES ASSUME PInv, Standing', [Next]_vars PROVE PInv'
  OBVIOUS
<1> USE DEF cloneVars, jobVars
<1>1. IsPrefix(remote, remote)
  BY PrefixItems DEF PInv, Standing, TypeOK
<1>2. UNCHANGED jobVars => Onward
  BY DEF Onward
<1>3. CASE UNCHANGED vars
  BY <1>1, <1>2, <1>3, QuietP DEF vars
<1>4. CASE World
  <2>1. ASSUME OthersPush PROVE IsPrefix(remote, remote')
    BY <2>1, OthersExtend DEF PInv, Standing
  <2> QED
    BY <1>1, <1>2, <1>4, <2>1, QuietP DEF World, OthersPush, DeviceChanges
<1>5. CASE Operates
  <2>1. Operator # Nobody
    BY BackupAssumption
  <2> QED
    BY <1>2, <1>5, <2>1, EmptiedP, CheckedOutP, PulledP
    DEF Operates, Sync, RemoveAndSync, OperatorCloned, OperatorCloneFails
<1>6. ASSUME NEW j \in Job, Works(j) PROVE PInv'
  <2>1. CASE open_or_clone(j)
    <3>1. Onward
      BY <2>1, Goes DEF open_or_clone, PInv, Outcome
    <3> QED
      BY <1>1, <2>1, <3>1, QuietP, EmptiedP DEF open_or_clone
  <2>2. CASE Cloned(j)
    <3>1. Onward
      BY <2>2, Goes DEF Cloned, PInv
    <3>2. cloner # Nobody
      BY <2>2, BackupAssumption DEF Cloned
    <3> QED
      BY <2>2, <3>1, <3>2, CheckedOutP DEF Cloned
  <2>3. CASE CloneFails(j)
    <3>1. Onward
      BY <2>3, Goes DEF CloneFails, PInv, Outcome
    <3> QED
      BY <2>3, <3>1, EmptiedP DEF CloneFails
  <2>4. CASE pull(j)
    <3>1. Onward
      BY <2>4, Goes DEF pull, PInv
    <3> QED
      BY <1>1, <2>4, <3>1, QuietP, PulledP DEF pull
  <2>5. CASE NothingBackedUp(j) \/ CommitFails(j)
    <3>1. Onward
      BY <2>5, Goes DEF NothingBackedUp, CommitFails, PInv, Outcome
    <3> QED
      BY <1>1, <2>5, <3>1, QuietP DEF NothingBackedUp, CommitFails
  <2>6. CASE PushFails(j)
    <3>1. Onward
      BY <2>6, Goes DEF PushFails, PInv, Outcome
    <3> QED
      BY <1>1, <2>6, <3>1, QuietP DEF PushFails
  <2>7. CASE Die(j)
    <3>1. Onward
      BY <2>7, Goes DEF Die, PInv, Outcome
    <3> QED
      BY <1>1, <2>7, <3>1, QuietP, EmptiedP DEF Die
  <2> QED
    BY <1>6, <2>1, <2>2, <2>3, <2>4, <2>5, <2>6, <2>7, WriteP, RetrieveP, DeviceFailsP,
       StageP, CommitP, PushP DEF Works
<1> QED
  BY <1>3, <1>4, <1>5, <1>6 DEF Next

LEMMA PInvHolds == Spec => []PInv
<1>1. Init => Versions /\ FilesKept /\ StagedKept /\ CommittedKept /\ PushedIsKept
  BY DEF Init, Versions, FilesKept, StagedKept, CommittedKept, PushedIsKept
<1>2. Init /\ Standing => PInv
  BY <1>1 DEF PInv
<1> QED
  BY <1>2, NextP, StandingHolds, PTL DEF Spec

\* What a backup reports as pushed is on the remote, unless its clone was replaced
\* or its files overwritten: whoever else stages, commits, pulls and pushes there.
THEOREM PushKeeps == Spec => []PushedIsKept
<1>1. PInv => PushedIsKept
  BY DEF PInv
<1> QED
  BY <1>1, PInvHolds, PTL

----------------------------------------------------------------------------
(* A success is explained. *)

\* No job's commits are lost to the others: as yet every push reached the remote
\* and every commit is still in the clone.
NoneLost == \A k \in Job : k \notin disturbed /\ outcome[k] \notin {"rejected", "died"}

Ahead == \E k \in Job : pc[k] = "push"

\* What the clone has and the remote has not is about to be pushed.
LocalAccounted == clone = "valid" => IsPrefix(local, remote) \/ Ahead

\* So is what a job found committed already.
UnchangedAccounted ==
  \A j \in Job : outcome[j] = "unchanged" =>
    OnRemote(j) \/ (Ahead /\ \A d \in Written(j) : InLocal(j, d))

EmptyHasNothing == \A j \in Job : outcome[j] = "empty" => Written(j) = {}

QInv ==
  /\ PInv
  /\ EmptyHasNothing
  /\ NoneLost => LocalAccounted /\ UnchangedAccounted

\* A report stands, and so does what it is about.
LEMMA ReportStands ==
  ASSUME Standing, Next, NEW j \in Job, outcome[j] # "none"
  PROVE  outcome'[j] = outcome[j] /\ dev'[j] = dev[j] /\ got'[j] = got[j]
<1> USE DEF jobVars
<1>1. pc[j] = "done"
  BY DEF Standing
<1>2. ASSUME NEW k \in Job, NEW o, pc[k] # "done", Finish(k, o)
      PROVE  outcome'[j] = outcome[j] /\ dev'[j] = dev[j] /\ got'[j] = got[j]
  BY <1>1, <1>2 DEF Finish, Standing, TypeOK
<1>3. ASSUME NEW k \in Job, Works(k)
      PROVE  outcome'[j] = outcome[j] /\ dev'[j] = dev[j] /\ got'[j] = got[j]
  <2>1. CASE pc[k] = "done"
    BY <1>3, <2>1
    DEF Works, open_or_clone, Cloned, CloneFails, pull, Retrieve, Write, DeviceFails,
        NothingBackedUp, Stage, CommitFails, Commit, Push, PushFails, Die, Standing
  <2>2. CASE \E d \in Device : Retrieve(k, d) \/ Write(k, d) \/ DeviceFails(k, d)
    BY <1>1, <2>2 DEF Retrieve, Write, DeviceFails, SetDevice, TypeOK, Standing
  <2> QED
    BY <1>2, <1>3, <2>1, <2>2
    DEF Works, open_or_clone, Cloned, CloneFails, pull, NothingBackedUp, Stage,
        CommitFails, Commit, Push, PushFails, Die, Goto
<1> QED
  BY <1>3 DEF Next, World, Operates, OthersPush, DeviceChanges, Sync, RemoveAndSync,
     OperatorCloned, OperatorCloneFails

\* What is lost stays lost.
LEMMA LostStays ==
  ASSUME Standing, Next, NoneLost'
  PROVE  NoneLost
<1>1. disturbed \subseteq disturbed'
  BY DEF Next, World, Operates, Works, OthersPush, DeviceChanges, Sync, RemoveAndSync,
     OperatorCloned, OperatorCloneFails, open_or_clone, Cloned, CloneFails, pull,
     Retrieve, Write, DeviceFails, NothingBackedUp, Stage, CommitFails, Commit, Push,
     PushFails, Die, Emptied, WriteFile
<1> QED
  BY <1>1, ReportStands DEF NoneLost

\* While nothing is lost, a job that is about to push stays so until it pushes.
LEMMA AheadStays ==
  ASSUME Standing, Next, NoneLost', NEW k \in Job, pc[k] = "push"
  PROVE  pc'[k] = "push" \/ Push(k)
<1> USE DEF jobVars
<1>1. ASSUME NEW j \in Job, Works(j) PROVE pc'[k] = "push" \/ Push(k)
  <2>1. ASSUME NEW l, Goto(j, l), j # k PROVE pc'[k] = "push"
    BY <2>1 DEF Goto, Standing, TypeOK
  <2>2. ASSUME NEW o, Finish(j, o), j # k PROVE pc'[k] = "push"
    BY <2>2 DEF Finish, Standing, TypeOK
  <2>3. CASE j = k
    <3>1. ~PushFails(k) /\ ~Die(k)
      BY DEF NoneLost, PushFails, Die, Finish, Standing, TypeOK
    <3> QED
      BY <1>1, <2>3, <3>1
      DEF Works, open_or_clone, Cloned, CloneFails, pull, Retrieve, Write, DeviceFails,
          NothingBackedUp, Stage, CommitFails, Commit
  <2> QED
    BY <1>1, <2>1, <2>2, <2>3
    DEF Works, open_or_clone, Cloned, CloneFails, pull, Retrieve, Write, DeviceFails,
        NothingBackedUp, Stage, CommitFails, Commit, Push, PushFails, Die
<1> QED
  BY <1>1 DEF Next, World, Operates, OthersPush, DeviceChanges, Sync, RemoveAndSync,
     OperatorCloned, OperatorCloneFails
\* What a step that neither commits nor pushes does to the clone and the remote.
LEMMA CloneStep ==
  ASSUME Standing, Next, NoneLost', \A j \in Job : ~Push(j) /\ ~Commit(j)
  PROVE  /\ IsPrefix(remote, remote')
         /\ \A j \in Job : outcome'[j] = "unchanged" => outcome[j] = "unchanged"
         /\ \/ UNCHANGED <<clone, local>>
            \/ UNCHANGED remote /\ clone = "valid" /\ local' = remote /\ IsPrefix(local, local')
            \/ UNCHANGED remote /\ clone # "valid" /\ local' = remote
            \/ UNCHANGED remote /\ clone' # "valid" /\ \E c, a : Emptied(c, a)
<1> USE DEF cloneVars, jobVars
<1>1. \A j \in Job : ~PushFails(j)
  BY DEF NoneLost, PushFails, Finish, Standing, TypeOK
<1>2. IsPrefix(remote, remote')
  <2>1. IsPrefix(remote, remote)
    BY PrefixItems DEF Standing, TypeOK
  <2>2. OthersPush \/ UNCHANGED remote
    BY <1>1 DEF Next, World, Operates, Works, DeviceChanges, Sync, RemoveAndSync,
       OperatorCloned, OperatorCloneFails, open_or_clone, Cloned, CloneFails, pull,
       Retrieve, Write, DeviceFails, NothingBackedUp, Stage, CommitFails, Die
  <2> QED
    BY <2>1, <2>2, OthersExtend DEF Standing
<1>3. ASSUME NEW j \in Job, outcome'[j] = "unchanged" PROVE outcome[j] = "unchanged"
  <2>1. ASSUME NEW k \in Job, NEW o, Finish(k, o), o # "unchanged" PROVE outcome[j] = "unchanged"
    BY <1>3, <2>1 DEF Finish, Standing, TypeOK
  <2> QED
    BY <1>1, <1>3, <2>1
    DEF Next, World, Operates, Works, OthersPush, DeviceChanges, Sync, RemoveAndSync,
        OperatorCloned, OperatorCloneFails, open_or_clone, Cloned, CloneFails, pull,
        Retrieve, Write, DeviceFails, NothingBackedUp, Stage, CommitFails, Die, Goto
<1>4. cloner # Nobody => clone = "partial"
  BY DEF Standing
<1>5. /\ Pulled => /\ clone = "valid" \/ Unborn
                   /\ local' = remote /\ IsPrefix(local, local')
      /\ CheckedOut => local' = remote
      /\ Emptied("partial", Operator) \/ Emptied("absent", Nobody) => clone' # "valid"
  BY DEF Pulled, CheckedOut, Emptied
<1>6. \A j \in Job : Emptied("partial", j) => clone' # "valid"
  BY DEF Emptied
<1> QED
  BY <1>1, <1>2, <1>3, <1>4, <1>5, <1>6, BackupAssumption
  DEF Next, World, Operates, Works, OthersPush, DeviceChanges, Sync, RemoveAndSync,
      OperatorCloned, OperatorCloneFails, open_or_clone, Cloned, CloneFails, pull,
      Retrieve, Write, DeviceFails, NothingBackedUp, Stage, CommitFails, Die

\* Nothing is about to be pushed where the clone is emptied with nothing lost.
LEMMA EmptiedNoneAhead ==
  ASSUME PInv, NoneLost, NoneLost', NEW c, NEW a, Emptied(c, a)
  PROVE  ~Ahead
<1> SUFFICES ASSUME NEW k \in Job, pc[k] = "push" PROVE FALSE
  BY DEF Ahead
<1>1. UnderWay(k)
  BY DEF PInv, CommittedKept, Standing, NoneLost, UnderWay
<1> QED
  BY <1>1 DEF Emptied, NoneLost
\* While nothing is lost, everything ahead of the remote stays accounted for.
LEMMA StepAccounted ==
  ASSUME PInv, PInv', Next, NoneLost, NoneLost', LocalAccounted, UnchangedAccounted
  PROVE  LocalAccounted' /\ UnchangedAccounted'
<1> USE DEF PInv
<1>1. /\ remote \in Seq(Tree) /\ remote' \in Seq(Tree)
      /\ local \in Seq(Tree) /\ local' \in Seq(Tree)
  BY DEF Standing, TypeOK
<1>2. IsPrefix(local', local') /\ IsPrefix(remote', remote')
  BY <1>1, PrefixItems
<1>3. ASSUME NEW j \in Job, outcome[j] = "unchanged", OnRemote(j), IsPrefix(remote, remote')
      PROVE  OnRemote(j)'
  BY <1>3, ReportStands, RemoteGrows
<1>4. ASSUME NEW j \in Job, outcome[j] = "unchanged", IsPrefix(local, local'),
             \A d \in Written(j) : InLocal(j, d)
      PROVE  \A d \in Written(j)' : InLocal(j, d)'
  BY <1>4, ReportStands, LocalGrows DEF Written
<1>5. CASE \E k \in Job : Push(k)
  <2>1. PICK k \in Job : Push(k)
    BY <1>5
  <2>2. /\ remote' = local /\ local' = local /\ IsPrefix(remote, remote')
        /\ \A j \in Job : outcome'[j] = "unchanged" => outcome[j] = "unchanged"
    BY <2>1 DEF Push, cloneVars, Finish, Standing, TypeOK
  <2>3. LocalAccounted'
    BY <1>2, <2>2 DEF LocalAccounted
  <2>4. ASSUME NEW j \in Job, outcome[j] = "unchanged", \A d \in Written(j) : InLocal(j, d)
        PROVE  OnRemote(j)'
    BY <2>2, <2>4, ReportStands DEF OnRemote, InLocal, Written
  <2> QED
    BY <1>3, <2>2, <2>3, <2>4 DEF UnchangedAccounted
<1>6. CASE \E k \in Job : Commit(k)
  <2>1. PICK k \in Job : Commit(k)
    BY <1>6
  <2>2. /\ UNCHANGED <<remote, dev, got>> /\ pc[k] = "commit"
        /\ clone = "valid" \/ Unborn
        /\ Written(k) # {} /\ \A d \in Written(k) : index[d] = got[k][d] \/ InLocal(k, d)
    BY <2>1 DEF Commit, Goto, Finish, StagedKept, NoneLost
  <2>3. IsPrefix(remote, remote')
    BY <1>2, <2>2
  <2>4. CASE index = Tip
    <3> clone = "valid"
      <4>1. ASSUME Unborn PROVE FALSE
        <5>1. local = <<>> /\ DOMAIN local = {}
          BY <4>1 DEF Unborn, Standing, TypeOK
        <5>2. \A d \in Written(k) : got[k][d] # 0 /\ Tip[d] = 0
          BY <4>1 DEF Versions, Written, Tip, Blank, Path
        <5> QED
          BY <2>2, <2>4, <5>1, <5>2 DEF InLocal
      <4> QED
        BY <2>2, <4>1
    <3>1. /\ UNCHANGED <<clone, local>>
          /\ \A j \in Job : outcome'[j] = "unchanged" => j = k \/ outcome[j] = "unchanged"
          /\ \A j \in Job : j # k => pc'[j] = pc[j]
      BY <2>1, <2>4 DEF Commit, Finish, Standing, TypeOK
    <3>2. Ahead => Ahead'
      BY <2>2, <3>1 DEF Ahead
    <3>3. \A d \in Written(k) : InLocal(k, d)
      <4>1. Len(local) \in DOMAIN local /\ Tip = local[Len(local)]
        BY LastItem DEF Standing, TypeOK, Tip, Unborn
      <4> QED
        BY <2>2, <2>4, <4>1 DEF InLocal
    <3>4. OnRemote(k) \/ Ahead
      <4>1. CASE IsPrefix(local, remote)
        <5>1. \A i \in DOMAIN local : i \in DOMAIN remote /\ remote[i] = local[i]
          <6>1. Len(local) <= Len(remote) /\ \A i \in 1..Len(local) : local[i] = remote[i]
            BY <1>1, <4>1, PrefixItems
          <6> QED
            BY <1>1, <6>1
        <5> QED
          BY <3>3, <5>1 DEF InLocal, OnRemote
      <4> QED
        BY <2>2, <4>1 DEF LocalAccounted
    <3>5. (OnRemote(k) => OnRemote(k)') /\ \A d \in Written(k)' : InLocal(k, d)'
      BY <2>2, <3>1, <3>3 DEF OnRemote, InLocal, Written
    <3>6. LocalAccounted'
      BY <2>2, <3>1, <3>2 DEF LocalAccounted
    <3>7. IsPrefix(local, local')
      BY <1>2, <3>1
    <3> QED
      BY <1>3, <1>4, <2>3, <3>1, <3>2, <3>4, <3>5, <3>6, <3>7 DEF UnchangedAccounted
  <2>5. CASE index # Tip
    <3>1. /\ UNCHANGED outcome /\ pc'[k] = "push" /\ local' = Append(local, index)
      BY <2>1, <2>5 DEF Commit, Goto, Standing, TypeOK
    <3>2. Ahead' /\ IsPrefix(local, local')
      BY <1>1, <3>1, AppendExtends DEF Ahead, Standing, TypeOK
    <3> QED
      BY <1>3, <1>4, <2>3, <3>1, <3>2 DEF LocalAccounted, UnchangedAccounted
  <2> QED
    BY <2>4, <2>5
<1>7. CASE \A k \in Job : ~Push(k) /\ ~Commit(k)
  <2>1. /\ IsPrefix(remote, remote')
        /\ \A j \in Job : outcome'[j] = "unchanged" => outcome[j] = "unchanged"
    BY <1>7, CloneStep
  <2>2. Ahead => Ahead' /\ clone = "valid"
    BY <1>7, AheadStays DEF Ahead, CommittedKept, NoneLost
  <2>3. CASE UNCHANGED <<clone, local>>
    <3>1. IsPrefix(local, remote) => IsPrefix(local, remote')
      BY <1>1, <2>1, PrefixTrans
    <3>2. IsPrefix(local, local')
      BY <1>2, <2>3
    <3> QED
      BY <1>3, <1>4, <2>1, <2>2, <2>3, <3>1, <3>2 DEF LocalAccounted, UnchangedAccounted
  <2>4. CASE UNCHANGED remote /\ local' = remote /\ (clone = "valid" => IsPrefix(local, local'))
    BY <1>2, <1>3, <1>4, <2>1, <2>2, <2>4 DEF LocalAccounted, UnchangedAccounted
  <2>5. CASE clone' # "valid" /\ \E c, a : Emptied(c, a)
    BY <1>3, <2>1, <2>5, EmptiedNoneAhead DEF LocalAccounted, UnchangedAccounted
  <2> QED
    BY <1>7, <2>3, <2>4, <2>5, CloneStep
<1> QED
  BY <1>5, <1>6, <1>7

LEMMA NextQ == QInv /\ PInv' /\ [Next]_vars => QInv'
<1> SUFFICES ASSUME QInv, PInv', [Next]_vars PROVE QInv'
  OBVIOUS
<1> USE DEF PInv
<1>1. CASE UNCHANGED vars
  BY <1>1 DEF QInv, EmptyHasNothing, NoneLost, LocalAccounted, UnchangedAccounted, Ahead,
     OnRemote, InLocal, Written, vars, cloneVars, jobVars
<1>2. CASE Next
  <2>1. EmptyHasNothing'
    <3> SUFFICES ASSUME NEW j \in Job, outcome'[j] = "empty" PROVE Written(j)' = {}
      BY DEF EmptyHasNothing
    <3>1. CASE outcome[j] = "none"
      <4>1. ASSUME NEW k \in Job, NEW o, Finish(k, o), o # "empty" PROVE FALSE
        BY <3>1, <4>1 DEF Finish, QInv, Standing, TypeOK
      <4>2. ASSUME UNCHANGED outcome PROVE FALSE
        BY <3>1, <4>2
      <4>3. \E k \in Job : NothingBackedUp(k)
        BY <1>2, <4>1, <4>2
        DEF Next, World, Operates, Works, OthersPush, DeviceChanges, Sync, RemoveAndSync,
            OperatorCloned, OperatorCloneFails, open_or_clone, Cloned, CloneFails, pull,
            Retrieve, Write, DeviceFails, Stage, CommitFails, Commit, Push, PushFails,
            Die, Goto, jobVars
      <4>4. NothingBackedUp(j)
        BY <3>1, <4>3 DEF NothingBackedUp, Finish, QInv, Standing, TypeOK
      <4> QED
        BY <4>4 DEF NothingBackedUp, Finish, Written
    <3>2. CASE outcome[j] # "none"
      BY <1>2, <3>2, ReportStands DEF QInv, EmptyHasNothing, Written
    <3> QED
      BY <3>1, <3>2
  <2>2. ASSUME NoneLost' PROVE LocalAccounted' /\ UnchangedAccounted'
    <3>1. NoneLost
      BY <1>2, <2>2, LostStays DEF QInv
    <3> QED
      BY <1>2, <2>2, <3>1, StepAccounted DEF QInv
  <2> QED
    BY <2>1, <2>2 DEF QInv
<1> QED
  BY <1>1, <1>2

\* Why a backup that succeeded may have left nothing on the remote: it was
\* disturbed, its chord keeps quiet about the commit or the push, or it found its
\* files committed by another job whose push is to come or never came through.
THEOREM SuccessIsExplained == Spec => []SuccessExplained
<1>1. Init /\ PInv => QInv
  <2> SUFFICES ASSUME Init, PInv PROVE QInv
    OBVIOUS
  <2>1. IsPrefix(remote, remote)
    BY PrefixItems DEF PInv, Standing, TypeOK
  <2> QED
    BY <2>1 DEF Init, QInv, EmptyHasNothing, LocalAccounted, UnchangedAccounted
<1>2. QInv => SuccessExplained
  <2> SUFFICES ASSUME QInv, NEW j \in Job, Succeeded(j), ~OnRemote(j), j \notin disturbed
               PROVE  \/ j \in Parallel /\ outcome[j] \in {"rejected", "uncommitted"}
                      \/ outcome[j] = "unchanged" /\ \E k \in Job \ {j} : Unpushed(k)
    BY DEF SuccessExplained
  <2>1. outcome[j] # "pushed"
    BY DEF QInv, PInv, PushedIsKept
  <2>2. outcome[j] # "empty"
    BY DEF QInv, EmptyHasNothing, OnRemote
  <2>3. CASE outcome[j] = "unchanged"
    <3>1. ASSUME ~NoneLost PROVE \E k \in Job \ {j} : Unpushed(k)
      BY <2>3, <3>1 DEF NoneLost, Unpushed
    <3>2. ASSUME NoneLost PROVE \E k \in Job \ {j} : Unpushed(k)
      BY <2>3, <3>2 DEF QInv, PInv, Standing, UnchangedAccounted, Ahead, Unpushed
    <3> QED
      BY <2>3, <3>1, <3>2
  <2> QED
    BY <2>1, <2>2, <2>3 DEF Succeeded, QInv, PInv, Standing, TypeOK, Outcome
<1> QED
  BY <1>1, <1>2, NextQ, PInvHolds, PTL DEF Spec
=============================================================================
