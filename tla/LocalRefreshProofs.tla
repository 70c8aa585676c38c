------------------------- MODULE LocalRefreshProofs -------------------------
(***************************************************************************)
(* Theorems of LocalRefresh, for any sets of posts and workers, any set of *)
(* interruptible and of failing steps and any number of faults; only that  *)
(* saved posts survive needs six steps not to be interrupted (Harmful) and *)
(* five not to fail (HarmfulErrors).                                       *)
(***************************************************************************)
EXTENDS LocalRefresh, TLAPS

USE ConstantsAssumption DEF Promoting

\* What the snapshot and file operators return.
LEMMA OperatorTypes ==
    ASSUME NEW s \in Snapshot
    PROVE  /\ RecordOf(s) \in [Posts -> {"none", "source", "local"}]
           /\ QueueOf(s) \in [Posts -> {"none", "pending", "failed"}]
           /\ PostsOf(s) \in SUBSET Posts
           /\ \A present : FilesOf(s, present) \in SUBSET File
           /\ \A p \in Posts : s[p] \in Status
           /\ WithoutState(s) \in Snapshot
  BY DEF RecordOf, QueueOf, PostsOf, FilesOf, File, Snapshot, Status, WithoutState

LEMMA EmptyType == Empty \in Snapshot
  BY DEF Empty, Snapshot, Status

LEMMA PublicSnapshotType ==
    ASSUME TypeOK
    PROVE  PublicSnapshot \in Snapshot
  BY DEF PublicSnapshot, Snapshot, Status, TypeOK

LEMMA FileTypes ==
    /\ <<"index", NoPost>> \in File
    /\ <<"state", NoPost>> \in File
    /\ \A f \in File : DirectoryOf(f) \in {"media", "record", "root"}
    /\ \A f \in File : f[1] \in {"media", "record"} => f[2] \in Posts
    /\ \A f \in File : f[1] \in {"media", "record", "index", "state"}
    /\ \A f \in File : f = <<f[1], f[2]>>
    /\ \A f \in File : f[1] \in {"index", "state"} => f[2] = NoPost
  BY DEF File, DirectoryOf

\* Leaving refresh_local keeps the worker variables well typed.
LEMMA LeaveType ==
    ASSUME TypeOK, NEW w \in Workers, Leave(w)
    PROVE  /\ lock' \in Workers \cup {NoWorker}
           /\ pc' \in [Workers -> Steps]
           /\ mem' \in [Workers -> Snapshot]
           /\ todo' \in [Workers -> SUBSET Posts]
           /\ pub' \in [Workers -> SUBSET File]
           /\ file' \in [Workers -> File]
           /\ replay' \in [Workers -> BOOLEAN]
  BY EmptyType, FileTypes DEF TypeOK, Leave, Steps

-----------------------------------------------------------------------------
(***************************************************************************)
(* Type correctness                                                        *)
(***************************************************************************)

LEMMA InitType == Init => TypeOK
  BY EmptyType, FileTypes DEF Init, TypeOK, Steps

LEMMA StepType ==
    ASSUME TypeOK, NEW w \in Workers, WorkerStep(w)
    PROVE  TypeOK'
<1> USE DEF Go, publicVars, candidateVars, workVars, historyVars, workerVars
<1>1. CASE Acquire(w)
  BY <1>1 DEF Acquire, TypeOK, Steps
<1>2. CASE Replay(w)
  BY <1>2 DEF Replay, TypeOK, Steps, CandidateLoads
<1>3. CASE ReplayRejected(w)
  BY <1>3, LeaveType DEF ReplayRejected, TypeOK
<1>4. CASE Resume(w)
  BY <1>4 DEF Resume, WorkLoads, TypeOK, Steps
<1>5. CASE LoadPrevious(w)
  <2>1. CASE PublicLoads
    BY <1>5, <2>1, PublicSnapshotType DEF LoadPrevious, TypeOK, Steps
  <2>2. CASE ~PublicLoads
    BY <1>5, <2>2, LeaveType DEF LoadPrevious, TypeOK
  <2>3. QED
    BY <2>1, <2>2
<1>6. CASE Collect(w)
  BY <1>6 DEF Collect, TypeOK, Steps, Snapshot, Status
<1>7. CASE ProvidersExhausted(w)
  BY <1>7, LeaveType DEF ProvidersExhausted, TypeOK, Steps
<1>8. CASE CollectAborted(w)
  BY <1>8, LeaveType DEF CollectAborted, TypeOK
<1>9. CASE SaveFresh(w)
  BY <1>9, OperatorTypes DEF SaveFresh, SaveDone, TypeOK, Steps, ToArchive, PostsOf
<1>10. CASE SaveBackup(w)
  BY <1>10 DEF SaveBackup, TypeOK, Steps
<1>11. CASE SavePromote(w)
  BY <1>11 DEF SavePromote, TypeOK, Steps
<1>12. CASE ArchiveSlot(w)
  BY <1>12 DEF ArchiveSlot, TypeOK, Steps, Snapshot, Status
<1>13. CASE ArchiveDone(w)
  BY <1>13 DEF ArchiveDone, TypeOK, Steps
<1>14. CASE WriteCandidate(w)
  BY <1>14, OperatorTypes DEF WriteCandidate, TypeOK, Steps
<1>15. CASE Stage(w)
  BY <1>15 DEF Stage, TypeOK, Steps
<1>16. CASE Expose(w)
  <2>1. mem[w] \in Snapshot /\ file[w] \in File
    BY DEF TypeOK
  <2>2. /\ media' \in SUBSET Posts
        /\ record' \in [Posts -> {"none", "source", "local"}]
        /\ index' \in SUBSET Posts
        /\ queue' \in [Posts -> {"none", "pending", "failed"}]
    BY <1>16, <2>1, OperatorTypes, FileTypes DEF Expose, TypeOK
  <2>3. pc' \in [Workers -> Steps] /\ pub' \in [Workers -> SUBSET File]
    BY <1>16 DEF Expose, TypeOK, Steps
  <2>4. QED
    BY <1>16, <2>2, <2>3 DEF Expose, TypeOK
<1>17. CASE Unlink(w)
  BY <1>17 DEF Unlink, TypeOK, Steps
<1>18. CASE Cleanup(w)
  BY <1>18 DEF Cleanup, TypeOK, Steps
<1>19. CASE RemoveWork(w)
  BY <1>19 DEF RemoveWork, TypeOK, Steps
<1>20. CASE RemoveCandidateFile(w)
  BY <1>20 DEF RemoveCandidateFile, TypeOK
<1>21. CASE RemoveCandidate(w)
  <2>1. CASE replay[w]
    <3>0. /\ pc' = [pc EXCEPT ![w] = "load"]
          /\ replay' = [replay EXCEPT ![w] = FALSE]
          /\ mem' = [mem EXCEPT ![w] = Empty]
          /\ UNCHANGED <<lock, todo, pub, file>>
      BY <1>21, <2>1 DEF RemoveCandidate
    <3>1. /\ pc' \in [Workers -> Steps]
          /\ replay' \in [Workers -> BOOLEAN]
          /\ mem' \in [Workers -> Snapshot]
      BY <3>0, EmptyType DEF TypeOK, Steps
    <3>2. candidate' \in Snapshot \cup {NoSnapshot}
      BY <1>21 DEF RemoveCandidate
    <3>3. QED
      BY <1>21, <3>0, <3>1, <3>2 DEF RemoveCandidate, TypeOK
  <2>2. CASE ~replay[w]
    BY <1>21, <2>2, LeaveType DEF RemoveCandidate, TypeOK
  <2>3. QED
    BY <2>1, <2>2
<1>22. CASE ResumeRejected(w)
  BY <1>22, LeaveType DEF ResumeRejected, TypeOK
<1>23. CASE SaveChecked(w)
  BY <1>23 DEF SaveChecked, TypeOK, Steps
<1>24. CASE DiscardBackup(w)
  <2>1. backup' \in Snapshot \cup {Damaged}
    BY <1>24, OperatorTypes DEF DiscardBackup
  <2>2. QED
    BY <1>24, <2>1 DEF DiscardBackup, TypeOK
<1>25. CASE SaveReplaced(w)
  BY <1>25, OperatorTypes DEF SaveReplaced, SaveDone, TypeOK, Steps, ToArchive, PostsOf
<1>26. CASE Rollback(w)
  BY <1>26 DEF Rollback, TypeOK, Steps
<1>27. CASE Restore(w)
  BY <1>27, LeaveType DEF Restore, TypeOK
<1>28. QED
  BY <1>1, <1>2, <1>3, <1>4, <1>5, <1>6, <1>7, <1>8, <1>9, <1>10, <1>11,
     <1>12, <1>13, <1>14, <1>15, <1>16, <1>17, <1>18, <1>19, <1>20, <1>21,
     <1>22, <1>23, <1>24, <1>25, <1>26, <1>27
     DEF WorkerStep

\* What a kill or an error leaves of the temporary files.
LEMMA StaleLeft ==
    ASSUME NEW w \in Workers, Kill(w) \/ StorageError(w)
    PROVE  /\ pc[w] # "idle"
           /\ GivesUp(w)
           /\ \/ stale' = stale
              \/ /\ pc[w] \in {"staged", "linked"}
                 /\ stale' = stale \cup {DirectoryOf(file[w])}
<1>1. CASE Kill(w)
  BY <1>1 DEF Kill
<1>2. CASE StorageError(w)
  <2>1. CASE pc[w] = "linked"
    BY <1>2, <2>1 DEF StorageError
  <2>2. CASE pc[w] = "staged" /\ "linked" \in Failing
    BY <1>2, <2>2 DEF StorageError
  <2>3. CASE pc[w] # "linked" /\ ~(pc[w] = "staged" /\ "linked" \in Failing)
    BY <1>2, <2>3 DEF StorageError
  <2>4. QED
    BY <2>1, <2>2, <2>3
<1>3. QED
  BY <1>1, <1>2

LEMMA FaultType ==
    ASSUME TypeOK, NEW w \in Workers, Fault(w)
    PROVE  TypeOK'
<1> USE DEF publicVars, candidateVars, workVars
<1>1. CASE Kill(w) \/ StorageError(w)
  <2>1. file[w] \in File
    BY DEF TypeOK
  <2>2. stale' \in SUBSET {"media", "record", "root"}
    BY <1>1, <2>1, StaleLeft, FileTypes DEF TypeOK
  <2>3. QED
    BY <1>1, <2>2, StaleLeft, LeaveType DEF GivesUp, TypeOK
<1>2. CASE SwapRaises(w)
  BY <1>2 DEF SwapRaises, Go, TypeOK, Steps
<1>3. CASE DiscardRaises(w)
  BY <1>3 DEF DiscardRaises, Go, TypeOK, Steps
<1>4. QED
  BY <1>1, <1>2, <1>3 DEF Fault

LEMMA RepairType ==
    ASSUME TypeOK, NEW p \in Posts, Repair(p)
    PROVE  TypeOK'
  BY DEF Repair, TypeOK, workerVars, candidateVars, workVars

LEMMA TypeStep == TypeOK /\ [Next]_vars => TypeOK'
<1> SUFFICES ASSUME TypeOK, [Next]_vars
             PROVE  TypeOK'
  OBVIOUS
<1>1. CASE Next
  BY <1>1, StepType, FaultType, RepairType DEF Next
<1>2. CASE UNCHANGED vars
  BY <1>2 DEF vars, workerVars, publicVars, candidateVars, workVars, historyVars, TypeOK
<1>3. QED
  BY <1>1, <1>2

\* Every variable keeps its type, whatever is killed and whatever fails.
THEOREM TypeCorrect == Spec => []TypeOK
  BY InitType, TypeStep, PTL DEF Spec

-----------------------------------------------------------------------------
(***************************************************************************)
(* The inductive invariant                                                 *)
(***************************************************************************)

WorkerInv(w) == BuildsOn(w) /\ PublishesTowards(w) /\ RemovesAfter(w)
StorageInv ==
    CandidateFits /\ NothingHalfDone /\ NoDanglingMedia /\ IndexedPostsExist

LEMMA IInvParts ==
    IInv <=> /\ TypeOK
             /\ LockHeld
             /\ StorageInv
             /\ \A w \in Workers : WorkerInv(w)
  BY DEF IInv, StorageInv, WorkerInv

LEMMA OneWorker ==
    ASSUME LockHeld, NEW w \in Workers, pc[w] # "idle"
    PROVE  lock = w /\ \A v \in Workers : v # w => pc[v] = "idle"
  BY DEF LockHeld

LEMMA IdleInv ==
    ASSUME NEW v \in Workers, pc[v] = "idle"
    PROVE  WorkerInv(v)
  BY DEF WorkerInv, BuildsOn, PublishesTowards, RemovesAfter, Building,
         Publishing, Removing

LEMMA IdleInvNext ==
    ASSUME NEW v \in Workers, pc'[v] = "idle"
    PROVE  WorkerInv(v)'
  BY DEF WorkerInv, BuildsOn, PublishesTowards, RemovesAfter, Building,
         Publishing, Removing

\* A worker that leaves disturbs no worker invariant: everybody is idle.
LEMMA Leaving ==
    ASSUME TypeOK, LockHeld, NEW w \in Workers, pc[w] # "idle", Leave(w)
    PROVE  LockHeld' /\ \A v \in Workers : WorkerInv(v)'
<1>1. \A v \in Workers : pc'[v] = "idle"
  BY OneWorker DEF Leave, TypeOK
<1>2. LockHeld'
  BY <1>1 DEF LockHeld, Leave
<1>3. QED
  BY <1>1, <1>2, IdleInvNext

\* A worker that moves on inside the lock leaves only its own invariant to show.
LEMMA Going ==
    ASSUME TypeOK, LockHeld, NEW w \in Workers, pc[w] # "idle", lock' = lock,
           pc'[w] # "idle", \A v \in Workers : v # w => pc'[v] = pc[v],
           WorkerInv(w)'
    PROVE  LockHeld' /\ \A v \in Workers : WorkerInv(v)'
<1>1. \A v \in Workers : v # w => pc'[v] = "idle"
  BY OneWorker
<1>2. LockHeld'
  BY <1>1, OneWorker DEF LockHeld
<1>3. QED
  BY <1>1, <1>2, IdleInvNext

LEMMA SameStorage ==
    ASSUME StorageInv,
           UNCHANGED <<publicVars, candidateVars, workSnapshot>>
    PROVE  StorageInv'
  BY DEF StorageInv, CandidateFits, NothingHalfDone, NoDanglingMedia, Keeps,
         IndexedPostsExist, QueueShows, publicVars, candidateVars

LEMMA InitInv == Init => IInv
<1> SUFFICES ASSUME Init
             PROVE  IInv
  OBVIOUS
<1>1. LockHeld /\ \A w \in Workers : pc[w] = "idle"
  BY DEF Init, LockHeld
<1>2. StorageInv
  BY DEF Init, StorageInv, CandidateFits, NothingHalfDone, NoDanglingMedia,
         IndexedPostsExist
<1>3. QED
  BY <1>1, <1>2, IdleInv, InitType, IInvParts

LEMMA AcquireInv ==
    ASSUME IInv, NEW w \in Workers, Acquire(w)
    PROVE  StorageInv' /\ LockHeld' /\ \A v \in Workers : WorkerInv(v)'
<1> USE IInvParts
<1>1. \A v \in Workers : v # w => pc'[v] = "idle"
  BY DEF Acquire, Go, LockHeld, TypeOK
<1>2. pc'[w] = IF candidate # NoSnapshot THEN "recover" ELSE "load"
  BY DEF Acquire, Go, TypeOK
<1>3. LockHeld'
  BY <1>1, <1>2 DEF LockHeld, Acquire
<1>4. WorkerInv(w)'
  BY <1>2 DEF Acquire, WorkerInv, BuildsOn, PublishesTowards, RemovesAfter,
              Building, Publishing, Removing, candidateVars
<1>5. StorageInv'
  BY SameStorage DEF Acquire, workVars
<1>6. QED
  BY <1>1, <1>3, <1>4, <1>5, IdleInvNext

LEMMA ReplayInv ==
    ASSUME IInv, NEW w \in Workers, Replay(w)
    PROVE  StorageInv' /\ LockHeld' /\ \A v \in Workers : WorkerInv(v)'
<1> USE IInvParts
<1>1. /\ pc[w] = "recover"
      /\ pc'[w] = "publish"
      /\ mem'[w] = candidate
      /\ pub'[w] = candidateFiles
      /\ \A v \in Workers : v # w => pc'[v] = pc[v]
  BY DEF Replay, Go, TypeOK
<1>2. UNCHANGED <<publicVars, candidateVars, workVars, lock>>
  BY DEF Replay
<1>3. PublishesTowards(w)'
  <2>1. candidate # NoSnapshot /\ CandidateLoads
    BY DEF Replay, CandidateLoads
  <2>2. \A p \in PostsOf(candidate) : <<"record", p>> \in pub'[w]
    BY <1>1, <2>1 DEF CandidateLoads
  <2>3. <<"state", NoPost>> \notin pub'[w] => QueueShows(candidate)
    BY <1>1, <2>1 DEF StorageInv, CandidateFits
  <2>4. QED
    BY <1>1, <1>2, <2>1, <2>2, <2>3 DEF PublishesTowards, CandidateLoads,
       publicVars, candidateVars, QueueShows
<1>4. WorkerInv(w)'
  BY <1>1, <1>3 DEF WorkerInv, BuildsOn, RemovesAfter, Building, Removing
<1>5. StorageInv'
  BY <1>2, SameStorage DEF workVars
<1>6. QED
  BY <1>1, <1>2, <1>4, <1>5, Going

\* Runs that end early change nothing on disk.
LEMMA EarlyEndInv ==
    ASSUME IInv, NEW w \in Workers,
           ReplayRejected(w) \/ ResumeRejected(w) \/ CollectAborted(w)
    PROVE  StorageInv' /\ LockHeld' /\ \A v \in Workers : WorkerInv(v)'
<1> USE IInvParts
<1>1. pc[w] # "idle" /\ Leave(w)
  BY DEF ReplayRejected, ResumeRejected, CollectAborted
<1>2. StorageInv'
  BY SameStorage DEF ReplayRejected, ResumeRejected, CollectAborted, workVars
<1>3. QED
  BY <1>1, <1>2, Leaving

\* A step inside "load" to "archive" that writes nothing but the worker's own
\* variables needs only BuildsOn.
LEMMA BuildingInv ==
    ASSUME IInv, NEW w \in Workers, pc[w] # "idle", lock' = lock,
           \A v \in Workers : v # w => pc'[v] = pc[v],
           pc'[w] \in Building,
           UNCHANGED <<publicVars, candidateVars, workSnapshot>>,
           BuildsOn(w)'
    PROVE  StorageInv' /\ LockHeld' /\ \A v \in Workers : WorkerInv(v)'
<1> USE IInvParts
<1>1. WorkerInv(w)'
  BY DEF WorkerInv, PublishesTowards, RemovesAfter, Building, Publishing, Removing
<1>2. StorageInv'
  BY SameStorage
<1>3. pc'[w] # "idle"
  BY DEF Building
<1>4. QED
  BY <1>1, <1>2, <1>3, Going

LEMMA ResumeInv ==
    ASSUME IInv, NEW w \in Workers, Resume(w)
    PROVE  StorageInv' /\ LockHeld' /\ \A v \in Workers : WorkerInv(v)'
<1> USE IInvParts
<1>1. /\ pc[w] = "load"
      /\ pc'[w] = "save"
      /\ mem'[w] = workSnapshot
      /\ workSnapshot \in Snapshot
      /\ \A v \in Workers : v # w => pc'[v] = pc[v]
      /\ UNCHANGED <<lock, publicVars, candidateVars, workSnapshot>>
  BY DEF Resume, WorkLoads, Go, TypeOK, workVars
<1>2. candidate = NoSnapshot
  BY <1>1 DEF WorkerInv, BuildsOn
<1>3. Keeps(workSnapshot)
  BY <1>1, <1>2 DEF StorageInv, NothingHalfDone
<1>4. BuildsOn(w)'
  BY <1>1, <1>2, <1>3 DEF BuildsOn, Building, Keeps, publicVars, candidateVars
<1>5. QED
  BY <1>1, <1>4, BuildingInv DEF Building

\* A run that collects finds no candidate and a public tree that loads.
LEMMA BaselineLoads ==
    ASSUME IInv, NEW w \in Workers, pc[w] = "load"
    PROVE  candidate = NoSnapshot /\ PublicLoads
  BY IInvParts DEF WorkerInv, BuildsOn, StorageInv, NothingHalfDone, PublicLoads

LEMMA LoadPreviousInv ==
    ASSUME IInv, NEW w \in Workers, LoadPrevious(w)
    PROVE  StorageInv' /\ LockHeld' /\ \A v \in Workers : WorkerInv(v)'
<1> USE IInvParts
<1>1. /\ pc[w] = "load"
      /\ pc'[w] = "collect"
      /\ mem'[w] = PublicSnapshot
      /\ \A v \in Workers : v # w => pc'[v] = pc[v]
      /\ UNCHANGED <<lock, publicVars, candidateVars, workSnapshot>>
  BY BaselineLoads DEF LoadPrevious, Go, TypeOK, workVars
<1>2. candidate = NoSnapshot
  BY <1>1 DEF WorkerInv, BuildsOn
<1>3. Keeps(PublicSnapshot)
  <2>1. ASSUME NEW p \in Posts
        PROVE  /\ record[p] # "none" => PublicSnapshot[p] # "absent"
               /\ record[p] = "local" => PublicSnapshot[p] = "archived"
    <3>1. CASE record[p] = "local"
      BY <3>1 DEF PublicSnapshot
    <3>2. CASE record[p] = "source"
      BY <3>2 DEF PublicSnapshot
    <3>3. CASE record[p] = "none"
      BY <3>3
    <3>4. QED
      BY <3>1, <3>2, <3>3 DEF TypeOK
  <2>2. QED
    BY <2>1 DEF Keeps
<1>4. BuildsOn(w)'
  BY <1>1, <1>2, <1>3 DEF BuildsOn, Building, Keeps, publicVars, candidateVars
<1>5. QED
  BY <1>1, <1>4, BuildingInv DEF Building

LEMMA CollectInv ==
    ASSUME IInv, NEW w \in Workers, Collect(w)
    PROVE  StorageInv' /\ LockHeld' /\ \A v \in Workers : WorkerInv(v)'
<1> USE IInvParts
<1>1. /\ pc[w] = "collect"
      /\ pc'[w] = "save"
      /\ \A v \in Workers : v # w => pc'[v] = pc[v]
      /\ UNCHANGED <<lock, publicVars, candidateVars, workSnapshot>>
  BY DEF Collect, Go, TypeOK, workVars
<1>2. candidate = NoSnapshot /\ Keeps(mem[w])
  BY <1>1 DEF WorkerInv, BuildsOn, Building
<1>3. PICK found \in SUBSET Posts :
         mem'[w] = [p \in Posts |-> IF p \in found /\ mem[w][p] = "absent"
                                   THEN "pending" ELSE mem[w][p]]
  <2>1. PICK found \in SUBSET Posts :
           mem' = [mem EXCEPT ![w] =
                      [p \in Posts |-> IF p \in found /\ @[p] = "absent"
                                       THEN "pending" ELSE @[p]]]
    BY DEF Collect
  <2>2. QED
    BY <2>1 DEF TypeOK
<1>4. \A p \in Posts : /\ mem[w][p] # "absent" => mem'[w][p] # "absent"
                       /\ mem[w][p] = "archived" => mem'[w][p] = "archived"
  BY <1>3
<1>5. BuildsOn(w)'
  BY <1>1, <1>2, <1>4 DEF BuildsOn, Building, Keeps, publicVars, candidateVars
<1>6. QED
  BY <1>1, <1>5, BuildingInv DEF Building

LEMMA ProvidersExhaustedInv ==
    ASSUME IInv, NEW w \in Workers, ProvidersExhausted(w)
    PROVE  StorageInv' /\ LockHeld' /\ \A v \in Workers : WorkerInv(v)'
<1> USE IInvParts
<1>1. pc[w] = "collect" /\ UNCHANGED <<publicVars, candidateVars, workSnapshot>>
  BY DEF ProvidersExhausted, workVars
<1>2. CASE \E p \in Posts : mem[w][p] = "pending"
  <2>1. /\ pc'[w] = "save"
        /\ \A v \in Workers : v # w => pc'[v] = pc[v]
        /\ UNCHANGED <<lock, mem>>
    BY <1>2 DEF ProvidersExhausted, Go, TypeOK
  <2>2. BuildsOn(w)'
    BY <1>1, <2>1 DEF WorkerInv, BuildsOn, Building, Keeps, publicVars, candidateVars
  <2>3. QED
    BY <1>1, <2>1, <2>2, BuildingInv DEF Building
<1>3. CASE ~\E p \in Posts : mem[w][p] = "pending"
  BY <1>1, <1>3, Leaving, SameStorage DEF ProvidersExhausted
<1>4. QED
  BY <1>2, <1>3

\* While a worker builds on the committed tree, the storage invariant asks of
\* the saved snapshot only that it keeps what is public.
LEMMA WorkKept ==
    ASSUME IInv, candidate = NoSnapshot, UNCHANGED <<publicVars, candidateVars>>,
           workSnapshot' \in Snapshot => Keeps(workSnapshot')
    PROVE  StorageInv'
  BY IInvParts DEF StorageInv, CandidateFits, NothingHalfDone, NoDanglingMedia,
     IndexedPostsExist, Keeps, publicVars, candidateVars

\* What a worker knows that saves the collected posts.
LEMMA SavingContext ==
    ASSUME IInv, NEW w \in Workers, pc[w] \in {"save"} \cup Promoting
    PROVE  /\ candidate = NoSnapshot
           /\ mem[w] \in Snapshot
           /\ Keeps(mem[w])
           /\ workSnapshot \in Snapshot => Keeps(workSnapshot)
           /\ pc[w] # "save" /\ backup \in Snapshot => Keeps(backup) /\ Keeps(WithoutState(backup))
<1> USE IInvParts
<1>1. candidate = NoSnapshot /\ Keeps(mem[w]) /\ mem[w] \in Snapshot
  BY DEF WorkerInv, BuildsOn, Building, TypeOK
<1>2. /\ workSnapshot \in Snapshot => Keeps(workSnapshot)
      /\ pc[w] # "save" /\ backup \in Snapshot => Keeps(backup)
  BY <1>1 DEF StorageInv, NothingHalfDone, WorkerInv, BuildsOn
<1>3. Keeps(backup) => Keeps(WithoutState(backup))
  BY DEF Keeps, WithoutState
<1>4. QED
  BY <1>1, <1>2, <1>3

LEMMA SaveDoneInv ==
    ASSUME IInv, NEW w \in Workers, SaveFresh(w) \/ SaveReplaced(w)
    PROVE  StorageInv' /\ LockHeld' /\ \A v \in Workers : WorkerInv(v)'
<1> USE IInvParts
<1>1. /\ pc[w] \in {"save", "discard"}
      /\ pc'[w] = "archive"
      /\ todo'[w] = ToArchive(mem[w])
      /\ workSnapshot' \in {workSnapshot, mem[w]}
      /\ \A v \in Workers : v # w => pc'[v] = pc[v]
      /\ UNCHANGED <<lock, mem, publicVars, candidateVars>>
  BY DEF SaveFresh, SaveReplaced, SaveDone, Go, TypeOK
<1>2. candidate = NoSnapshot /\ Keeps(mem[w]) /\ mem[w] \in Snapshot
  BY <1>1, SavingContext
<1>3. WorkerInv(w)'
  BY <1>1, <1>2 DEF WorkerInv, BuildsOn, PublishesTowards, RemovesAfter, Building,
     Publishing, Removing, Keeps, ToArchive, publicVars, candidateVars
<1>4. StorageInv'
  BY <1>1, <1>2, SavingContext, WorkKept
<1>5. QED
  BY <1>1, <1>3, <1>4, Going

\* A step inside the promotion of the new snapshot, or into one of its handlers.
LEMMA PromotingInv ==
    ASSUME IInv, NEW w \in Workers,
           \/ SaveBackup(w) \/ SaveChecked(w) \/ SavePromote(w) \/ DiscardBackup(w)
           \/ SwapRaises(w) \/ DiscardRaises(w) \/ Rollback(w)
    PROVE  StorageInv' /\ LockHeld' /\ \A v \in Workers : WorkerInv(v)'
<1> USE IInvParts
<1>1. /\ pc[w] \in {"save"} \cup Promoting
      /\ pc'[w] \in Promoting
      /\ \A v \in Workers : v # w => pc'[v] = pc[v]
      /\ UNCHANGED <<lock, mem, publicVars, candidateVars>>
  BY DEF SaveBackup, SaveChecked, SavePromote, DiscardBackup, SwapRaises,
         DiscardRaises, Rollback, Go, TypeOK, workerVars
<1>2. /\ workSnapshot' \in {workSnapshot, mem[w], NoSnapshot}
      /\ \/ pc[w] = "save" /\ backup' = workSnapshot
         \/ pc[w] # "save" /\ backup' \in {backup, Damaged}
         \/ pc[w] # "save" /\ backup \in Snapshot /\ backup' = WithoutState(backup)
  BY DEF SaveBackup, SaveChecked, SavePromote, DiscardBackup, SwapRaises,
         DiscardRaises, Rollback, workVars
<1>3. StorageInv'
  BY <1>1, <1>2, SavingContext, WorkKept
<1>4. backup' \in Snapshot => Keeps(backup')
  BY <1>1, <1>2, SavingContext
<1>5. WorkerInv(w)'
  BY <1>1, <1>4, SavingContext DEF WorkerInv, BuildsOn, PublishesTowards, RemovesAfter,
     Building, Publishing, Removing, Keeps, publicVars, candidateVars
<1>6. QED
  BY <1>1, <1>3, <1>5, Going

\* The backup is put back and the run ends.
LEMMA RestoreInv ==
    ASSUME IInv, NEW w \in Workers, Restore(w)
    PROVE  StorageInv' /\ LockHeld' /\ \A v \in Workers : WorkerInv(v)'
<1> USE IInvParts
<1>1. /\ pc[w] = "restore"
      /\ Leave(w)
      /\ workSnapshot' = backup
      /\ backup' = NoSnapshot
      /\ UNCHANGED <<publicVars, candidateVars>>
  BY DEF Restore
<1>2. StorageInv'
  BY <1>1, SavingContext, WorkKept
<1>3. QED
  BY <1>1, <1>2, Leaving

LEMMA ArchiveSlotInv ==
    ASSUME IInv, NEW w \in Workers, ArchiveSlot(w)
    PROVE  StorageInv' /\ LockHeld' /\ \A v \in Workers : WorkerInv(v)'
<1> USE IInvParts
<1>1. /\ pc[w] = "archive"
      /\ UNCHANGED <<lock, pc, publicVars, candidateVars, workSnapshot>>
  BY DEF ArchiveSlot
<1>2. /\ candidate = NoSnapshot
      /\ Keeps(mem[w])
      /\ \A p \in todo[w] : mem[w][p] \in {"pending", "failed"}
  BY <1>1 DEF WorkerInv, BuildsOn, Building
<1>3. PICK p \in todo[w], outcome \in {"archived", "pending", "failed"} :
         /\ todo' = [todo EXCEPT ![w] = @ \ {p}]
         /\ mem' = [mem EXCEPT ![w][p] = outcome]
  BY DEF ArchiveSlot
<1>4. /\ p \in Posts
      /\ mem'[w][p] = outcome
      /\ \A q \in Posts : q # p => mem'[w][q] = mem[w][q]
      /\ todo'[w] = todo[w] \ {p}
      /\ todo'[w] \subseteq Posts
  BY <1>3 DEF TypeOK, Snapshot
<1>5. BuildsOn(w)'
  <2>1. Keeps(mem[w])'
    BY <1>1, <1>2, <1>4 DEF Keeps, publicVars
  <2>2. \A q \in todo'[w] : mem'[w][q] \in {"pending", "failed"}
    BY <1>2, <1>4
  <2>3. QED
    BY <1>1, <1>2, <2>1, <2>2 DEF BuildsOn, candidateVars
<1>6. QED
  BY <1>1, <1>5, BuildingInv DEF Building

LEMMA ArchiveDoneInv ==
    ASSUME IInv, NEW w \in Workers, ArchiveDone(w)
    PROVE  StorageInv' /\ LockHeld' /\ \A v \in Workers : WorkerInv(v)'
<1> USE IInvParts
<1>1. /\ pc[w] = "archive"
      /\ pc'[w] = "write"
      /\ \A v \in Workers : v # w => pc'[v] = pc[v]
      /\ UNCHANGED <<lock, mem, publicVars, candidateVars, workSnapshot>>
  BY DEF ArchiveDone, Go, TypeOK, workVars
<1>2. BuildsOn(w)'
  BY <1>1 DEF WorkerInv, BuildsOn, Building, Keeps, publicVars, candidateVars
<1>3. QED
  BY <1>1, <1>2, BuildingInv DEF Building

LEMMA FilesOfSnapshot ==
    ASSUME NEW s \in Snapshot, NEW present \in SUBSET Posts
    PROVE  /\ <<"index", NoPost>> \in FilesOf(s, present)
           /\ <<"state", NoPost>> \in FilesOf(s, present)
           /\ \A p \in PostsOf(s) : <<"record", p>> \in FilesOf(s, present)
           /\ \A p \in Posts : s[p] = "archived" /\ p \notin present
                                 => <<"media", p>> \in FilesOf(s, present)
           /\ FilesOf(s, present) \subseteq FilesOf(s, {})
           /\ \A f \in FilesOf(s, {}) :
                  /\ f[1] = "media" => f[2] \in Posts /\ s[f[2]] = "archived"
                  /\ f[1] = "record" => f[2] \in PostsOf(s)
  BY DEF FilesOf, PostsOf

LEMMA WriteCandidateInv ==
    ASSUME IInv, NEW w \in Workers, WriteCandidate(w)
    PROVE  StorageInv' /\ LockHeld' /\ \A v \in Workers : WorkerInv(v)'
<1> USE IInvParts
<1>1. /\ pc[w] = "write"
      /\ pc'[w] = "publish"
      /\ candidate' = mem[w]
      /\ candidateFiles' = FilesOf(mem[w], media)
      /\ pub'[w] = FilesOf(mem[w], media)
      /\ \A v \in Workers : v # w => pc'[v] = pc[v]
      /\ UNCHANGED <<lock, mem, publicVars, workVars>>
  BY DEF WriteCandidate, Go, TypeOK
<1>2. /\ candidate = NoSnapshot
      /\ Keeps(mem[w])
      /\ mem[w] \in Snapshot
      /\ mem[w] # NoSnapshot
      /\ media \in SUBSET Posts
  BY <1>1 DEF WorkerInv, BuildsOn, Building, TypeOK
<1>3. stale = {}
  BY <1>2 DEF StorageInv, NothingHalfDone
<1>4. PublishesTowards(w)'
  BY <1>1, <1>2, <1>3, FilesOfSnapshot DEF PublishesTowards, Publishing, publicVars
<1>5. WorkerInv(w)'
  BY <1>1, <1>4 DEF WorkerInv, BuildsOn, RemovesAfter, Building, Removing
<1>6. StorageInv'
  <2>1. CandidateFits'
    BY <1>1, <1>2, <1>3, FilesOfSnapshot DEF CandidateFits, Keeps, publicVars
  <2>2. QED
    BY <1>1, <1>2, <2>1 DEF StorageInv, NothingHalfDone, NoDanglingMedia,
       IndexedPostsExist, publicVars
<1>7. QED
  BY <1>1, <1>5, <1>6, Going

LEMMA StageInv ==
    ASSUME IInv, NEW w \in Workers, Stage(w)
    PROVE  StorageInv' /\ LockHeld' /\ \A v \in Workers : WorkerInv(v)'
<1> USE IInvParts
<1>1. /\ pc[w] = "publish"
      /\ UNCHANGED <<lock, mem, publicVars, candidateVars, workSnapshot>>
  BY DEF Stage, workVars
<1>2. PublishesTowards(w)
  BY DEF WorkerInv
<1>3. PICK f \in pub[w] :
         /\ \A g \in pub[w] : Rank(f) <= Rank(g)
         /\ IF f[1] = "media" /\ f[2] \in media
            THEN pub' = [pub EXCEPT ![w] = @ \ {f}] /\ UNCHANGED <<pc, file>>
            ELSE /\ file' = [file EXCEPT ![w] = f]
                 /\ pc' = [pc EXCEPT ![w] = "staged"]
                 /\ UNCHANGED pub
  BY DEF Stage, Go
<1>4. f \in File
  BY <1>3 DEF TypeOK
<1>5. pc'[w] \in Publishing /\ \A v \in Workers : v # w => pc'[v] = pc[v]
  BY <1>1, <1>3 DEF TypeOK, Publishing
<1>6. PublishesTowards(w)'
  <2>1. CASE f[1] = "media" /\ f[2] \in media
    <3>1. pub'[w] = pub[w] \ {f} /\ pc'[w] = "publish"
      BY <1>1, <1>3, <2>1 DEF TypeOK
    <3>2. f = <<"media", f[2]>>
      BY <1>4, <2>1, FileTypes
    <3>3. QED
      BY <1>1, <1>2, <2>1, <3>1, <3>2 DEF PublishesTowards, Publishing, QueueShows,
         publicVars, candidateVars
  <2>2. CASE ~(f[1] = "media" /\ f[2] \in media)
    <3>1. pub' = pub /\ pc'[w] = "staged" /\ file'[w] = f
      BY <1>3, <2>2 DEF TypeOK
    <3>2. QED
      BY <1>1, <1>2, <1>3, <3>1 DEF PublishesTowards, Publishing, QueueShows,
         publicVars, candidateVars
  <2>3. QED
    BY <2>1, <2>2
<1>7. WorkerInv(w)'
  BY <1>5, <1>6 DEF WorkerInv, BuildsOn, RemovesAfter, Building, Removing, Publishing
<1>8. StorageInv'
  BY <1>1, SameStorage
<1>9. QED
  BY <1>1, <1>5, <1>7, <1>8, Going DEF Publishing

LEMMA UnlinkInv ==
    ASSUME IInv, NEW w \in Workers, Unlink(w)
    PROVE  StorageInv' /\ LockHeld' /\ \A v \in Workers : WorkerInv(v)'
<1> USE IInvParts
<1>1. /\ pc[w] = "linked"
      /\ pc'[w] = "publish"
      /\ pub'[w] = pub[w] \ {file[w]}
      /\ \A v \in Workers : v # w => pc'[v] = pc[v]
      /\ UNCHANGED <<lock, mem, publicVars, candidateVars, workSnapshot>>
  BY DEF Unlink, Go, TypeOK, workVars
<1>2. PublishesTowards(w)
  BY DEF WorkerInv
<1>3. file[w] = <<"media", file[w][2]>> /\ file[w][2] \in media
  <2>1. file[w] \in File
    BY DEF TypeOK
  <2>2. QED
    BY <1>1, <1>2, <2>1, FileTypes DEF PublishesTowards, Publishing
<1>4. PublishesTowards(w)'
  BY <1>1, <1>2, <1>3 DEF PublishesTowards, Publishing, QueueShows,
     publicVars, candidateVars
<1>5. WorkerInv(w)'
  BY <1>1, <1>4 DEF WorkerInv, BuildsOn, RemovesAfter, Building, Removing
<1>6. StorageInv'
  BY <1>1, SameStorage
<1>7. QED
  BY <1>1, <1>5, <1>6, Going

\* Once every record of the candidate is out, the records show the candidate.
LEMMA RecordsShown ==
    ASSUME TypeOK, candidate \in Snapshot, Keeps(candidate),
           \A p \in PostsOf(candidate) : record[p] = RecordOf(candidate)[p]
    PROVE  record = RecordOf(candidate)
<1>1. ASSUME NEW p \in Posts
      PROVE  record[p] = RecordOf(candidate)[p]
  <2>1. CASE candidate[p] # "absent"
    BY <2>1 DEF PostsOf
  <2>2. CASE candidate[p] = "absent"
    BY <2>2 DEF Keeps, RecordOf
  <2>3. QED
    BY <2>1, <2>2
<1>2. /\ record \in [Posts -> {"none", "source", "local"}]
      /\ RecordOf(candidate) \in [Posts -> {"none", "source", "local"}]
  BY OperatorTypes DEF TypeOK
<1>3. QED
  BY <1>1, <1>2

LEMMA CleanupInv ==
    ASSUME IInv, NEW w \in Workers, Cleanup(w)
    PROVE  StorageInv' /\ LockHeld' /\ \A v \in Workers : WorkerInv(v)'
<1> USE IInvParts
<1>1. /\ pc[w] = "publish"
      /\ pub[w] = {}
      /\ pc'[w] = "rmwork"
      /\ stale' = stale \ ({DirectoryOf(f) : f \in candidateFiles} \cup {"media"})
      /\ \A v \in Workers : v # w => pc'[v] = pc[v]
      /\ UNCHANGED <<lock, mem, media, record, index, queue, candidateVars, workVars>>
  BY DEF Cleanup, Go, TypeOK
<1>2. PublishesTowards(w) /\ candidate \in Snapshot
  BY <1>1 DEF WorkerInv, PublishesTowards, Publishing, TypeOK
<1>3. stale' = {}
  <2>1. "root" \in {DirectoryOf(f) : f \in candidateFiles}
    BY <1>1, <1>2 DEF PublishesTowards, Publishing, DirectoryOf
  <2>2. "record" \in stale => "record" \in {DirectoryOf(f) : f \in candidateFiles}
    <3>1. SUFFICES ASSUME "record" \in stale
                   PROVE  \E f \in candidateFiles : DirectoryOf(f) = "record"
      BY <3>1
    <3>2. PICK p \in Posts : candidate[p] # "absent"
      BY <1>1, <1>2, <3>1 DEF StorageInv, CandidateFits, PublishesTowards, Publishing
    <3>3. <<"record", p>> \in candidateFiles
      BY <1>1, <1>2, <3>2 DEF PublishesTowards, Publishing, PostsOf
    <3>4. QED
      BY <3>3 DEF DirectoryOf
  <2>3. QED
    BY <1>1, <2>1, <2>2 DEF TypeOK
<1>4. record = RecordOf(candidate)
  BY <1>1, <1>2, RecordsShown DEF StorageInv, CandidateFits, PublishesTowards, Publishing
<1>5. RemovesAfter(w)'
  BY <1>1, <1>2, <1>3, <1>4 DEF RemovesAfter, Removing, PublishesTowards, Publishing,
     QueueShows, candidateVars
<1>6. WorkerInv(w)'
  BY <1>1, <1>5 DEF WorkerInv, BuildsOn, PublishesTowards, Building, Publishing
<1>7. StorageInv'
  BY <1>1, <1>3 DEF StorageInv, CandidateFits, NothingHalfDone, NoDanglingMedia,
     IndexedPostsExist, Keeps, QueueShows, candidateVars, workVars
<1>8. QED
  BY <1>1, <1>6, <1>7, Going
\* What a worker about to expose file[w] knows.
LEMMA ExposeContext ==
    ASSUME IInv, NEW w \in Workers, pc[w] = "staged"
    PROVE  /\ candidate # NoSnapshot
           /\ candidate \in Snapshot
           /\ mem[w] = candidate
           /\ Keeps(candidate)
           /\ PublishesTowards(w)
           /\ file[w] \in pub[w]
           /\ \A g \in pub[w] : Rank(file[w]) <= Rank(g)
           /\ file[w] \in File
           /\ file[w] = <<file[w][1], file[w][2]>>
           /\ file[w][1] \in {"media", "record", "index", "state"}
           /\ file[w][1] \in {"index", "state"} => file[w][2] = NoPost
           /\ file[w][1] = "media" =>
                  file[w][2] \in Posts /\ candidate[file[w][2]] = "archived"
           /\ file[w][1] = "record" =>
                  file[w][2] \in Posts /\ candidate[file[w][2]] # "absent"
<1> USE IInvParts
<1>1. PublishesTowards(w)
  BY DEF WorkerInv
<1>2. /\ candidate # NoSnapshot
      /\ candidate \in Snapshot
      /\ mem[w] = candidate
      /\ Keeps(candidate)
      /\ file[w] \in pub[w]
      /\ pub[w] \subseteq candidateFiles
      /\ \A g \in pub[w] : Rank(file[w]) <= Rank(g)
  BY <1>1 DEF PublishesTowards, Publishing, TypeOK, StorageInv, CandidateFits
<1>3. file[w] \in File
  BY DEF TypeOK
<1>4. file[w] \in FilesOf(candidate, {})
  BY <1>2 DEF StorageInv, CandidateFits
<1>5. /\ file[w][1] = "record" => file[w][2] \in PostsOf(candidate)
      /\ file[w][1] = "media" => candidate[file[w][2]] = "archived"
  BY <1>2, <1>4, FilesOfSnapshot
<1>6. QED
  BY <1>1, <1>2, <1>3, <1>5, FileTypes DEF PostsOf

LEMMA ExposeInv ==
    ASSUME IInv, NEW w \in Workers, Expose(w)
    PROVE  StorageInv' /\ LockHeld' /\ \A v \in Workers : WorkerInv(v)'
<1> USE IInvParts
<1> DEFINE f == file[w]
<1>1. /\ pc[w] = "staged"
      /\ UNCHANGED <<lock, mem, file, stale, candidateVars, workVars>>
      /\ media' = IF f[1] = "media" THEN media \cup {f[2]} ELSE media
      /\ record' = IF f[1] = "record"
                   THEN [record EXCEPT ![f[2]] = RecordOf(mem[w])[f[2]]]
                   ELSE record
      /\ index' = IF f[1] = "index" THEN PostsOf(mem[w]) ELSE index
      /\ queue' = IF f[1] = "state" THEN QueueOf(mem[w]) ELSE queue
  BY DEF Expose
<1>2. /\ pc'[w] = IF f[1] = "media" THEN "linked" ELSE "publish"
      /\ pub'[w] = IF f[1] = "media" THEN pub[w] ELSE pub[w] \ {f}
      /\ \A v \in Workers : v # w => pc'[v] = pc[v]
  <2>1. CASE f[1] = "media"
    BY <2>1 DEF Expose, Go, TypeOK
  <2>2. CASE f[1] # "media"
    BY <2>2 DEF Expose, Go, TypeOK
  <2>3. QED
    BY <2>1, <2>2
<1>3. PublishesTowards(w)
  BY <1>1, ExposeContext
<1>4. /\ candidate # NoSnapshot
      /\ candidate \in Snapshot
      /\ mem[w] = candidate
      /\ "media" \notin stale
      /\ <<"index", NoPost>> \in candidateFiles
      /\ \A p \in PostsOf(candidate) : <<"record", p>> \in candidateFiles
      /\ pub[w] \subseteq candidateFiles
      /\ \A p \in Posts : candidate[p] = "archived" =>
                              p \in media \/ <<"media", p>> \in pub[w]
      /\ \A p \in PostsOf(candidate) :
             <<"record", p>> \notin pub[w] => record[p] = RecordOf(candidate)[p]
      /\ <<"index", NoPost>> \notin pub[w] => index = PostsOf(candidate)
      /\ <<"state", NoPost>> \notin pub[w] => QueueShows(candidate)
      /\ f \in pub[w]
      /\ \A g \in pub[w] : Rank(f) <= Rank(g)
  BY <1>1, <1>3, ExposeContext DEF PublishesTowards, Publishing
<1>5. /\ f \in File
      /\ f = <<f[1], f[2]>>
      /\ f[1] \in {"media", "record", "index", "state"}
      /\ f[1] \in {"index", "state"} => f[2] = NoPost
      /\ f[1] = "media" => f[2] \in Posts
      /\ f[1] = "record" => f[2] \in Posts /\ candidate[f[2]] # "absent"
  BY <1>1, ExposeContext
<1>6. Keeps(candidate)
  BY <1>4 DEF StorageInv, CandidateFits
<1>7. record \in [Posts -> {"none", "source", "local"}]
  BY DEF TypeOK
<1>8. /\ Keeps(candidate)'
      /\ NoDanglingMedia'
      /\ IndexedPostsExist'
      /\ PublishesTowards(w)'
  <2>1. CASE f[1] = "media"
    <3>1. /\ media' = media \cup {f[2]}
          /\ UNCHANGED <<record, index, queue>>
          /\ pc'[w] = "linked"
          /\ pub'[w] = pub[w]
      BY <1>1, <1>2, <2>1
    <3>2. NoDanglingMedia' /\ IndexedPostsExist' /\ Keeps(candidate)'
      BY <1>1, <1>6, <3>1 DEF StorageInv, NoDanglingMedia, IndexedPostsExist, Keeps,
         candidateVars
    <3>3. PublishesTowards(w)'
      BY <1>1, <1>4, <1>5, <2>1, <3>1 DEF PublishesTowards, Publishing, QueueShows,
         candidateVars
    <3>4. QED
      BY <3>2, <3>3
  <2>2. CASE f[1] = "record"
    <3>1. /\ record' = [record EXCEPT ![f[2]] = RecordOf(candidate)[f[2]]]
          /\ UNCHANGED <<media, index, queue>>
          /\ pc'[w] = "publish"
          /\ pub'[w] = pub[w] \ {f}
      BY <1>1, <1>2, <1>4, <2>2
    <3>2. /\ f[2] \in Posts
          /\ record'[f[2]] = RecordOf(candidate)[f[2]]
          /\ \A p \in Posts : p # f[2] => record'[p] = record[p]
      BY <1>5, <1>7, <2>2, <3>1
    <3>3. /\ candidate[f[2]] # "absent"
          /\ record'[f[2]] # "none"
          /\ record'[f[2]] = "local" <=> candidate[f[2]] = "archived"
      BY <1>5, <2>2, <3>2 DEF RecordOf
    <3>4. Keeps(candidate)'
      BY <1>1, <1>6, <3>2, <3>3 DEF Keeps, candidateVars
    <3>5. candidate[f[2]] = "archived" => f[2] \in media
      <4>1. Rank(f) = 2 /\ Rank(<<"media", f[2]>>) = 1
        BY <2>2 DEF Rank
      <4>2. QED
        BY <1>4, <3>2, <4>1
    <3>6. NoDanglingMedia'
      BY <3>1, <3>2, <3>3, <3>5 DEF StorageInv, NoDanglingMedia
    <3>7. IndexedPostsExist'
      <4>1. index \subseteq Posts /\ index' = index
        BY <3>1 DEF TypeOK
      <4>2. QED
        BY <3>2, <3>3, <4>1 DEF StorageInv, IndexedPostsExist
    <3>8. \A p \in PostsOf(candidate) :
             <<"record", p>> \notin pub'[w] => record'[p] = RecordOf(candidate)[p]
      BY <1>4, <1>5, <2>2, <3>1, <3>2 DEF PostsOf
    <3>9. PublishesTowards(w)'
      BY <1>1, <1>4, <1>5, <2>2, <3>1, <3>8 DEF PublishesTowards, Publishing,
         QueueShows, candidateVars
    <3>10. QED
      BY <3>4, <3>6, <3>7, <3>9
  <2>3. CASE f[1] = "index"
    <3>1. /\ index' = PostsOf(candidate)
          /\ UNCHANGED <<media, record, queue>>
          /\ pc'[w] = "publish"
          /\ pub'[w] = pub[w] \ {f}
      BY <1>1, <1>2, <1>4, <2>3
    <3>2. \A p \in PostsOf(candidate) : record[p] # "none"
      <4>1. ASSUME NEW p \in PostsOf(candidate), <<"record", p>> \in pub[w]
            PROVE  FALSE
        <5>1. Rank(f) = 3 /\ Rank(<<"record", p>>) = 2
          BY <2>3 DEF Rank
        <5>2. QED
          BY <1>4, <4>1, <5>1
      <4>2. QED
        BY <1>4, <4>1 DEF PostsOf, RecordOf
    <3>3. NoDanglingMedia' /\ IndexedPostsExist' /\ Keeps(candidate)'
      BY <1>1, <1>6, <3>1, <3>2 DEF StorageInv, NoDanglingMedia, IndexedPostsExist,
         Keeps, candidateVars
    <3>4. PublishesTowards(w)'
      BY <1>1, <1>4, <1>5, <2>3, <3>1 DEF PublishesTowards, Publishing, QueueShows,
         candidateVars
    <3>5. QED
      BY <3>3, <3>4
  <2>4. CASE f[1] = "state"
    <3>1. /\ queue' = QueueOf(candidate)
          /\ UNCHANGED <<media, record, index>>
          /\ pc'[w] = "publish"
          /\ pub'[w] = pub[w] \ {f}
      BY <1>1, <1>2, <1>4, <2>4
    <3>2. NoDanglingMedia' /\ IndexedPostsExist' /\ Keeps(candidate)'
      BY <1>1, <1>6, <3>1 DEF StorageInv, NoDanglingMedia, IndexedPostsExist, Keeps,
         candidateVars
    <3>3. QueueShows(candidate)'
      BY <1>1, <3>1 DEF QueueShows, candidateVars, QueueOf
    <3>4. PublishesTowards(w)'
      BY <1>1, <1>4, <1>5, <2>4, <3>1, <3>3 DEF PublishesTowards, Publishing,
         candidateVars
    <3>5. QED
      BY <3>2, <3>4
  <2>5. QED
    BY <1>5, <2>1, <2>2, <2>3, <2>4
<1>9. (<<"state", NoPost>> \notin candidateFiles => QueueShows(candidate))'
  <2>1. CASE f[1] = "state"
    BY <1>1, <1>4, <1>5, <2>1 DEF candidateVars
  <2>2. CASE f[1] # "state"
    BY <1>1, <1>4, <2>2 DEF StorageInv, CandidateFits, QueueShows, candidateVars
  <2>3. QED
    BY <2>1, <2>2
<1>10. StorageInv'
  BY <1>1, <1>4, <1>8, <1>9 DEF StorageInv, CandidateFits, NothingHalfDone,
     candidateVars
<1>11. WorkerInv(w)'
  BY <1>2, <1>8 DEF WorkerInv, BuildsOn, RemovesAfter, Building, Removing
<1>12. QED
  BY <1>1, <1>2, <1>10, <1>11, Going
LEMMA RemoveWorkInv ==
    ASSUME IInv, NEW w \in Workers, RemoveWork(w)
    PROVE  StorageInv' /\ LockHeld' /\ \A v \in Workers : WorkerInv(v)'
<1> USE IInvParts
<1>1. pc[w] = "rmwork" /\ UNCHANGED <<lock, mem, publicVars, candidateVars>>
  BY DEF RemoveWork
<1>2. candidate # NoSnapshot /\ RemovesAfter(w)
  BY <1>1 DEF WorkerInv, RemovesAfter, Removing
<1>3. StorageInv'
  BY <1>1, <1>2 DEF StorageInv, CandidateFits, NothingHalfDone, NoDanglingMedia,
     IndexedPostsExist, Keeps, QueueShows, publicVars, candidateVars
<1>4. /\ pc'[w] \in {"rmwork", "rmcandidate"}
      /\ pc'[w] = "rmcandidate" => workSnapshot' = NoSnapshot
      /\ \A v \in Workers : v # w => pc'[v] = pc[v]
  <2>1. CASE workSnapshot \in Snapshot
    <3>1. pc' = pc
      BY <2>1 DEF RemoveWork
    <3>2. QED
      BY <1>1, <3>1
  <2>2. CASE workSnapshot \notin Snapshot
    BY <1>1, <2>2 DEF RemoveWork, Go, TypeOK
  <2>3. QED
    BY <2>1, <2>2
<1>5. RemovesAfter(w)'
  BY <1>1, <1>2, <1>4 DEF RemovesAfter, Removing, QueueShows, publicVars, candidateVars
<1>6. WorkerInv(w)'
  BY <1>4, <1>5 DEF WorkerInv, BuildsOn, PublishesTowards, Building, Publishing
<1>7. QED
  BY <1>1, <1>3, <1>4, <1>6, Going

LEMMA RemoveCandidateFileInv ==
    ASSUME IInv, NEW w \in Workers, RemoveCandidateFile(w)
    PROVE  StorageInv' /\ LockHeld' /\ \A v \in Workers : WorkerInv(v)'
<1> USE IInvParts
<1>1. /\ pc[w] = "rmcandidate"
      /\ candidateFiles' \subseteq candidateFiles
      /\ UNCHANGED <<lock, pc, mem, publicVars, candidate, workSnapshot>>
  BY DEF RemoveCandidateFile, workerVars, workVars
<1>2. candidate # NoSnapshot /\ RemovesAfter(w) /\ QueueShows(candidate)
  BY <1>1 DEF WorkerInv, RemovesAfter, Removing
<1>3. StorageInv'
  BY <1>1, <1>2 DEF StorageInv, CandidateFits, NothingHalfDone, NoDanglingMedia,
     IndexedPostsExist, Keeps, QueueShows, publicVars
<1>4. WorkerInv(w)'
  BY <1>1, <1>2 DEF WorkerInv, BuildsOn, PublishesTowards, RemovesAfter, Building,
     Publishing, Removing, QueueShows, publicVars
<1>5. QED
  BY <1>1, <1>3, <1>4, Going

\* A tree that shows the candidate is whole without it.
LEMMA ShownTreeIsWhole ==
    ASSUME TypeOK, candidate \in Snapshot, record = RecordOf(candidate),
           index = PostsOf(candidate), QueueShows(candidate)
    PROVE  /\ index = {p \in Posts : record[p] # "none"}
           /\ \A p \in Posts : queue[p] # "none" <=> record[p] = "source"
<1>1. \A p \in Posts : candidate[p] \in Status
  BY OperatorTypes
<1>2. index = {p \in Posts : record[p] # "none"}
  BY <1>1 DEF RecordOf, PostsOf, Status
<1>3. ASSUME NEW p \in Posts
      PROVE  queue[p] # "none" <=> record[p] = "source"
  <2>1. \/ queue[p] = QueueOf(candidate)[p]
        \/ QueueOf(candidate)[p] = "failed" /\ queue[p] = "pending"
    BY DEF QueueShows
  <2>2. QueueOf(candidate)[p] # "none" <=> candidate[p] \in {"pending", "failed"}
    BY DEF QueueOf
  <2>3. record[p] = "source" <=> candidate[p] \in {"pending", "failed"}
    BY <1>1 DEF RecordOf, Status
  <2>4. QED
    BY <2>1, <2>2, <2>3
<1>4. QED
  BY <1>2, <1>3

LEMMA RemoveCandidateInv ==
    ASSUME IInv, NEW w \in Workers, RemoveCandidate(w)
    PROVE  StorageInv' /\ LockHeld' /\ \A v \in Workers : WorkerInv(v)'
<1> USE IInvParts
<1>1. /\ pc[w] = "rmcandidate"
      /\ candidate' = NoSnapshot
      /\ UNCHANGED <<publicVars, candidateFiles, workSnapshot>>
  BY DEF RemoveCandidate, workVars
<1>2. /\ stale = {}
      /\ workSnapshot = NoSnapshot
      /\ index = {p \in Posts : record[p] # "none"}
      /\ \A p \in Posts : queue[p] # "none" <=> record[p] = "source"
  BY <1>1, ShownTreeIsWhole DEF WorkerInv, RemovesAfter, Removing, TypeOK
<1>3. StorageInv'
  BY <1>1, <1>2 DEF StorageInv, CandidateFits, NothingHalfDone, NoDanglingMedia,
     IndexedPostsExist, publicVars
<1>4. CASE replay[w]
  <2>1. /\ pc'[w] = "load"
        /\ lock' = lock
        /\ \A v \in Workers : v # w => pc'[v] = pc[v]
    <3>1. Go(w, "load") /\ lock' = lock
      BY <1>4 DEF RemoveCandidate
    <3>2. QED
      BY <3>1 DEF Go, TypeOK
  <2>2. WorkerInv(w)'
    BY <1>1, <2>1 DEF WorkerInv, BuildsOn, PublishesTowards, RemovesAfter, Building,
       Publishing, Removing
  <2>3. QED
    BY <1>1, <1>3, <2>1, <2>2, Going
<1>5. CASE ~replay[w]
  <2>1. Leave(w)
    BY <1>5 DEF RemoveCandidate
  <2>2. QED
    BY <1>1, <1>3, <2>1, Leaving
<1>6. QED
  BY <1>4, <1>5

LEMMA GivesUpInv ==
    ASSUME IInv, NEW w \in Workers, Kill(w) \/ StorageError(w)
    PROVE  StorageInv' /\ LockHeld' /\ \A v \in Workers : WorkerInv(v)'
<1> USE IInvParts
<1>1. /\ pc[w] # "idle"
      /\ Leave(w)
      /\ backup' = NoSnapshot
      /\ UNCHANGED <<media, record, index, queue, candidateVars, workSnapshot>>
  BY StaleLeft DEF GivesUp
<1>2. CASE pc[w] \in {"staged", "linked"} /\ stale' = stale \cup {DirectoryOf(file[w])}
  <2>1. /\ candidate # NoSnapshot
        /\ candidate \in Snapshot
        /\ file[w] \in candidateFiles
    BY <1>2 DEF WorkerInv, PublishesTowards, Publishing, TypeOK
  <2>2. "record" \in stale' => \E p \in Posts : candidate[p] # "absent"
    <3>1. CASE file[w][1] = "record"
      <4>1. file[w] \in FilesOf(candidate, {})
        BY <2>1 DEF StorageInv, CandidateFits
      <4>2. file[w][2] \in PostsOf(candidate)
        BY <2>1, <3>1, <4>1, FilesOfSnapshot
      <4>3. QED
        BY <4>2 DEF PostsOf
    <3>2. CASE file[w][1] # "record"
      BY <1>2, <2>1, <3>2 DEF DirectoryOf, StorageInv, CandidateFits
    <3>3. QED
      BY <3>1, <3>2
  <2>3. StorageInv'
    BY <1>1, <2>1, <2>2 DEF StorageInv, CandidateFits, NothingHalfDone,
       NoDanglingMedia, IndexedPostsExist, Keeps, QueueShows, candidateVars
  <2>4. QED
    BY <1>1, <2>3, Leaving
<1>3. CASE stale' = stale
  <2>1. StorageInv'
    BY <1>1, <1>3 DEF StorageInv, CandidateFits, NothingHalfDone,
       NoDanglingMedia, IndexedPostsExist, Keeps, QueueShows, candidateVars
  <2>2. QED
    BY <1>1, <2>1, Leaving
<1>4. QED
  BY <1>2, <1>3, StaleLeft

LEMMA RepairInv ==
    ASSUME IInv, NEW p \in Posts, Repair(p)
    PROVE  StorageInv' /\ LockHeld' /\ \A v \in Workers : WorkerInv(v)'
<1> USE IInvParts
<1>1. /\ \A v \in Workers : pc[v] = "idle"
      /\ queue[p] = "failed"
      /\ queue' = [queue EXCEPT ![p] = "pending"]
      /\ UNCHANGED <<lock, pc, media, record, index, stale, candidateVars, workVars>>
  BY DEF Repair, workerVars
<1>2. /\ queue'[p] = "pending"
      /\ \A q \in Posts : q # p => queue'[q] = queue[q]
  BY <1>1 DEF TypeOK
<1>3. QueueShows(candidate) => QueueShows(candidate)'
  BY <1>1, <1>2 DEF QueueShows, QueueOf, candidateVars
<1>4. \A q \in Posts : queue'[q] # "none" <=> queue[q] # "none"
  BY <1>1, <1>2
<1>5. CandidateFits'
  BY <1>1, <1>3 DEF StorageInv, CandidateFits, Keeps, candidateVars
<1>6. StorageInv'
  BY <1>1, <1>4, <1>5 DEF StorageInv, NothingHalfDone, NoDanglingMedia,
     IndexedPostsExist, Keeps, candidateVars, workVars
<1>7. LockHeld' /\ \A v \in Workers : pc'[v] = "idle"
  BY <1>1 DEF LockHeld
<1>8. QED
  BY <1>6, <1>7, IdleInvNext

\* Each action keeps the invariant.
LEMMA StepInv ==
    ASSUME IInv, NEW w \in Workers, WorkerStep(w)
    PROVE  StorageInv' /\ LockHeld' /\ \A v \in Workers : WorkerInv(v)'
  BY AcquireInv, ReplayInv, EarlyEndInv, ResumeInv, LoadPreviousInv, CollectInv,
     ProvidersExhaustedInv, SaveDoneInv, PromotingInv, RestoreInv, ArchiveSlotInv,
     ArchiveDoneInv, WriteCandidateInv, StageInv, ExposeInv, UnlinkInv, CleanupInv,
     RemoveWorkInv, RemoveCandidateFileInv, RemoveCandidateInv DEF WorkerStep

LEMMA IInvStep == IInv /\ [Next]_vars => IInv'
<1> SUFFICES ASSUME IInv, [Next]_vars
             PROVE  IInv'
  OBVIOUS
<1>1. TypeOK'
  BY TypeStep DEF IInv
<1>2. CASE Next
  <2>1. StorageInv' /\ LockHeld' /\ \A v \in Workers : WorkerInv(v)'
    BY <1>2, StepInv, GivesUpInv, PromotingInv, RepairInv DEF Next, Fault
  <2>2. QED
    BY <1>1, <2>1 DEF IInv, StorageInv, WorkerInv
<1>3. CASE UNCHANGED vars
  <2>1. UNCHANGED <<workerVars, publicVars, candidateVars, workVars>>
    BY <1>3 DEF vars
  <2>2. StorageInv'
    BY <2>1, SameStorage, IInvParts DEF workVars
  <2>3. LockHeld'
    BY <2>1 DEF LockHeld, IInv, workerVars
  <2>4. ASSUME NEW v \in Workers
        PROVE  WorkerInv(v)'
    BY <2>1, IInvParts DEF WorkerInv, BuildsOn, PublishesTowards, RemovesAfter,
       Building, Publishing, Removing, Keeps, QueueShows, workerVars, publicVars,
       candidateVars, workVars
  <2>5. QED
    BY <1>1, <2>2, <2>3, <2>4 DEF IInv, StorageInv, WorkerInv
<1>4. QED
  BY <1>2, <1>3

\* The inductive invariant holds throughout.
THEOREM Invariance == Spec => []IInv
  BY InitInv, IInvStep, PTL DEF Spec

-----------------------------------------------------------------------------
(***************************************************************************)
(* What follows from it                                                    *)
(***************************************************************************)

\* No published record points at a media file that is not there, whatever is
\* killed in publish_local and whoever runs next.
THEOREM MediaBeforeRecords == Spec => []NoDanglingMedia
<1>1. IInv => NoDanglingMedia
  BY DEF IInv
<1>2. QED
  BY <1>1, Invariance, PTL

\* posts.json lists only posts whose records are public.
THEOREM RecordsBeforeIndex == Spec => []IndexedPostsExist
<1>1. IInv => IndexedPostsExist
  BY DEF IInv
<1>2. QED
  BY <1>1, Invariance, PTL

\* Whenever no candidate is on disk, the public tree is one whole snapshot and
\* the next run can load it.
THEOREM CommittedTree == Spec => []CommittedTreeIsWhole
<1>1. IInv => CommittedTreeIsWhole
  BY DEF IInv, NothingHalfDone, CommittedTreeIsWhole, PublicLoads
<1>2. QED
  BY <1>1, Invariance, PTL

\* Once its candidate is being removed no work snapshot is left to resume, and
\* one that a later run could resume keeps every public post and archived slot.
THEOREM WorkIsRemoved == Spec => []NoStaleResume
<1>1. IInv => NoStaleResume
  BY DEF IInv, NothingHalfDone, RemovesAfter, NoStaleResume
<1>2. QED
  BY <1>1, Invariance, PTL
-----------------------------------------------------------------------------
(***************************************************************************)
(* Roll-forward publication                                                *)
(***************************************************************************)

\* Exposing a file is one of the four public steps of RollForward.
LEMMA ExposeMaps ==
    ASSUME IInv, NEW w \in Workers, Expose(w)
    PROVE  /\ candidate # NoSnapshot
           /\ candidate \in Snapshot
           /\ Keeps(candidate)
           /\ \/ \E p \in Posts : \/ Publication!AddMedia(p)
                                  \/ Publication!PutRecord(p)
              \/ Publication!PutIndex
              \/ Publication!PutState
<1> USE IInvParts
<1> DEFINE f == file[w]
<1>1. /\ pc[w] = "staged"
      /\ candidate' = candidate
      /\ media' = IF f[1] = "media" THEN media \cup {f[2]} ELSE media
      /\ record' = IF f[1] = "record"
                   THEN [record EXCEPT ![f[2]] = RecordOf(mem[w])[f[2]]]
                   ELSE record
      /\ index' = IF f[1] = "index" THEN PostsOf(mem[w]) ELSE index
      /\ queue' = IF f[1] = "state" THEN QueueOf(mem[w]) ELSE queue
  BY DEF Expose, candidateVars
<1>2. /\ candidate # NoSnapshot
      /\ candidate \in Snapshot
      /\ mem[w] = candidate
      /\ Keeps(candidate)
      /\ f[1] \in {"media", "record", "index", "state"}
      /\ f[1] = "media" => f[2] \in Posts /\ candidate[f[2]] = "archived"
      /\ f[1] = "record" => f[2] \in Posts
      /\ \A g \in pub[w] : Rank(f) <= Rank(g)
  BY <1>1, ExposeContext
<1>3. /\ \A p \in Posts : candidate[p] = "archived" =>
                              p \in media \/ <<"media", p>> \in pub[w]
      /\ \A p \in PostsOf(candidate) :
             <<"record", p>> \notin pub[w] => record[p] = RecordOf(candidate)[p]
      /\ <<"index", NoPost>> \notin pub[w] => index = PostsOf(candidate)
  BY <1>1, ExposeContext DEF PublishesTowards, Publishing
<1>4. /\ Publication!RecordOf(candidate) = RecordOf(candidate)
      /\ Publication!PostsOf(candidate) = PostsOf(candidate)
      /\ Publication!QueueOf(candidate) = QueueOf(candidate)
  BY DEF Publication!RecordOf, Publication!PostsOf, Publication!QueueOf,
         RecordOf, PostsOf, QueueOf
<1>5. f[1] \in {"index", "state"} => record = RecordOf(candidate)
  <2>1. ASSUME f[1] \in {"index", "state"}, NEW p \in PostsOf(candidate),
               <<"record", p>> \in pub[w]
        PROVE  FALSE
    <3>1. Rank(f) \in {3, 4} /\ Rank(<<"record", p>>) = 2
      BY <2>1 DEF Rank
    <3>2. QED
      BY <1>2, <2>1, <3>1
  <2>2. QED
    BY <1>2, <1>3, <2>1, RecordsShown
<1>6. f[1] = "state" => index = PostsOf(candidate)
  <2>1. ASSUME f[1] = "state", <<"index", NoPost>> \in pub[w]
        PROVE  FALSE
    <3>1. Rank(f) = 4 /\ Rank(<<"index", NoPost>>) = 3
      BY <2>1 DEF Rank
    <3>2. QED
      BY <1>2, <2>1, <3>1
  <2>2. QED
    BY <1>3, <2>1
<1>7. CASE f[1] = "media"
  <2>1. Publication!AddMedia(f[2])
    BY <1>1, <1>2, <1>7 DEF Publication!AddMedia
  <2>2. QED
    BY <1>2, <1>7, <2>1
<1>8. CASE f[1] = "record"
  <2>1. candidate[f[2]] = "archived" => f[2] \in media
    <3>1. Rank(f) = 2 /\ Rank(<<"media", f[2]>>) = 1
      BY <1>8 DEF Rank
    <3>2. QED
      BY <1>2, <1>3, <1>8, <3>1
  <2>2. Publication!PutRecord(f[2])
    BY <1>1, <1>2, <1>4, <1>8, <2>1 DEF Publication!PutRecord
  <2>3. QED
    BY <1>2, <1>8, <2>2
<1>9. CASE f[1] = "index"
  BY <1>1, <1>2, <1>4, <1>5, <1>9 DEF Publication!PutIndex
<1>10. CASE f[1] = "state"
  BY <1>1, <1>2, <1>4, <1>5, <1>6, <1>10 DEF Publication!PutState
<1>11. QED
  BY <1>2, <1>7, <1>8, <1>9, <1>10

\* Writing a candidate stages a snapshot that extends the public one.
LEMMA WriteCandidateMaps ==
    ASSUME IInv, NEW w \in Workers, WriteCandidate(w)
    PROVE  Publication!StageSnapshot
<1>1. /\ candidate = NoSnapshot
      /\ Keeps(mem[w])
      /\ mem[w] \in Snapshot
      /\ candidate' = mem[w]
      /\ UNCHANGED <<media, record, index, queue>>
  BY DEF WriteCandidate, IInv, BuildsOn, Building, TypeOK, publicVars
<1>2. mem[w] \in Publication!Snapshot /\ Publication!Extends(mem[w])
  BY <1>1 DEF Publication!Snapshot, Publication!Status, Publication!Extends,
     Snapshot, Status, Keeps
<1>3. QED
  BY <1>1, <1>2 DEF Publication!StageSnapshot

LEMMA RemoveCandidateMaps ==
    ASSUME IInv, NEW w \in Workers, RemoveCandidate(w)
    PROVE  Publication!Retire
<1>1. /\ pc[w] = "rmcandidate"
      /\ candidate' = NoSnapshot
      /\ UNCHANGED <<media, record, index, queue>>
  BY DEF RemoveCandidate, publicVars
<1>2. /\ candidate # NoSnapshot
      /\ record = RecordOf(candidate)
      /\ index = PostsOf(candidate)
      /\ QueueShows(candidate)
  BY <1>1 DEF IInv, RemovesAfter, Removing
<1>3. Publication!Shows(candidate)
  BY <1>2 DEF Publication!Shows, Publication!RecordOf, Publication!PostsOf,
     Publication!QueueOf, RecordOf, PostsOf, QueueOf, QueueShows
<1>4. QED
  BY <1>1, <1>2, <1>3 DEF Publication!Retire

LEMMA RepairMaps ==
    ASSUME IInv, NEW p \in Posts, Repair(p)
    PROVE  Publication!Requeue(p)
  BY DEF Repair, Publication!Requeue, candidateVars

\* Every other step but these three leaves the public files and the candidate.
LEMMA OtherStepsMap ==
    ASSUME NEW w \in Workers, WorkerStep(w) \/ Fault(w),
           ~Expose(w), ~WriteCandidate(w), ~RemoveCandidate(w)
    PROVE  UNCHANGED Publication!vars
<1>1. CASE WorkerStep(w)
  BY <1>1 DEF WorkerStep, Acquire, Replay, ReplayRejected, Resume, ResumeRejected,
     LoadPrevious, Collect, ProvidersExhausted, CollectAborted, SaveFresh, SaveBackup,
     SaveChecked, SavePromote, DiscardBackup, SaveReplaced, SaveDone, Rollback, Restore,
     ArchiveSlot, ArchiveDone, Stage, Unlink, Cleanup, RemoveWork, RemoveCandidateFile,
     publicVars, candidateVars, Publication!vars
<1>2. CASE Fault(w)
  BY <1>2, StaleLeft DEF Fault, GivesUp, SwapRaises, DiscardRaises, publicVars,
     candidateVars, Publication!vars
<1>3. QED
  BY <1>1, <1>2

LEMMA StepMaps == IInv /\ [Next]_vars => [Publication!Next]_(Publication!vars)
<1> SUFFICES ASSUME IInv, [Next]_vars
             PROVE  Publication!Next \/ UNCHANGED Publication!vars
  OBVIOUS
<1>1. ASSUME NEW w \in Workers, WorkerStep(w) \/ Fault(w)
      PROVE  Publication!Next \/ UNCHANGED Publication!vars
  <2>1. CASE Expose(w)
    BY <2>1, ExposeMaps DEF Publication!Next
  <2>2. CASE WriteCandidate(w)
    BY <2>2, WriteCandidateMaps DEF Publication!Next
  <2>3. CASE RemoveCandidate(w)
    BY <2>3, RemoveCandidateMaps DEF Publication!Next
  <2>4. QED
    BY <1>1, <2>1, <2>2, <2>3, OtherStepsMap
<1>2. ASSUME NEW p \in Posts, Repair(p)
      PROVE  Publication!Next
  BY <1>2, RepairMaps DEF Publication!Next
<1>3. CASE UNCHANGED vars
  BY <1>3 DEF vars, publicVars, candidateVars, Publication!vars
<1>4. QED
  BY <1>1, <1>2, <1>3 DEF Next

\* The refresh, with its lock, kills, failures and restarts, is roll-forward
\* publication: what a reader of /data may rely on.
THEOREM Refinement == Spec => ImplementsRollForward
<1>1. Init => Publication!Init
  BY DEF Init, Publication!Init
<1>2. QED
  BY <1>1, StepMaps, Invariance, PTL DEF Spec, ImplementsRollForward, Publication!Spec

\* A public post stays public, an archived slot stays archived and a listed
\* post stays listed, in every step of every run, resumed or replayed.
THEOREM NeverRegresses == Spec => PublicNeverRegresses
<1> DEFINE Keeping ==
        \A p \in Posts : /\ record[p] # "none" => record'[p] # "none"
                         /\ record[p] = "local" => record'[p] = "local"
                         /\ p \in index => p \in index'
<1>1. IInv /\ [Next]_vars => [Keeping]_vars
  <2> SUFFICES ASSUME IInv, [Next]_vars
               PROVE  Keeping
    OBVIOUS
  <2>1. ASSUME NEW w \in Workers, Expose(w)
        PROVE  Keeping
    <3>1. /\ Keeps(candidate)
          /\ \A p \in index : record[p] # "none"
          /\ index \subseteq Posts
          /\ record \in [Posts -> {"none", "source", "local"}]
      BY <2>1, ExposeMaps DEF IInv, IndexedPostsExist, TypeOK
    <3>2. mem[w] = candidate /\ pc[w] = "staged"
      BY <2>1, ExposeContext DEF Expose
    <3>3. /\ \/ record' = record
             \/ \E p \in Posts : record' = [record EXCEPT ![p] = RecordOf(candidate)[p]]
          /\ \/ index' = index
             \/ index' = PostsOf(candidate)
      BY <2>1, <3>2, ExposeContext DEF Expose
    <3>4. ASSUME NEW p \in Posts
          PROVE  /\ record[p] # "none" => RecordOf(candidate)[p] # "none"
                 /\ record[p] = "local" => RecordOf(candidate)[p] = "local"
                 /\ record[p] # "none" => p \in PostsOf(candidate)
      BY <3>1 DEF Keeps, RecordOf, PostsOf
    <3>5. QED
      BY <3>1, <3>3, <3>4
  <2>2. ASSUME UNCHANGED <<record, index>>
        PROVE  Keeping
    BY <2>2
  <2>3. CASE UNCHANGED vars
    BY <2>2, <2>3 DEF vars, publicVars
  <2>4. ASSUME NEW w \in Workers, WorkerStep(w) \/ Fault(w), ~Expose(w)
        PROVE  UNCHANGED <<record, index>>
    <3>1. CASE WriteCandidate(w)
      BY <3>1 DEF WriteCandidate, publicVars
    <3>2. CASE RemoveCandidate(w)
      BY <3>2 DEF RemoveCandidate, publicVars
    <3>3. QED
      BY <2>4, <3>1, <3>2, OtherStepsMap DEF Publication!vars
  <2>5. ASSUME NEW p \in Posts, Repair(p)
        PROVE  UNCHANGED <<record, index>>
    BY <2>5 DEF Repair
  <2>6. QED
    BY <2>1, <2>2, <2>3, <2>4, <2>5 DEF Next
<1>2. QED
  BY <1>1, Invariance, PTL DEF Spec, PublicNeverRegresses

-----------------------------------------------------------------------------
(***************************************************************************)
(* Saved posts                                                             *)
(***************************************************************************)

\* The steps at which a kill leaves a temporary media file, leaves the saved
\* snapshot under a name nobody knows, or leaves a part of the candidate ...
Harmful == {"staged", "linked", "moved", "swap", "restore", "rmcandidate"}

\* ... and those at which an error does: it comes from the unlink of the
\* temporary, from the checks outside of the try block, while the backup is
\* removed, while it is put back, or while the candidate is removed.
HarmfulErrors == {"linked", "moved", "discard", "restore", "rmcandidate"}

\* The saved snapshot has only the name of the backup.
Backed == {"moved", "swap", "restore"}

\* A candidate has all saved posts, and every file a replay needs.
CandidateIsWhole ==
    candidate # NoSnapshot =>
        /\ \A p \in saved : candidate[p] # "absent"
        /\ (\A w \in Workers : pc[w] # "rmcandidate") => CandidateLoads

\* Without one they are public, saved, or in the backup.
NothingLost ==
    candidate = NoSnapshot =>
        \A p \in saved :
            \/ p \in index
            \/ workSnapshot \in Snapshot /\ workSnapshot[p] # "absent"
            \/ \E w \in Workers : pc[w] \in Backed

\* A worker that builds on the committed tree has all of them, and so have the
\* two snapshots between which it may have to fall back.
SavedHeld(w) ==
    /\ pc[w] \in Building => \A p \in saved : mem[w][p] # "absent"
    /\ pc[w] \in Backed =>
           backup \in Snapshot /\ \A p \in saved : backup[p] # "absent"
    /\ pc[w] = "discard" => workSnapshot = mem[w]
    /\ pc[w] # "rollback"

\* With it no temporary file is ever left behind.
SavedInv ==
    /\ stale = {}
    /\ CandidateIsWhole
    /\ NothingLost
    /\ \A w \in Workers : SavedHeld(w)

\* A public post is in every snapshot that keeps what is public.
LEMMA IndexedIsKept ==
    ASSUME IndexedPostsExist, NEW s, Keeps(s), NEW p \in Posts, p \in index
    PROVE  s[p] # "absent"
  BY DEF IndexedPostsExist, Keeps

\* Only posts are saved.
LEMMA SavedArePosts == ASSUME TypeOK PROVE saved \subseteq Posts
  BY DEF TypeOK

\* Only the step of w changes, and it neither replaced nor removed a snapshot.
LEMMA SavedStays ==
    ASSUME IInv, SavedInv, NEW w \in Workers, pc[w] # "idle",
           UNCHANGED <<index, stale, candidateVars, workSnapshot, saved>>,
           media \subseteq media',
           \A v \in Workers : v # w => pc'[v] = pc[v],
           pc[w] \notin Backed,
           pc[w] # "rmcandidate",
           SavedHeld(w)'
    PROVE  SavedInv'
<1>1. \A v \in Workers : v # w => pc[v] = "idle" /\ pc'[v] = "idle"
  BY OneWorker DEF IInv
<1>2. \A v \in Workers : SavedHeld(v)'
  BY <1>1 DEF SavedHeld, Building, Backed
<1>3. NothingLost'
  BY <1>1 DEF SavedInv, NothingLost, Backed, candidateVars
<1>4. \A v \in Workers : pc[v] # "rmcandidate"
  BY <1>1
<1>5. CandidateIsWhole'
  BY <1>4 DEF SavedInv, CandidateIsWhole, CandidateLoads, candidateVars
<1>6. QED
  BY <1>2, <1>3, <1>5 DEF SavedInv

\* What a run begins with has all saved posts.
LEMMA LoadSaves ==
    ASSUME IInv, IInv', SavedInv, NEW w \in Workers, Resume(w) \/ LoadPrevious(w)
    PROVE  SavedInv'
<1>1. /\ pc[w] = "load"
      /\ UNCHANGED <<publicVars, candidateVars, workSnapshot, saved>>
      /\ \A v \in Workers : v # w => pc'[v] = pc[v]
      /\ pc'[w] \in {"save", "collect"}
  BY BaselineLoads DEF Resume, LoadPrevious, Go, IInv, TypeOK, workVars, historyVars
<1>2. candidate = NoSnapshot /\ \A v \in Workers : pc[v] \notin Backed
  BY <1>1, OneWorker DEF IInv, BuildsOn, Backed
<1>3. ASSUME NEW p \in saved PROVE mem'[w][p] # "absent"
  <2>1. p \in Posts
    BY SavedArePosts DEF IInv
  <2>2. CASE p \in index
    <3>1. Keeps(mem[w])' /\ IndexedPostsExist'
      BY <1>1 DEF IInv, BuildsOn, Building
    <3>2. QED
      BY <1>1, <2>1, <2>2, <3>1 DEF Keeps, IndexedPostsExist, publicVars
  <2>3. CASE p \notin index
    <3>1. workSnapshot \in Snapshot /\ workSnapshot[p] # "absent"
      BY <1>2, <2>3 DEF SavedInv, NothingLost
    <3>2. Resume(w)
      BY <3>1 DEF LoadPrevious
    <3>3. QED
      BY <3>1, <3>2 DEF Resume, IInv, TypeOK
  <2>4. QED
    BY <2>2, <2>3
<1>4. SavedHeld(w)'
  BY <1>1, <1>3 DEF SavedHeld, Backed
<1>5. QED
  BY <1>1, <1>4, SavedStays DEF publicVars, Backed

\* What a worker that saves can rely on.
LEMMA SavingHolds ==
    ASSUME IInv, SavedInv, NEW w \in Workers, pc[w] \in {"save"} \cup Promoting
    PROVE  /\ candidate = NoSnapshot
           /\ mem[w] \in Snapshot
           /\ \A p \in saved : mem[w][p] # "absent"
           /\ SavedHeld(w)
           /\ pc[w] = "save" /\ workSnapshot \in Snapshot =>
                  \A p \in saved : workSnapshot[p] # "absent"
           /\ \A v \in Workers : v # w => pc[v] = "idle"
<1>1. /\ candidate = NoSnapshot
      /\ mem[w] \in Snapshot
      /\ workSnapshot \in Snapshot => Keeps(workSnapshot)
  BY SavingContext
<1>2. SavedHeld(w) /\ \A p \in saved : mem[w][p] # "absent"
  BY DEF SavedInv, SavedHeld, Building
<1>3. \A v \in Workers : v # w => pc[v] = "idle"
  BY OneWorker DEF IInv
<1>4. ASSUME pc[w] = "save", workSnapshot \in Snapshot, NEW p \in saved
      PROVE  workSnapshot[p] # "absent"
  <2>1. \A v \in Workers : pc[v] \notin Backed
    BY <1>3, <1>4 DEF Backed
  <2>2. p \in Posts
    BY SavedArePosts DEF IInv
  <2>3. CASE p \in index
    BY <1>1, <1>4, <2>2, <2>3, IndexedIsKept DEF IInv
  <2>4. CASE p \notin index
    BY <1>1, <2>1, <2>4 DEF SavedInv, NothingLost
  <2>5. QED
    BY <2>3, <2>4
<1>5. QED
  BY <1>1, <1>2, <1>3, <1>4

\* What is left to show of a step that saves, or puts back what was saved.
LEMMA SavingStays ==
    ASSUME SavedInv, NEW w \in Workers, candidate = NoSnapshot,
           \A v \in Workers : v # w => pc'[v] = "idle",
           UNCHANGED <<stale, candidateVars>>,
           \/ pc'[w] \in Backed
           \/ workSnapshot' \in Snapshot /\ \A p \in saved' : workSnapshot'[p] # "absent",
           SavedHeld(w)'
    PROVE  SavedInv'
<1>1. \A v \in Workers : SavedHeld(v)'
  BY DEF SavedHeld, Building, Backed
<1>2. NothingLost'
  BY DEF NothingLost
<1>3. QED
  BY <1>1, <1>2 DEF SavedInv, CandidateIsWhole, candidateVars

\* The work snapshot is replaced by one with all saved posts, or put back.
LEMMA SaveSaves ==
    ASSUME IInv, SavedInv, NEW w \in Workers,
           \/ SaveFresh(w) \/ SaveBackup(w) \/ SaveChecked(w) \/ SavePromote(w)
           \/ DiscardBackup(w) \/ SaveReplaced(w) \/ SwapRaises(w) \/ Restore(w)
    PROVE  SavedInv'
<1>1. /\ pc[w] \in {"save"} \cup Promoting
      /\ UNCHANGED <<publicVars, candidateVars>>
      /\ \A v \in Workers : v # w => pc'[v] = pc[v]
  BY DEF SaveFresh, SaveBackup, SaveChecked, SavePromote, DiscardBackup, SaveReplaced,
         SwapRaises, Restore, SaveDone, Leave, Go, IInv, TypeOK, workerVars
<1>2. /\ candidate = NoSnapshot
      /\ mem[w] \in Snapshot
      /\ \A p \in saved : mem[w][p] # "absent"
      /\ SavedHeld(w)
      /\ pc[w] = "save" /\ workSnapshot \in Snapshot =>
             \A p \in saved : workSnapshot[p] # "absent"
      /\ \A v \in Workers : v # w => pc'[v] = "idle"
  BY <1>1, SavingHolds
<1>3. stale' = stale
  BY <1>1 DEF publicVars
<1>4. CASE SaveBackup(w)
  <2>1. /\ pc[w] = "save" /\ pc'[w] = "moved"
        /\ workSnapshot \in Snapshot
        /\ backup' = workSnapshot
        /\ UNCHANGED <<mem, saved>>
    BY <1>4 DEF SaveBackup, Go, IInv, TypeOK, historyVars
  <2>2. SavedHeld(w)'
    BY <1>2, <2>1 DEF SavedHeld
  <2>3. QED
    BY <1>1, <1>2, <1>3, <2>1, <2>2, SavingStays DEF Backed
<1>5. CASE SaveChecked(w) \/ SwapRaises(w)
  <2>1. /\ pc[w] \in Backed
        /\ pc'[w] \in {"swap", "restore"}
        /\ UNCHANGED <<mem, backup, saved>>
    BY <1>5 DEF SaveChecked, SwapRaises, Go, IInv, TypeOK, workVars, historyVars, Backed
  <2>2. SavedHeld(w)'
    BY <1>2, <2>1 DEF SavedHeld
  <2>3. QED
    BY <1>1, <1>2, <1>3, <2>1, <2>2, SavingStays DEF Backed
<1>6. CASE SavePromote(w) \/ DiscardBackup(w)
  <2>1. /\ pc'[w] = "discard"
        /\ workSnapshot' = mem[w]
        /\ UNCHANGED <<mem, saved>>
    BY <1>2, <1>6 DEF SavePromote, DiscardBackup, Go, IInv, TypeOK, SavedHeld,
       workerVars, historyVars
  <2>2. SavedHeld(w)'
    BY <1>2, <2>1 DEF SavedHeld, Backed
  <2>3. QED
    BY <1>1, <1>2, <1>3, <2>1, <2>2, SavingStays
<1>7. CASE SaveFresh(w) \/ SaveReplaced(w)
  <2>1. /\ pc'[w] = "archive"
        /\ workSnapshot' = mem[w]
        /\ saved' = saved \cup PostsOf(mem[w])
        /\ mem' = mem
    BY <1>2, <1>7 DEF SaveFresh, SaveReplaced, SaveDone, Go, IInv, TypeOK, SavedHeld
  <2>2. \A p \in saved' : mem[w][p] # "absent"
    BY <1>2, <2>1 DEF PostsOf
  <2>3. SavedHeld(w)'
    BY <2>1, <2>2 DEF SavedHeld, Backed
  <2>4. QED
    BY <1>1, <1>2, <1>3, <2>1, <2>2, <2>3, SavingStays
<1>8. CASE Restore(w)
  <2>1. /\ pc[w] = "restore" /\ pc'[w] = "idle"
        /\ workSnapshot' = backup
        /\ saved' = saved
    BY <1>8 DEF Restore, Leave, IInv, TypeOK, historyVars
  <2>2. backup \in Snapshot /\ \A p \in saved : backup[p] # "absent"
    BY <1>2, <2>1 DEF SavedHeld, Backed
  <2>3. SavedHeld(w)'
    BY <2>1 DEF SavedHeld, Building, Backed
  <2>4. QED
    BY <1>1, <1>2, <1>3, <2>1, <2>2, <2>3, SavingStays
<1>9. QED
  BY <1>4, <1>5, <1>6, <1>7, <1>8

\* The candidate has all saved posts, and all of its files.
LEMMA WriteSaves ==
    ASSUME IInv, IInv', SavedInv, NEW w \in Workers, WriteCandidate(w)
    PROVE  SavedInv'
<1>1. /\ pc[w] = "write"
      /\ candidate' = mem[w]
      /\ candidateFiles' = FilesOf(mem[w], media)
      /\ UNCHANGED <<mem, publicVars, saved>>
      /\ pc'[w] = "publish"
      /\ \A v \in Workers : v # w => pc'[v] = pc[v]
  BY DEF WriteCandidate, Go, IInv, TypeOK, historyVars
<1>2. \A p \in saved : mem[w][p] # "absent"
  BY <1>1 DEF SavedInv, SavedHeld, Building
<1>3. candidate' # NoSnapshot
  BY <1>1 DEF IInv, TypeOK
<1>4. CandidateLoads'
  BY <1>1, <1>3 DEF CandidateLoads, FilesOf, SavedInv, publicVars
<1>5. \A v \in Workers : SavedHeld(v)'
  BY <1>1, OneWorker DEF IInv, SavedInv, SavedHeld, Building, Backed
<1>6. QED
  BY <1>1, <1>2, <1>3, <1>4, <1>5 DEF SavedInv, CandidateIsWhole, NothingLost, publicVars

\* Publishing changes the index to that of the candidate.
LEMMA PublishSaves ==
    ASSUME IInv, SavedInv, NEW w \in Workers,
           Stage(w) \/ Expose(w) \/ Unlink(w) \/ Cleanup(w)
    PROVE  SavedInv'
<1>1. /\ pc[w] \in Publishing
      /\ UNCHANGED <<mem, candidateVars, saved>>
      /\ media \subseteq media'
      /\ stale' \subseteq stale
      /\ \A v \in Workers : v # w => pc'[v] = pc[v]
      /\ pc'[w] \in Publishing \cup {"rmwork"}
  BY DEF Stage, Expose, Unlink, Cleanup, Go, IInv, TypeOK, publicVars, historyVars,
     Publishing
<1>2. candidate # NoSnapshot
  BY <1>1 DEF IInv, PublishesTowards
<1>3. \A v \in Workers : pc[v] # "rmcandidate"
  BY <1>1, OneWorker DEF IInv, Publishing
<1>4. CandidateIsWhole'
  BY <1>1, <1>2, <1>3 DEF SavedInv, CandidateIsWhole, CandidateLoads, candidateVars
<1>5. \A v \in Workers : SavedHeld(v)'
  BY <1>1, OneWorker DEF IInv, SavedHeld, Building, Publishing, Backed
<1>6. QED
  BY <1>1, <1>2, <1>4, <1>5 DEF SavedInv, NothingLost, candidateVars

\* What is removed is public.
LEMMA RemoveSaves ==
    ASSUME IInv, SavedInv, NEW w \in Workers,
           RemoveWork(w) \/ RemoveCandidateFile(w) \/ RemoveCandidate(w)
    PROVE  SavedInv'
<1>1. /\ pc[w] \in Removing
      /\ UNCHANGED <<publicVars, saved>>
      /\ \A v \in Workers : v # w => pc'[v] = pc[v]
      /\ pc'[w] \in Removing \cup {"load", "idle"}
  BY DEF RemoveWork, RemoveCandidateFile, RemoveCandidate, Leave, Go, IInv, TypeOK,
     workerVars, historyVars, Removing
<1>2. candidate # NoSnapshot /\ index = PostsOf(candidate)
  BY <1>1 DEF IInv, RemovesAfter
<1>3. saved \subseteq index
  BY <1>2, SavedArePosts DEF SavedInv, CandidateIsWhole, IInv, PostsOf
<1>4. \A v \in Workers : v # w => pc[v] = "idle" /\ pc'[v] = "idle"
  BY <1>1, OneWorker DEF IInv, Removing
<1>5. \A v \in Workers : SavedHeld(v)'
  BY <1>1, <1>4 DEF SavedHeld, Building, Removing, Backed
<1>6. NothingLost'
  BY <1>1, <1>3 DEF NothingLost, publicVars
<1>7. CandidateIsWhole'
  <2>1. CASE RemoveCandidate(w)
    BY <2>1 DEF RemoveCandidate, CandidateIsWhole
  <2>2. CASE RemoveCandidateFile(w)
    BY <1>1, <2>2 DEF RemoveCandidateFile, SavedInv, CandidateIsWhole, workerVars
  <2>3. CASE RemoveWork(w)
    <3>1. UNCHANGED candidateVars /\ pc[w] = "rmwork"
      BY <2>3 DEF RemoveWork
    <3>2. \A v \in Workers : pc[v] # "rmcandidate"
      BY <1>4, <3>1
    <3>3. QED
      BY <1>1, <3>1, <3>2 DEF SavedInv, CandidateIsWhole, CandidateLoads, publicVars,
         candidateVars
  <2>4. QED
    BY <2>1, <2>2, <2>3
<1>8. QED
  BY <1>1, <1>5, <1>6, <1>7 DEF SavedInv, publicVars

\* A kill or an error elsewhere leaves all saved posts.
LEMMA FaultSaves ==
    ASSUME Interruptible \cap Harmful = {}, Failing \cap HarmfulErrors = {},
           IInv, SavedInv, NEW w \in Workers, Kill(w) \/ StorageError(w)
    PROVE  SavedInv'
<1>1. /\ pc[w] # "idle"
      /\ pc'[w] = "idle"
      /\ UNCHANGED <<index, media, candidateVars, workSnapshot, saved>>
      /\ \A v \in Workers : v # w => pc'[v] = pc[v]
  BY StaleLeft DEF GivesUp, Leave, IInv, TypeOK
<1>2. pc[w] # "rmcandidate" /\ pc[w] \notin Backed
  BY DEF Kill, StorageError, Harmful, HarmfulErrors, Backed
<1>3. stale' = stale
  <2>1. CASE Kill(w)
    BY <2>1 DEF Kill, Harmful
  <2>2. CASE StorageError(w)
    <3>1. "linked" \notin Failing /\ pc[w] # "linked"
      BY <2>2 DEF StorageError, HarmfulErrors
    <3>2. QED
      BY <2>2, <3>1 DEF StorageError
  <2>3. QED
    BY <2>1, <2>2
<1>4. SavedHeld(w)'
  BY <1>1 DEF SavedHeld, Building, Backed
<1>5. QED
  BY <1>1, <1>2, <1>3, <1>4, SavedStays

\* Steps that leave everything saved in its place.
LEMMA QuietSaves ==
    ASSUME IInv, SavedInv, NEW w \in Workers,
           \/ Replay(w)
           \/ ReplayRejected(w)
           \/ ResumeRejected(w)
           \/ Collect(w)
           \/ ProvidersExhausted(w)
           \/ CollectAborted(w)
           \/ ArchiveSlot(w)
           \/ ArchiveDone(w)
    PROVE  SavedInv'
<1>1. /\ pc[w] \in {"recover", "load", "collect", "archive"}
      /\ UNCHANGED <<publicVars, candidateVars, workSnapshot, saved>>
      /\ \A v \in Workers : v # w => pc'[v] = pc[v]
  BY DEF Replay, ReplayRejected, ResumeRejected, Collect, ProvidersExhausted, CollectAborted,
     ArchiveSlot, ArchiveDone, Go, Leave, IInv, TypeOK, workVars, historyVars
<1>2. SavedHeld(w)'
  <2>1. pc'[w] \in Building => pc[w] \in {"collect", "archive"}
    BY DEF Replay, ReplayRejected, ResumeRejected, Collect, ProvidersExhausted, CollectAborted,
       ArchiveSlot, ArchiveDone, Go, Leave, IInv, TypeOK, Building
  <2>2. pc'[w] \in Building =>
            \A p \in Posts : mem[w][p] # "absent" => mem'[w][p] # "absent"
    BY DEF Replay, ReplayRejected, ResumeRejected, Collect, ProvidersExhausted, CollectAborted,
       ArchiveSlot, ArchiveDone, Go, Leave, IInv, TypeOK, Snapshot, Building
  <2>3. pc'[w] \notin Promoting
    BY DEF Replay, ReplayRejected, ResumeRejected, Collect, ProvidersExhausted,
       CollectAborted, ArchiveSlot, ArchiveDone, Go, Leave, IInv, TypeOK
  <2>4. QED
    BY <1>1, <2>1, <2>2, <2>3, SavedArePosts DEF IInv, SavedInv, SavedHeld, Building, Backed
<1>3. QED
  BY <1>1, <1>2, SavedStays DEF publicVars, Backed

\* Nobody is inside when a run begins.
LEMMA AcquireSaves ==
    ASSUME IInv, SavedInv, NEW w \in Workers, Acquire(w)
    PROVE  SavedInv'
<1>1. UNCHANGED <<publicVars, candidateVars, workSnapshot, saved>>
  BY DEF Acquire, workVars, historyVars
<1>2. \A v \in Workers : pc[v] = "idle"
  BY DEF Acquire, IInv, LockHeld, TypeOK
<1>3. \A v \in Workers : pc'[v] \in {"idle", "recover", "load"}
  BY <1>2 DEF Acquire, Go, IInv, TypeOK
<1>4. QED
  BY <1>1, <1>2, <1>3 DEF SavedInv, SavedHeld, NothingLost, CandidateIsWhole,
     CandidateLoads, Building, Backed, publicVars, candidateVars

\* Every step keeps the saved posts.
LEMMA SavedStep ==
    ASSUME Interruptible \cap Harmful = {}, Failing \cap HarmfulErrors = {},
           IInv, IInv', SavedInv, [Next]_vars
    PROVE  SavedInv'
<1>1. CASE UNCHANGED vars
  BY <1>1 DEF vars, workerVars, publicVars, candidateVars, workVars, historyVars, SavedInv,
     SavedHeld, NothingLost, CandidateIsWhole, CandidateLoads
<1>2. ASSUME NEW p \in Posts, Repair(p) PROVE SavedInv'
  <2>1. UNCHANGED <<workerVars, media, index, stale, candidateVars, workVars, saved>>
    BY <1>2 DEF Repair
  <2>2. QED
    BY <2>1 DEF workerVars, candidateVars, workVars, SavedInv, SavedHeld, NothingLost,
       CandidateIsWhole, CandidateLoads
<1>3. ASSUME NEW w \in Workers, WorkerStep(w) PROVE SavedInv'
  <2>1. ~Rollback(w)
    BY DEF Rollback, SavedInv, SavedHeld
  <2>2. QED
    BY <1>3, <2>1, AcquireSaves, QuietSaves, LoadSaves, SaveSaves, WriteSaves,
       PublishSaves, RemoveSaves DEF WorkerStep
<1>4. ASSUME NEW w \in Workers, Fault(w) PROVE SavedInv'
  <2>1. ~DiscardRaises(w)
    BY DEF DiscardRaises, HarmfulErrors
  <2>2. QED
    BY <1>4, <2>1, SaveSaves, FaultSaves DEF Fault
<1>5. QED
  BY <1>1, <1>2, <1>3, <1>4 DEF Next

\* Saved posts are not lost, for any posts and workers and any number of kills
\* and storage errors outside of the steps of Harmful and HarmfulErrors.  Inside
\* of them they can be: by an error while promote_directory removes its backup,
\* or at its checks after the first rename, in a run that saves again what an
\* earlier one saved.
THEOREM SavedSurvive ==
    ASSUME Interruptible \cap Harmful = {}, Failing \cap HarmfulErrors = {}
    PROVE  Spec => []SavedPostsSurvive
<1>1. Init => SavedInv
  BY DEF Init, SavedInv, CandidateIsWhole, NothingLost, SavedHeld, Building, Backed
<1>2. IInv /\ IInv' /\ SavedInv /\ [Next]_vars => SavedInv'
  BY SavedStep
<1>3. IInv /\ SavedInv => SavedPostsSurvive
  <2> SUFFICES ASSUME IInv, SavedInv, NEW p \in saved
               PROVE  \/ p \in index
                      \/ workSnapshot \in Snapshot /\ workSnapshot[p] # "absent"
                      \/ candidate \in Snapshot /\ candidate[p] # "absent"
                           /\ CandidateLoads
                      \/ backup \in Snapshot /\ backup[p] # "absent"
    BY DEF SavedPostsSurvive
  <2>1. CASE candidate = NoSnapshot
    BY <2>1 DEF SavedInv, NothingLost, SavedHeld
  <2>2. CASE candidate # NoSnapshot /\ \A w \in Workers : pc[w] # "rmcandidate"
    BY <2>2 DEF SavedInv, CandidateIsWhole, IInv, TypeOK
  <2>3. CASE candidate # NoSnapshot /\ \E w \in Workers : pc[w] = "rmcandidate"
    BY <2>3, SavedArePosts DEF SavedInv, CandidateIsWhole, IInv, RemovesAfter, Removing,
       PostsOf
  <2>4. QED
    BY <2>1, <2>2, <2>3
<1>4. QED
  BY Invariance, <1>1, <1>2, <1>3, PTL DEF Spec

=============================================================================
