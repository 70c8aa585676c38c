----------------------------- MODULE Promotion -----------------------------
(***************************************************************************)
(* One call of SnapshotRepository.write (storage/repository.py) with the   *)
(* promotion of storage/safe_promotion.py, rename by rename, where any     *)
(* call on the file system may raise: an I/O error, a full disk, an        *)
(* interrupt.                                                              *)
(*                                                                         *)
(* Three names matter in the parent directory: the root, the temporary     *)
(* sibling in which the candidate is built, and the backup of the prior    *)
(* root.  A tree has an identity (device and inode), which renames keep,   *)
(* and some of its files; both trees have the same file names.  Processes  *)
(* of the same user that replace these entries are outside the documented  *)
(* threat model, so an identity check fails here only by raising.          *)
(***************************************************************************)
CONSTANTS
    Files,    \* the files of a whole tree
    Failing   \* the steps in which a call may raise

Trees == [id : {"prior", "candidate"}, files : SUBSET Files]
Tree(id, files) == [id |-> id, files |-> files]
NoTree == Tree("none", {})
Prior == Tree("prior", Files)
Candidate == Tree("candidate", Files)

Steps == {"begin", "make", "build", "promote", "fresh", "checkFresh", "away",
          "moved", "swap", "check", "discard", "rollback", "restore", "clean",
          "done"}

VARIABLES
    root,     \* the canonical snapshot
    temp,     \* the private sibling
    backup,   \* the prior root while it is replaced
    pc,       \* the next step of write
    raised,   \* an exception is on its way to the caller
    before    \* history: the root that write found

vars == <<root, temp, backup, pc, raised, before>>

TypeOK ==
    /\ root \in Trees \cup {NoTree}
    /\ temp \in Trees \cup {NoTree}
    /\ backup \in Trees \cup {NoTree}
    /\ pc \in Steps
    /\ raised \in BOOLEAN
    /\ before \in Trees \cup {NoTree}

\* No root, a placeholder the workflow made, a snapshot, or a damaged one.
Init ==
    /\ root \in {NoTree} \cup {Tree("prior", files) : files \in SUBSET Files}
    /\ before = root
    /\ temp = NoTree
    /\ backup = NoTree
    /\ pc = "begin"
    /\ raised = FALSE

At(step, next) == pc = step /\ pc' = next
\* The call at this step raises; control goes to the handler.
Raise(step, handler) ==
    /\ step \in Failing
    /\ At(step, handler)
    /\ raised' = TRUE

\* A root that is there must be empty or whole.
Begin ==
    /\ root \in {NoTree, Tree("prior", {}), Prior}
    /\ At("begin", "make")
    /\ UNCHANGED <<root, temp, backup, raised, before>>

BeginRaises ==
    /\ \/ "begin" \in Failing
       \/ root \notin {NoTree, Tree("prior", {}), Prior}
    /\ At("begin", "done")
    /\ raised' = TRUE
    /\ UNCHANGED <<root, temp, backup, before>>

Make ==
    /\ At("make", "build")
    /\ temp' = Tree("candidate", {})
    /\ UNCHANGED <<root, backup, raised, before>>

MakeRaises ==
    /\ Raise("make", "done")
    /\ UNCHANGED <<root, temp, backup, before>>

\* write_directory_tree, one file after the other ...
BuildFile ==
    /\ At("build", "build")
    /\ \E file \in Files \ temp.files : temp' = [temp EXCEPT !.files = @ \cup {file}]
    /\ UNCHANGED <<root, backup, raised, before>>

\* ... then the finished tree is read back and validated.
Built ==
    /\ temp = Candidate
    /\ At("build", "promote")
    /\ UNCHANGED <<root, temp, backup, raised, before>>

BuildRaises ==
    /\ Raise("build", "clean")
    /\ UNCHANGED <<root, temp, backup, before>>

\* promote_directory checks both entries and chooses how to go on.
Promote ==
    /\ At("promote", IF root = NoTree THEN "fresh" ELSE "away")
    /\ UNCHANGED <<root, temp, backup, raised, before>>

PromoteRaises ==
    /\ Raise("promote", "clean")
    /\ UNCHANGED <<root, temp, backup, before>>

PromoteFresh ==
    /\ At("fresh", "checkFresh")
    /\ root' = temp
    /\ temp' = NoTree
    /\ UNCHANGED <<backup, raised, before>>

FreshRaises ==
    /\ Raise("fresh", "clean")
    /\ UNCHANGED <<root, temp, backup, before>>

CheckFresh ==
    /\ At("checkFresh", "clean")
    /\ UNCHANGED <<root, temp, backup, raised, before>>

\* The candidate gets its temporary name back.
CheckFreshRaises ==
    /\ Raise("checkFresh", "clean")
    /\ temp' = root
    /\ root' = NoTree
    /\ UNCHANGED <<backup, before>>

MoveAway ==
    /\ At("away", "moved")
    /\ backup' = root
    /\ root' = NoTree
    /\ UNCHANGED <<temp, raised, before>>

AwayRaises ==
    /\ Raise("away", "clean")
    /\ UNCHANGED <<root, temp, backup, before>>

\* The two checks after that rename are outside the try block.
Moved ==
    /\ At("moved", "swap")
    /\ UNCHANGED <<root, temp, backup, raised, before>>

MovedRaises ==
    /\ Raise("moved", "clean")
    /\ UNCHANGED <<root, temp, backup, before>>

Swap ==
    /\ At("swap", "check")
    /\ root' = temp
    /\ temp' = NoTree
    /\ UNCHANGED <<backup, raised, before>>

SwapRaises ==
    /\ Raise("swap", "restore")
    /\ UNCHANGED <<root, temp, backup, before>>

Check ==
    /\ At("check", "discard")
    /\ UNCHANGED <<root, temp, backup, raised, before>>

CheckRaises ==
    /\ Raise("check", "rollback")
    /\ UNCHANGED <<root, temp, backup, before>>

\* shutil.rmtree on the backup, one file after the other, then the directory.
DiscardFile ==
    /\ At("discard", "discard")
    /\ \E file \in backup.files : backup' = [backup EXCEPT !.files = @ \ {file}]
    /\ UNCHANGED <<root, temp, raised, before>>

Discard ==
    /\ backup.files = {}
    /\ At("discard", "clean")
    /\ backup' = NoTree
    /\ UNCHANGED <<root, temp, raised, before>>

DiscardRaises ==
    /\ Raise("discard", "rollback")
    /\ UNCHANGED <<root, temp, backup, before>>

\* _rollback_candidate, then _restore_backup, in a handler that raises again.
Rollback ==
    /\ At("rollback", "restore")
    /\ temp' = root
    /\ root' = NoTree
    /\ UNCHANGED <<backup, raised, before>>

RollbackRaises ==
    /\ Raise("rollback", "clean")
    /\ UNCHANGED <<root, temp, backup, before>>

Restore ==
    /\ At("restore", "clean")
    /\ root' = backup
    /\ backup' = NoTree
    /\ UNCHANGED <<temp, raised, before>>

RestoreRaises ==
    /\ Raise("restore", "clean")
    /\ UNCHANGED <<root, temp, backup, before>>

\* The finally clause of write removes what has the temporary name.
CleanFile ==
    /\ At("clean", "clean")
    /\ \E file \in temp.files : temp' = [temp EXCEPT !.files = @ \ {file}]
    /\ UNCHANGED <<root, backup, raised, before>>

Clean ==
    /\ temp.files = {}
    /\ At("clean", "done")
    /\ temp' = NoTree
    /\ UNCHANGED <<root, backup, raised, before>>

CleanRaises ==
    /\ Raise("clean", "done")
    /\ UNCHANGED <<root, temp, backup, before>>

Next ==
    \/ Begin \/ BeginRaises
    \/ Make \/ MakeRaises
    \/ BuildFile \/ Built \/ BuildRaises
    \/ Promote \/ PromoteRaises
    \/ PromoteFresh \/ FreshRaises
    \/ CheckFresh \/ CheckFreshRaises
    \/ MoveAway \/ AwayRaises
    \/ Moved \/ MovedRaises
    \/ Swap \/ SwapRaises
    \/ Check \/ CheckRaises
    \/ DiscardFile \/ Discard \/ DiscardRaises
    \/ Rollback \/ RollbackRaises
    \/ Restore \/ RestoreRaises
    \/ CleanFile \/ Clean \/ CleanRaises

Spec == Init /\ [][Next]_vars

-----------------------------------------------------------------------------
(***************************************************************************)
(* Properties                                                              *)
(***************************************************************************)

\* architecture.md:305 "Interrupted serialization or promotion removes a
\* verified partial sibling and keeps the previous canonical root
\* byte-identical."
PriorKept ==
    pc = "done" /\ raised => root = before /\ temp = NoTree

\* At every moment the root is absent, what it was, or the whole new snapshot.
RootIsWhole == root \in {NoTree, before, Candidate}

\* A call that returns has put the candidate in place and left nothing behind.
ReturnMeansPromoted ==
    pc = "done" /\ ~raised =>
        /\ root = Candidate
        /\ temp = NoTree
        /\ backup = NoTree
=============================================================================
