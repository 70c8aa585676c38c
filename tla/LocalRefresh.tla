---------------------------- MODULE LocalRefresh ----------------------------
(***************************************************************************)
(* The one-shot local refresh (service/local.py) together with the storage *)
(* it drives: the saved work snapshot and the media work files under       *)
(* /state/work, the candidate under /state/candidate, and the public tree  *)
(* under /data that publishing/local.py rewrites file by file.             *)
(*                                                                         *)
(* Several workers may be started (the scheduler's and a manual one); a    *)
(* lock file serialises them.  A worker can be killed at any step named in *)
(* Interruptible, and a storage call can raise at any step named in        *)
(* Failing; the next run then meets whatever was left on disk.             *)
(*                                                                         *)
(* Data abstraction: every post has one media slot, so a snapshot is what  *)
(* it says of each post; an account file behaves as a post record does.    *)
(***************************************************************************)
EXTENDS Naturals, FiniteSets

CONSTANTS
    Posts,          \* post identifiers, each with one media slot
    Workers,        \* refresh-local processes that may be started
    NoWorker,       \* value of the lock when nobody holds it
    NoPost,         \* second component of the two files that belong to no post
    NoSnapshot,     \* an absent snapshot directory
    Damaged,        \* a snapshot directory that rmtree has begun to empty
    Interruptible,  \* steps at which the process may be killed
    Failing,        \* steps at which a storage call may raise
    MaxFaults       \* bound on kills and failed storage calls together

Status == {"absent", "pending", "failed", "archived"}
Snapshot == [Posts -> Status]
Empty == [p \in Posts |-> "absent"]

\* Where a worker is in refresh_local.  "publish" chooses the next file,
\* "staged" has a temporary file, "linked" has linked it but not unlinked it.
\* promote_directory, when it replaces a saved snapshot: "moved" has renamed the
\* prior one away, "swap" has checked that and renames the new one into place,
\* "discard" removes the backup; "rollback" and "restore" are its handlers.
Promoting == {"moved", "swap", "discard", "rollback", "restore"}
Steps == {"idle", "recover", "load", "collect", "save", "archive", "write",
          "publish", "staged", "linked", "rmwork", "rmcandidate"} \cup Promoting

\* The files of a published snapshot: <<kind, post>>.
File == ({"media", "record"} \X Posts) \cup ({"index", "state"} \X {NoPost})

ASSUME ConstantsAssumption ==
    /\ NoWorker \notin Workers
    /\ NoPost \notin Posts
    /\ NoSnapshot \notin Snapshot
    /\ Damaged \notin Snapshot
    /\ NoSnapshot # Damaged
    /\ Interruptible \subseteq Steps
    /\ Failing \subseteq Steps
    /\ MaxFaults \in Nat

VARIABLES
    lock,            \* holder of /state/run.lock
    pc,              \* step of each worker
    mem,             \* the snapshot a worker holds in memory
    todo,            \* posts whose media is still to attempt
    pub,             \* files still to publish
    file,            \* the file with a temporary copy right now
    replay,          \* the worker publishes a candidate of an earlier run
    media,           \* /data/media: posts whose media file has its final name
    record,          \* /data/posts: none, source (remote URL) or local (archived)
    index,           \* /data/posts.json: the posts it lists
    queue,           \* /data/state.json: the retry queue each slot is in
    stale,           \* /data directories with an abandoned .publishing-* file
    candidate,       \* /state/candidate: the snapshot it was written for
    candidateFiles,  \* the files of it that are still there
    workSnapshot,    \* /state/work/snapshot
    backup,          \* the prior work snapshot while a worker replaces it, under
                     \* a random name that only this worker knows
    workMedia,       \* /state/work/media: finished media with a final name
    saved,           \* history: posts ever saved to the work snapshot
    repaired,        \* history: slots an operator re-queued, not attempted since
    faults           \* kills and storage failures so far

workerVars == <<lock, pc, mem, todo, pub, file, replay>>
publicVars == <<media, record, index, queue, stale>>
candidateVars == <<candidate, candidateFiles>>
workVars == <<workSnapshot, backup, workMedia>>
historyVars == <<saved, repaired, faults>>
vars == <<workerVars, publicVars, candidateVars, workVars, historyVars>>

TypeOK ==
    /\ lock \in Workers \cup {NoWorker}
    /\ pc \in [Workers -> Steps]
    /\ mem \in [Workers -> Snapshot]
    /\ todo \in [Workers -> SUBSET Posts]
    /\ pub \in [Workers -> SUBSET File]
    /\ file \in [Workers -> File]
    /\ replay \in [Workers -> BOOLEAN]
    /\ media \in SUBSET Posts
    /\ record \in [Posts -> {"none", "source", "local"}]
    /\ index \in SUBSET Posts
    /\ queue \in [Posts -> {"none", "pending", "failed"}]
    /\ stale \in SUBSET {"media", "record", "root"}
    /\ candidate \in Snapshot \cup {NoSnapshot}
    /\ candidateFiles \in SUBSET File
    /\ workSnapshot \in Snapshot \cup {NoSnapshot, Damaged}
    /\ backup \in Snapshot \cup {NoSnapshot, Damaged}
    /\ workMedia \in SUBSET Posts
    /\ saved \in SUBSET Posts
    /\ repaired \in SUBSET Posts
    /\ faults \in 0 .. MaxFaults

-----------------------------------------------------------------------------
(***************************************************************************)
(* Snapshots and files                                                     *)
(***************************************************************************)

PostsOf(s) == {p \in Posts : s[p] # "absent"}

\* What the record, the index and state.json of snapshot s contain.
RecordOf(s) ==
    [p \in Posts |-> CASE s[p] = "absent"   -> "none"
                       [] s[p] = "archived" -> "local"
                       [] OTHER             -> "source"]
QueueOf(s) ==
    [p \in Posts |-> IF s[p] \in {"pending", "failed"} THEN s[p] ELSE "none"]

\* What loads from a saved snapshot that lost its state.json, the one file
\* _load_tree does without: a slot is no longer known to have failed for good.
WithoutState(s) == [p \in Posts |-> IF s[p] = "failed" THEN "pending" ELSE s[p]]

\* SnapshotRepository.write leaves out media that /data already has.
FilesOf(s, present) ==
    {<<"media", p>> : p \in {q \in Posts : s[q] = "archived" /\ q \notin present}}
        \cup {<<"record", p>> : p \in PostsOf(s)}
        \cup {<<"index", NoPost>>, <<"state", NoPost>>}

\* Mutants: records before media; indexes before records.
RankRecordsFirst(f) == CASE f[1] = "record" -> 1
                         [] f[1] = "media"  -> 2
                         [] f[1] = "index"  -> 3
                         [] OTHER           -> 4
RankIndexFirst(f) == CASE f[1] = "media"  -> 1
                       [] f[1] = "index"  -> 2
                       [] f[1] = "record" -> 3
                       [] OTHER           -> 4
Rank(f) == CASE f[1] = "media"  -> 1
             [] f[1] = "record" -> 2
             [] f[1] = "index"  -> 3
             [] OTHER           -> 4

DirectoryOf(f) == IF f[1] \in {"media", "record"} THEN f[1] ELSE "root"

\* read_optional on the public root: records and index must agree, and any
\* unexpected file makes the inventory differ.
PublicLoads == stale = {} /\ index = {p \in Posts : record[p] # "none"}

\* The snapshot read from the public files.
PublicSnapshot ==
    [p \in Posts |-> CASE record[p] = "none"  -> "absent"
                       [] record[p] = "local" -> "archived"
                       [] record[p] = "source" ->
                             IF queue[p] = "failed" THEN "failed" ELSE "pending"]

\* Mutant: a candidate has to contain all of its media itself.
CandidateLoadsAlone ==
    /\ candidate # NoSnapshot
    /\ "media" \notin stale
    /\ \A p \in PostsOf(candidate) : <<"record", p>> \in candidateFiles
    /\ <<"index", NoPost>> \in candidateFiles
    /\ \A p \in Posts : candidate[p] = "archived" =>
                            <<"media", p>> \in candidateFiles

\* A private snapshot is read together with /data/media, so an abandoned
\* temporary file there is an inventory error.  state.json is optional.
CandidateLoads ==
    /\ candidate # NoSnapshot
    /\ "media" \notin stale
    /\ \A p \in PostsOf(candidate) : <<"record", p>> \in candidateFiles
    /\ <<"index", NoPost>> \in candidateFiles
    /\ \A p \in Posts : candidate[p] = "archived" =>
                            p \in media \/ <<"media", p>> \in candidateFiles

\* The same holds of the saved work snapshot, which never has media of its own:
\* it is written before the media is archived.
WorkLoads == workSnapshot \in Snapshot /\ "media" \notin stale

Init ==
    /\ lock = NoWorker
    /\ pc = [w \in Workers |-> "idle"]
    /\ mem = [w \in Workers |-> Empty]
    /\ todo = [w \in Workers |-> {}]
    /\ pub = [w \in Workers |-> {}]
    /\ file = [w \in Workers |-> <<"index", NoPost>>]
    /\ replay = [w \in Workers |-> FALSE]
    /\ media = {}
    /\ record = [p \in Posts |-> "none"]
    /\ index = {}
    /\ queue = [p \in Posts |-> "none"]
    /\ stale = {}
    /\ candidate = NoSnapshot
    /\ candidateFiles = {}
    /\ workSnapshot = NoSnapshot
    /\ backup = NoSnapshot
    /\ workMedia = {}
    /\ saved = {}
    /\ repaired = {}
    /\ faults = 0

\* A worker leaves refresh_local: its locals are gone and the lock is free.
Leave(w) ==
    /\ lock' = NoWorker
    /\ pc' = [pc EXCEPT ![w] = "idle"]
    /\ mem' = [mem EXCEPT ![w] = Empty]
    /\ todo' = [todo EXCEPT ![w] = {}]
    /\ pub' = [pub EXCEPT ![w] = {}]
    /\ file' = [file EXCEPT ![w] = <<"index", NoPost>>]
    /\ replay' = [replay EXCEPT ![w] = FALSE]

Go(w, step) == pc' = [pc EXCEPT ![w] = step]

-----------------------------------------------------------------------------
(***************************************************************************)
(* Starting a run                                                          *)
(***************************************************************************)

\* Mutant: the lock is not tested.
AcquireUnlocked(w) ==
    /\ pc[w] = "idle"
    /\ lock' = w
    /\ Go(w, IF candidate # NoSnapshot THEN "recover" ELSE "load")
    /\ UNCHANGED <<mem, todo, pub, file, replay>>
    /\ UNCHANGED <<publicVars, candidateVars, workVars, historyVars>>

\* Mutant: an existing candidate is not published first.
AcquireWithoutRecovery(w) ==
    /\ pc[w] = "idle"
    /\ lock = NoWorker
    /\ lock' = w
    /\ Go(w, "load")
    /\ UNCHANGED <<mem, todo, pub, file, replay>>
    /\ UNCHANGED <<publicVars, candidateVars, workVars, historyVars>>

\* flock(LOCK_EX | LOCK_NB): a worker that finds the lock held returns at once
\* and changes nothing.  An existing candidate is published before collecting.
Acquire(w) ==
    /\ pc[w] = "idle"
    /\ lock = NoWorker
    /\ lock' = w
    /\ Go(w, IF candidate # NoSnapshot THEN "recover" ELSE "load")
    /\ UNCHANGED <<mem, todo, pub, file, replay>>
    /\ UNCHANGED <<publicVars, candidateVars, workVars, historyVars>>

\* read_optional holds the validated files in memory for the publication.
Replay(w) ==
    /\ pc[w] = "recover"
    /\ CandidateLoads
    /\ Go(w, "publish")
    /\ replay' = [replay EXCEPT ![w] = TRUE]
    /\ pub' = [pub EXCEPT ![w] = candidateFiles]
    /\ mem' = [mem EXCEPT ![w] = candidate]
    /\ UNCHANGED <<lock, todo, file>>
    /\ UNCHANGED <<publicVars, candidateVars, workVars, historyVars>>

\* publish_local raises on a candidate that does not validate.
ReplayRejected(w) ==
    /\ pc[w] = "recover"
    /\ ~CandidateLoads
    /\ Leave(w)
    /\ UNCHANGED <<publicVars, candidateVars, workVars, historyVars>>

\* Mutant: an interrupted collection is thrown away and started over.
ResumeFromScratch(w) ==
    /\ pc[w] = "load"
    /\ WorkLoads
    /\ workSnapshot' = NoSnapshot
    /\ UNCHANGED <<workerVars, publicVars, candidateVars>>
    /\ UNCHANGED <<backup, workMedia, historyVars>>

\* A saved work snapshot is resumed without a provider call.
Resume(w) ==
    /\ pc[w] = "load"
    /\ WorkLoads
    /\ Go(w, "save")
    /\ mem' = [mem EXCEPT ![w] = workSnapshot]
    /\ UNCHANGED <<lock, todo, pub, file, replay>>
    /\ UNCHANGED <<publicVars, candidateVars, workVars, historyVars>>

\* A saved work snapshot that does not validate ends the run with exit code 5.
ResumeRejected(w) ==
    /\ pc[w] = "load"
    /\ workSnapshot # NoSnapshot
    /\ ~WorkLoads
    /\ Leave(w)
    /\ UNCHANGED <<publicVars, candidateVars, workVars, historyVars>>

\* The public tree is the baseline; one that does not load ends the run with
\* exit code 5.  CommittedTreeIsWhole says that this never happens.
LoadPrevious(w) ==
    /\ pc[w] = "load"
    /\ workSnapshot = NoSnapshot
    /\ IF PublicLoads
       THEN /\ Go(w, "collect")
            /\ mem' = [mem EXCEPT ![w] = PublicSnapshot]
            /\ UNCHANGED <<lock, todo, pub, file, replay>>
       ELSE Leave(w)
    /\ UNCHANGED <<publicVars, candidateVars, workVars, historyVars>>

-----------------------------------------------------------------------------
(***************************************************************************)
(* Collecting, saving the work snapshot, archiving media                   *)
(***************************************************************************)

\* collect_posts succeeded for some accounts: merge_snapshot keeps what the
\* baseline knows and adds the new posts, whose media is not archived yet.
Collect(w) ==
    /\ pc[w] = "collect"
    /\ \E found \in SUBSET Posts :
          mem' = [mem EXCEPT ![w] =
                     [p \in Posts |-> IF p \in found /\ @[p] = "absent"
                                      THEN "pending" ELSE @[p]]]
    /\ Go(w, "save")
    /\ UNCHANGED <<lock, todo, pub, file, replay>>
    /\ UNCHANGED <<publicVars, candidateVars, workVars, historyVars>>

\* Every provider is exhausted: the run ends, unless media waits for a retry.
ProvidersExhausted(w) ==
    /\ pc[w] = "collect"
    /\ IF \E p \in Posts : mem[w][p] = "pending"
       THEN Go(w, "save") /\ UNCHANGED <<lock, mem, todo, pub, file, replay>>
       ELSE Leave(w)
    /\ UNCHANGED <<publicVars, candidateVars, workVars, historyVars>>

\* An input, schema or merge error aborts the run.
CollectAborted(w) ==
    /\ pc[w] = "collect"
    /\ Leave(w)
    /\ UNCHANGED <<publicVars, candidateVars, workVars, historyVars>>

\* archive_media visits the slots that are not permanently failed, and those
\* whose media file is already there.
ToArchive(s) ==
    {p \in Posts : \/ s[p] = "pending"
                   \/ s[p] = "failed" /\ p \in media \cup workMedia}

\* write has returned: the saved snapshot is there, archive_media begins.
SaveDone(w) ==
    /\ Go(w, "archive")
    /\ todo' = [todo EXCEPT ![w] = ToArchive(mem[w])]
    /\ saved' = saved \cup PostsOf(mem[w])
    /\ UNCHANGED <<lock, mem, pub, file, replay, workMedia, repaired, faults>>
    /\ UNCHANGED <<publicVars, candidateVars>>

\* SnapshotRepository.write of work/snapshot with nothing there: one rename.
SaveFresh(w) ==
    /\ pc[w] = "save"
    /\ workSnapshot = NoSnapshot
    /\ workSnapshot' = mem[w]
    /\ SaveDone(w)
    /\ UNCHANGED backup

\* A saved snapshot is validated and renamed to a backup ...
SaveBackup(w) ==
    /\ pc[w] = "save"
    /\ workSnapshot \in Snapshot
    /\ backup' = workSnapshot
    /\ workSnapshot' = NoSnapshot
    /\ Go(w, "moved")
    /\ UNCHANGED <<lock, mem, todo, pub, file, replay, workMedia>>
    /\ UNCHANGED <<publicVars, candidateVars, historyVars>>

\* ... that is checked, outside of any try block ...
SaveChecked(w) ==
    /\ pc[w] = "moved"
    /\ Go(w, "swap")
    /\ UNCHANGED <<lock, mem, todo, pub, file, replay>>
    /\ UNCHANGED <<publicVars, candidateVars, workVars, historyVars>>

\* ... then the new tree is renamed into place ...
SavePromote(w) ==
    /\ pc[w] = "swap"
    /\ workSnapshot' = mem[w]
    /\ Go(w, "discard")
    /\ UNCHANGED <<lock, mem, todo, pub, file, replay, backup, workMedia>>
    /\ UNCHANGED <<publicVars, candidateVars, historyVars>>

\* ... and the backup is removed, file by file.  Its first file to go is
\* state.json or any other one; a tree without one of the others is damaged.
DiscardBackup(w) ==
    /\ pc[w] = "discard"
    /\ backup \in Snapshot
    /\ backup' \in {WithoutState(backup), Damaged}
    /\ UNCHANGED <<workerVars, publicVars, candidateVars>>
    /\ UNCHANGED <<workSnapshot, workMedia, historyVars>>

SaveReplaced(w) ==
    /\ pc[w] = "discard"
    /\ backup \notin Snapshot
    /\ backup' = NoSnapshot
    /\ SaveDone(w)
    /\ UNCHANGED workSnapshot

\* One slot: a finished file is reused, otherwise the download and conversion
\* succeed, fail, or fail for the last permitted time.
ArchiveSlot(w) ==
    /\ pc[w] = "archive"
    /\ \E p \in todo[w] :
          /\ todo' = [todo EXCEPT ![w] = @ \ {p}]
          /\ repaired' = repaired \ {p}
          /\ \E outcome \in IF p \in media \cup workMedia THEN {"archived"}
                            ELSE {"archived", "pending", "failed"} :
                /\ mem' = [mem EXCEPT ![w][p] = outcome]
                /\ workMedia' = IF outcome = "archived" /\ p \notin media
                                THEN workMedia \cup {p} ELSE workMedia
    /\ UNCHANGED <<lock, pc, pub, file, replay, saved, faults>>
    /\ UNCHANGED <<publicVars, candidateVars, workSnapshot, backup>>

ArchiveDone(w) ==
    /\ pc[w] = "archive"
    /\ todo[w] = {}
    /\ Go(w, "write")
    /\ UNCHANGED <<lock, mem, todo, pub, file, replay>>
    /\ UNCHANGED <<publicVars, candidateVars, workVars, historyVars>>

\* SnapshotRepository.write of /state/candidate, then publish_local of it.
WriteCandidate(w) ==
    /\ pc[w] = "write"
    /\ candidate' = mem[w]
    /\ candidateFiles' = FilesOf(mem[w], media)
    /\ pub' = [pub EXCEPT ![w] = FilesOf(mem[w], media)]
    /\ Go(w, "publish")
    /\ UNCHANGED <<lock, mem, todo, file, replay>>
    /\ UNCHANGED <<publicVars, workVars, historyVars>>

-----------------------------------------------------------------------------
(***************************************************************************)
(* Publishing: media, then records, then indexes, then state.json          *)
(***************************************************************************)

\* The next file in publication order is written to a temporary sibling.
\* Media whose final name exists with the same content is left alone.
Stage(w) ==
    /\ pc[w] = "publish"
    /\ \E f \in pub[w] :
          /\ \A g \in pub[w] : Rank(f) <= Rank(g)
          /\ IF f[1] = "media" /\ f[2] \in media
             THEN /\ pub' = [pub EXCEPT ![w] = @ \ {f}]
                  /\ UNCHANGED <<pc, file>>
             ELSE /\ file' = [file EXCEPT ![w] = f]
                  /\ Go(w, "staged")
                  /\ UNCHANGED pub
    /\ UNCHANGED <<lock, mem, todo, replay>>
    /\ UNCHANGED <<publicVars, candidateVars, workVars, historyVars>>

\* os.link for media, os.replace for the rest, which also ends the temporary.
Expose(w) ==
    /\ pc[w] = "staged"
    /\ LET f == file[w] IN
          /\ media' = IF f[1] = "media" THEN media \cup {f[2]} ELSE media
          /\ record' = IF f[1] = "record"
                       THEN [record EXCEPT ![f[2]] = RecordOf(mem[w])[f[2]]]
                       ELSE record
          /\ index' = IF f[1] = "index" THEN PostsOf(mem[w]) ELSE index
          /\ queue' = IF f[1] = "state" THEN QueueOf(mem[w]) ELSE queue
          /\ IF f[1] = "media"
             THEN Go(w, "linked") /\ UNCHANGED pub
             ELSE Go(w, "publish") /\ pub' = [pub EXCEPT ![w] = @ \ {f}]
    /\ UNCHANGED <<lock, mem, todo, file, replay, stale>>
    /\ UNCHANGED <<candidateVars, workVars, historyVars>>

\* The temporary name of a linked media file is unlinked.
Unlink(w) ==
    /\ pc[w] = "linked"
    /\ pub' = [pub EXCEPT ![w] = @ \ {file[w]}]
    /\ Go(w, "publish")
    /\ UNCHANGED <<lock, mem, todo, file, replay>>
    /\ UNCHANGED <<publicVars, candidateVars, workVars, historyVars>>

\* Mutant: abandoned temporary files are not removed.
CleanupForgotten(w) ==
    /\ pc[w] = "publish"
    /\ pub[w] = {}
    /\ Go(w, "rmwork")
    /\ UNCHANGED <<lock, mem, todo, pub, file, replay>>
    /\ UNCHANGED <<publicVars, candidateVars, workVars, historyVars>>

\* _remove_interrupted_files over the directories of the published files.
Cleanup(w) ==
    /\ pc[w] = "publish"
    /\ pub[w] = {}
    /\ stale' = stale \ ({DirectoryOf(f) : f \in candidateFiles} \cup {"media"})
    /\ Go(w, "rmwork")
    /\ UNCHANGED <<lock, mem, todo, pub, file, replay, media, record, index, queue>>
    /\ UNCHANGED <<candidateVars, workVars, historyVars>>

\* Mutant: only the media work files are removed.
RemoveWorkMedia(w) ==
    /\ pc[w] = "rmwork"
    /\ workMedia' = {}
    /\ Go(w, "rmcandidate")
    /\ UNCHANGED <<lock, mem, todo, pub, file, replay, workSnapshot, backup>>
    /\ UNCHANGED <<publicVars, candidateVars, historyVars>>

\* rmtree(work) takes several steps; a first one leaves a damaged snapshot.
RemoveWork(w) ==
    /\ pc[w] = "rmwork"
    /\ IF workSnapshot \in Snapshot
       THEN workSnapshot' = Damaged /\ UNCHANGED <<workMedia, pc>>
       ELSE /\ workSnapshot' = NoSnapshot
            /\ workMedia' = {}
            /\ Go(w, "rmcandidate")
    /\ UNCHANGED <<lock, mem, todo, pub, file, replay, backup>>
    /\ UNCHANGED <<publicVars, candidateVars, historyVars>>

\* rmtree(candidate), one file at a time in any order ...
RemoveCandidateFile(w) ==
    /\ pc[w] = "rmcandidate"
    /\ \E f \in candidateFiles : candidateFiles' = candidateFiles \ {f}
    /\ UNCHANGED <<workerVars, publicVars, candidate, workVars, historyVars>>

\* ... and the directory last.  A replayed candidate is followed by a collection.
RemoveCandidate(w) ==
    /\ pc[w] = "rmcandidate"
    /\ candidateFiles = {}
    /\ candidate' = NoSnapshot
    /\ IF replay[w]
       THEN /\ Go(w, "load")
            /\ replay' = [replay EXCEPT ![w] = FALSE]
            /\ mem' = [mem EXCEPT ![w] = Empty]
            /\ UNCHANGED <<lock, todo, pub, file>>
       ELSE Leave(w)
    /\ UNCHANGED <<publicVars, candidateFiles, workVars, historyVars>>

-----------------------------------------------------------------------------
(***************************************************************************)
(* Faults and the operator                                                 *)
(***************************************************************************)

\* The worker is gone at a step of its run; nobody knows the name of a backup
\* it has left.
GivesUp(w) ==
    /\ faults < MaxFaults
    /\ faults' = faults + 1
    /\ backup' = NoSnapshot
    /\ Leave(w)
    /\ UNCHANGED <<media, record, index, queue, candidateVars>>
    /\ UNCHANGED <<workSnapshot, workMedia, saved, repaired>>

\* SIGKILL, or SIGTERM with no handler: the kernel frees the lock, and a
\* temporary file of the publication stays behind.
Kill(w) ==
    /\ pc[w] \in Interruptible \ {"idle"}
    /\ GivesUp(w)
    /\ stale' = IF pc[w] \in {"staged", "linked"}
                THEN stale \cup {DirectoryOf(file[w])} ELSE stale

\* A storage call raises and no handler changes what is on disk.  A temporary
\* file of the publication is unlinked on the way out (the finally of
\* atomic_file), unless that call raises too.  Between the renames of a
\* promotion, or in its handlers, the backup is left behind; write then removes
\* the candidate it built.  An error after a call has taken effect is one at
\* the next step: in the finally of write, in archive_media.
StorageError(w) ==
    /\ pc[w] \in Failing \ {"idle", "swap", "discard"}
    /\ GivesUp(w)
    /\ stale' \in {stale \cup gone : gone \in
                      CASE pc[w] = "linked" -> {{DirectoryOf(file[w])}}
                        [] pc[w] = "staged" /\ "linked" \in Failing ->
                               {{}, {DirectoryOf(file[w])}}
                        [] OTHER -> {{}}}

\* The handlers of promote_directory.  The rename into place raises, or the
\* check before it: the backup is put back.
SwapRaises(w) ==
    /\ pc[w] = "swap" /\ "swap" \in Failing
    /\ faults < MaxFaults
    /\ faults' = faults + 1
    /\ Go(w, "restore")
    /\ UNCHANGED <<lock, mem, todo, pub, file, replay>>
    /\ UNCHANGED <<publicVars, candidateVars, workVars, saved, repaired>>

\* A check after it, or the removal of the backup, raises: the candidate goes
\* first, whatever is left of the backup follows.
DiscardRaises(w) ==
    /\ pc[w] = "discard" /\ "discard" \in Failing
    /\ faults < MaxFaults
    /\ faults' = faults + 1
    /\ Go(w, "rollback")
    /\ UNCHANGED <<lock, mem, todo, pub, file, replay>>
    /\ UNCHANGED <<publicVars, candidateVars, workVars, saved, repaired>>

\* The candidate gets its temporary name back, under which write removes it.
Rollback(w) ==
    /\ pc[w] = "rollback"
    /\ workSnapshot' = NoSnapshot
    /\ Go(w, "restore")
    /\ UNCHANGED <<lock, mem, todo, pub, file, replay, backup, workMedia>>
    /\ UNCHANGED <<publicVars, candidateVars, historyVars>>

\* Mutant: the handler only cleans up and raises again.
RestoreNothing(w) ==
    /\ pc[w] = "restore"
    /\ backup' = NoSnapshot
    /\ Leave(w)
    /\ UNCHANGED <<publicVars, candidateVars, workSnapshot, workMedia, historyVars>>

\* _restore_backup, whatever is left of it; the run ends with the exception.
Restore(w) ==
    /\ pc[w] = "restore"
    /\ workSnapshot' = backup
    /\ backup' = NoSnapshot
    /\ Leave(w)
    /\ UNCHANGED <<publicVars, candidateVars, workMedia, historyVars>>

\* The documented manual repair: with the scheduler stopped, an operator moves
\* a slot of state.json from failed_media to pending_media.
Repair(p) ==
    /\ \A w \in Workers : pc[w] = "idle"
    /\ queue[p] = "failed"
    /\ queue' = [queue EXCEPT ![p] = "pending"]
    /\ repaired' = repaired \cup {p}
    /\ UNCHANGED <<workerVars, media, record, index, stale>>
    /\ UNCHANGED <<candidateVars, workVars, saved, faults>>

WorkerStep(w) ==
    \/ Acquire(w)
    \/ Replay(w)
    \/ ReplayRejected(w)
    \/ Resume(w)
    \/ ResumeRejected(w)
    \/ LoadPrevious(w)
    \/ Collect(w)
    \/ ProvidersExhausted(w)
    \/ CollectAborted(w)
    \/ SaveFresh(w)
    \/ SaveBackup(w)
    \/ SaveChecked(w)
    \/ SavePromote(w)
    \/ DiscardBackup(w)
    \/ SaveReplaced(w)
    \/ Rollback(w)
    \/ Restore(w)
    \/ ArchiveSlot(w)
    \/ ArchiveDone(w)
    \/ WriteCandidate(w)
    \/ Stage(w)
    \/ Expose(w)
    \/ Unlink(w)
    \/ Cleanup(w)
    \/ RemoveWork(w)
    \/ RemoveCandidateFile(w)
    \/ RemoveCandidate(w)

Fault(w) == Kill(w) \/ StorageError(w) \/ SwapRaises(w) \/ DiscardRaises(w)

Next ==
    \/ \E w \in Workers : WorkerStep(w) \/ Fault(w)
    \/ \E p \in Posts : Repair(p)

Spec == Init /\ [][Next]_vars

\* The scheduler starts a run at every cron instant and a started process is
\* scheduled by the operating system: some worker keeps taking steps.
FairSpec == Spec /\ WF_vars(\E w \in Workers : WorkerStep(w))

-----------------------------------------------------------------------------
(***************************************************************************)
(* Properties                                                              *)
(***************************************************************************)

\* A published record that points at local media points at a file that exists,
\* whatever was killed in between: publish_local exposes media before records.
NoDanglingMedia == \A p \in Posts : record[p] = "local" => p \in media

\* posts.json never lists a post whose record a reader cannot open: indexes are
\* replaced only after all records.
IndexedPostsExist == \A p \in index : record[p] # "none"

\* With no candidate on disk the public tree is one snapshot: records and index
\* agree, exactly the unarchived posts are queued for a retry, and no temporary
\* file is left.  A run that finds no candidate therefore loads its baseline.
CommittedTreeIsWhole ==
    candidate = NoSnapshot =>
        /\ PublicLoads
        /\ \A p \in Posts : queue[p] # "none" <=> record[p] = "source"

\* Snapshot s keeps every public post and every archived slot.
Keeps(s) ==
    \A p \in Posts : /\ record[p] # "none" => s[p] # "absent"
                     /\ record[p] = "local" => s[p] = "archived"

\* A work snapshot never outlives the publication it led to: once its candidate
\* is being removed, nothing is left that a later run could resume, and what a
\* later run could resume keeps every public post and every archived slot.
NoStaleResume ==
    /\ \A w \in Workers : pc[w] = "rmcandidate" => workSnapshot = NoSnapshot
    /\ candidate = NoSnapshot /\ workSnapshot \in Snapshot => Keeps(workSnapshot)

\* Nothing a reader has seen is taken back by a later run, a resumed one or a
\* replay: a public post stays, and an archived slot stays archived.
PublicNeverRegresses ==
    [][\A p \in Posts : /\ record[p] # "none" => record'[p] # "none"
                        /\ record[p] = "local" => record'[p] = "local"
                        /\ p \in index => p \in index']_vars

\* Posts saved to the work snapshot (they were paid for) are in the work
\* snapshot, in the backup of the worker that replaces it, in a candidate that
\* can still be published, or public.  media-and-docker.md:168 "The
\* next run resumes the saved posts without another provider call".
SavedPostsSurvive ==
    \A p \in saved :
        \/ p \in index
        \/ workSnapshot \in Snapshot /\ workSnapshot[p] # "absent"
        \/ candidate \in Snapshot /\ candidate[p] # "absent" /\ CandidateLoads
        \/ backup \in Snapshot /\ backup[p] # "absent"

\* A slot the operator re-queued is attempted again before state.json can call
\* it failed again.  media-and-docker.md:82 "For manual repair, stop the
\* scheduler ... Restart the scheduler to retry."
RepairsAreRetried == \A p \in repaired : queue[p] # "failed"

\* A candidate, once written, is published and removed even when its publisher
\* is killed.  media-and-docker.md:203 "Completed candidates are replayed after
\* interrupted publication."
CandidateIsPublished == candidate # NoSnapshot ~> candidate = NoSnapshot

\* Posts saved to the work snapshot become public.
SavedIsPublished ==
    \A p \in Posts : p \in saved ~> p \in index

\* The refresh implements roll-forward publication.
Publication == INSTANCE RollForward WITH staged <- candidate
ImplementsRollForward == Publication!Spec

-----------------------------------------------------------------------------
(***************************************************************************)
(* The inductive invariant behind the theorems of LocalRefreshProofs       *)
(***************************************************************************)

Publishing == {"publish", "staged", "linked"}
Removing == {"rmwork", "rmcandidate"}
Building == {"collect", "save", "archive", "write"} \cup Promoting

\* state.json shows snapshot s, except for slots an operator re-queued.
QueueShows(s) ==
    \A p \in Posts : \/ queue[p] = QueueOf(s)[p]
                     \/ QueueOf(s)[p] = "failed" /\ queue[p] = "pending"

\* Only the holder of the lock is inside refresh_local.
LockHeld == \A w \in Workers : pc[w] # "idle" <=> lock = w

\* What a candidate on disk guarantees, also to the run that replays it.
CandidateFits ==
    candidate # NoSnapshot =>
        /\ Keeps(candidate)
        /\ candidateFiles \subseteq FilesOf(candidate, {})
        /\ "record" \in stale => \E p \in Posts : candidate[p] # "absent"
        /\ <<"state", NoPost>> \notin candidateFiles => QueueShows(candidate)

\* Without a candidate nothing is half done.
NothingHalfDone ==
    candidate = NoSnapshot =>
        /\ stale = {}
        /\ index = {p \in Posts : record[p] # "none"}
        /\ \A p \in Posts : queue[p] # "none" <=> record[p] = "source"
        /\ workSnapshot \in Snapshot => Keeps(workSnapshot)

\* Between load and write the worker builds on the committed tree.
BuildsOn(w) ==
    /\ pc[w] = "load" => candidate = NoSnapshot
    /\ pc[w] \in Building => candidate = NoSnapshot /\ Keeps(mem[w])
    /\ pc[w] \in Promoting /\ backup \in Snapshot => Keeps(backup)
    /\ pc[w] = "archive" =>
           \A p \in todo[w] : mem[w][p] \in {"pending", "failed"}

\* While it publishes, the files no longer listed in pub show the candidate.
PublishesTowards(w) ==
    pc[w] \in Publishing =>
        /\ candidate # NoSnapshot
        /\ mem[w] = candidate
        /\ "media" \notin stale
        /\ <<"index", NoPost>> \in candidateFiles
        /\ \A p \in PostsOf(candidate) : <<"record", p>> \in candidateFiles
        /\ pub[w] \subseteq candidateFiles
        /\ \A p \in Posts : candidate[p] = "archived" =>
                                p \in media \/ <<"media", p>> \in pub[w]
        /\ \A p \in PostsOf(candidate) :
               <<"record", p>> \notin pub[w] => record[p] = RecordOf(candidate)[p]
        /\ <<"index", NoPost>> \notin pub[w] => index = PostsOf(candidate)
        /\ <<"state", NoPost>> \notin pub[w] => QueueShows(candidate)
        /\ pc[w] \in {"staged", "linked"} =>
               /\ file[w] \in pub[w]
               /\ \A g \in pub[w] : Rank(file[w]) <= Rank(g)
        /\ pc[w] = "linked" => file[w][1] = "media" /\ file[w][2] \in media

\* When it removes its inputs, every public file shows the candidate.
RemovesAfter(w) ==
    /\ pc[w] = "recover" => candidate # NoSnapshot
    /\ pc[w] \in Removing =>
           /\ candidate # NoSnapshot
           /\ stale = {}
           /\ record = RecordOf(candidate)
           /\ index = PostsOf(candidate)
           /\ QueueShows(candidate)
    /\ pc[w] = "rmcandidate" => workSnapshot = NoSnapshot

IInv ==
    /\ TypeOK
    /\ LockHeld
    /\ CandidateFits
    /\ NothingHalfDone
    /\ NoDanglingMedia
    /\ IndexedPostsExist
    /\ \A w \in Workers : BuildsOn(w) /\ PublishesTowards(w) /\ RemovesAfter(w)
=============================================================================
