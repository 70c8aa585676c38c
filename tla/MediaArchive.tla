---------------------------- MODULE MediaArchive ----------------------------
(***************************************************************************)
(* The retry queues and the work files of media archival over many runs    *)
(* (media/archive.py, media/convert.py, application/collect.py): what a    *)
(* run saves before it touches media, how it visits one slot after the     *)
(* other, which failures count, and what a run that resumes a killed one   *)
(* finds under /state/work.                                                *)
(*                                                                         *)
(* A provider signs its URLs anew, so a slot has a succession of URLs,     *)
(* numbered 1, 2, ...; 0 is no URL.  Publication and the removal of the    *)
(* work directory are one step here; LocalRefresh takes them apart.        *)
(***************************************************************************)
EXTENDS Naturals, FiniteSets

CONSTANTS
    Slots,          \* media slots, each of a post of its own
    NoSlot,         \* nothing is being materialized
    MaxFailedRuns,  \* MAX_FAILED_RUNS (3 in the code)
    MaxUrl          \* bound on the URLs of a slot

ASSUME ArchiveAssumption ==
    /\ NoSlot \notin Slots
    /\ MaxFailedRuns \in Nat
    /\ MaxFailedRuns > 1
    /\ MaxUrl \in Nat \ {0}

Urls == 0 .. MaxUrl

\* What a snapshot says of a slot: "new" is in no queue yet.  "content" is the
\* URL in the post, "source" and "runs" are those of the queue entry.
Fates == {"unknown", "new", "pending", "failed", "archived"}
Entry == [state : Fates, runs : Nat, source : Urls, content : Urls]
Fate(state, runs, source, content) ==
    [state |-> state, runs |-> runs, source |-> source, content |-> content]
Unknown == Fate("unknown", 0, 0, 0)
Archived == Fate("archived", 0, 0, 0)
Snapshots == [Slots -> Entry]

Stages == {"idle", "visit", "download", "convert", "linked"}

VARIABLES
    signed,     \* the URL the provider would give for each slot
    published,  \* the published snapshot
    saved,      \* /state/work/snapshot, a set of at most one
    input,      \* URL of each completed download (.input) under /state/work
    final,      \* slots whose output has its final name under /state/work
    stage,      \* where the worker is
    mem,        \* the snapshot it works on
    refreshed,  \* slots of posts this run collected
    todo,       \* slots it has not visited
    at,         \* the slot being materialized
    newest,     \* history: URL last collected or last set by an operator
    spent,      \* history: published runs with a classified failure
    charged     \* history: slots with a classified failure in this run

workVars == <<saved, input, final>>
runVars == <<stage, mem, refreshed, todo, at, charged>>
historyVars == <<newest, spent>>
vars == <<signed, published, workVars, runVars, historyVars>>

TypeOK ==
    /\ signed \in [Slots -> Urls \ {0}]
    /\ published \in Snapshots
    /\ saved \in SUBSET Snapshots
    /\ input \in [Slots -> Urls]
    /\ final \in SUBSET Slots
    /\ stage \in Stages
    /\ mem \in Snapshots
    /\ refreshed \in SUBSET Slots
    /\ todo \in SUBSET Slots
    /\ at \in Slots \cup {NoSlot}
    /\ newest \in [Slots -> Urls]
    /\ spent \in [Slots -> Nat]
    /\ charged \in SUBSET Slots

Init ==
    /\ signed = [k \in Slots |-> 1]
    /\ published = [k \in Slots |-> Unknown]
    /\ saved = {}
    /\ input = [k \in Slots |-> 0]
    /\ final = {}
    /\ stage = "idle"
    /\ mem = [k \in Slots |-> Unknown]
    /\ refreshed = {}
    /\ todo = {}
    /\ at = NoSlot
    /\ newest = [k \in Slots |-> 0]
    /\ spent = [k \in Slots |-> 0]
    /\ charged = {}

-----------------------------------------------------------------------------
(***************************************************************************)
(* The surroundings                                                        *)
(***************************************************************************)

SignAnew(k) ==
    /\ signed[k] < MaxUrl
    /\ signed' = [signed EXCEPT ![k] = @ + 1]
    /\ UNCHANGED <<published, workVars, runVars, historyVars>>

\* The documented manual repair, with no saved work that would overwrite it
\* (LocalRefresh has that case): an edited URL and one failed run.
Repair(k) ==
    /\ stage = "idle"
    /\ saved = {}
    /\ published[k].state = "failed"
    /\ \E url \in Urls \ {0} :
          /\ published' = [published EXCEPT ![k] =
                              Fate("pending", 1, url, @.content)]
          /\ newest' = [newest EXCEPT ![k] = url]
    /\ spent' = [spent EXCEPT ![k] = 1]
    /\ UNCHANGED <<signed, workVars, runVars>>

\* The worker is gone; what it had not saved is gone with it.
Leave ==
    /\ stage' = "idle"
    /\ mem' = [k \in Slots |-> Unknown]
    /\ refreshed' = {}
    /\ todo' = {}
    /\ at' = NoSlot
    /\ charged' = {}

\* A kill, or an exception archive_media does not catch.
Kill ==
    /\ stage # "idle"
    /\ Leave
    /\ UNCHANGED <<signed, published, workVars, historyVars>>

-----------------------------------------------------------------------------
(***************************************************************************)
(* Starting a run: save the posts, then visit their slots                  *)
(***************************************************************************)

\* reconcile_media: an archived slot stays, any other takes the new URL.
Reconcile(e, url) ==
    CASE e.state = "archived" -> e
      [] e.state = "unknown"  -> Fate("new", 0, 0, url)
      [] OTHER                -> Fate(e.state, e.runs, e.source, url)

\* Mutant: the queue keeps its URLs; only this run knows the fresh ones.
QueuedAsBefore(e) == e
\* A pending entry takes the URL that has just been collected.
Queued(e) ==
    IF e.state = "pending" THEN Fate("pending", e.runs, e.content, e.content) ELSE e

Start(s) ==
    /\ stage' = "visit"
    /\ mem' = s
    /\ saved' = {s}
    /\ todo' = {k \in Slots : s[k].state # "unknown"}
    /\ at' = NoSlot
    /\ charged' = {}

\* A run that collected the posts of "found" (none, when every provider was
\* exhausted and the run goes on for the pending media alone).
Collect ==
    /\ stage = "idle"
    /\ saved = {}
    /\ \E found \in SUBSET Slots :
          /\ Start([k \in Slots |->
                      IF k \in found THEN Queued(Reconcile(published[k], signed[k]))
                                     ELSE published[k]])
          /\ refreshed' = found
          /\ newest' = [k \in Slots |-> IF k \in found THEN signed[k] ELSE newest[k]]
    /\ UNCHANGED <<signed, published, input, final, spent>>

\* A run that finds saved posts; nothing counts as refreshed.
Resume ==
    /\ stage = "idle"
    /\ \E s \in saved : Start(s)
    /\ refreshed' = {}
    /\ UNCHANGED <<signed, published, input, final, historyVars>>

-----------------------------------------------------------------------------
(***************************************************************************)
(* One slot                                                                *)
(***************************************************************************)

\* The URL of an attempt: the one queued, unless the post was just collected.
SourceOf(e, fresh) ==
    IF e.state = "pending" /\ ~fresh THEN e.source ELSE e.content

Set(k, e) == mem' = [mem EXCEPT ![k] = e]

\* The slot is settled; the next one may be visited.
Settle(k) ==
    /\ todo' = todo \ {k}
    /\ at' = NoSlot
    /\ stage' = "visit"

\* Archived before, or its output was finished by an interrupted run.
VisitDone(k) ==
    /\ stage = "visit"
    /\ k \in todo
    /\ mem[k].state = "archived" \/ k \in final
    /\ Set(k, Archived)
    /\ Settle(k)
    /\ UNCHANGED <<signed, published, workVars, refreshed, charged, historyVars>>

VisitFailed(k) ==
    /\ stage = "visit"
    /\ k \in todo
    /\ mem[k].state = "failed"
    /\ k \notin final
    /\ Settle(k)
    /\ UNCHANGED <<signed, published, workVars, mem, refreshed, charged, historyVars>>

\* Mutant: finished outputs of an interrupted run are not looked for.
MaterializeAnew(k) ==
    /\ stage = "visit"
    /\ k \in todo
    /\ mem[k].state \in {"new", "pending"}
    /\ at' = k
    /\ stage' = IF input[k] = 0 THEN "download" ELSE "convert"
    /\ UNCHANGED <<signed, published, workVars, mem, refreshed, todo, charged>>
    /\ UNCHANGED historyVars

\* A completed download is used again.
Materialize(k) ==
    /\ stage = "visit"
    /\ k \in todo
    /\ mem[k].state \in {"new", "pending"}
    /\ k \notin final
    /\ at' = k
    /\ stage' = IF input[k] = 0 THEN "download" ELSE "convert"
    /\ UNCHANGED <<signed, published, workVars, mem, refreshed, todo, charged>>
    /\ UNCHANGED historyVars

Attempted == SourceOf(mem[at], at \in refreshed)

\* Mutants: every failure counts; an internal failure is only logged.
QueueCountingAll(expected) ==
    LET runs == mem[at].runs + 1
    IN  Set(at, Fate(IF runs >= MaxFailedRuns THEN "failed" ELSE "pending",
                     runs, Attempted, Attempted))
QueueExpectedOnly(expected) ==
    LET runs == mem[at].runs + 1
    IN  IF expected
        THEN Set(at, Fate(IF runs >= MaxFailedRuns THEN "failed" ELSE "pending",
                          runs, Attempted, Attempted))
        ELSE UNCHANGED mem

\* The queue entry of a failed attempt: only a MediaError counts, and only a
\* MediaError can make the slot permanently failed.
Queue(expected) ==
    LET runs == mem[at].runs + (IF expected THEN 1 ELSE 0)
    IN  Set(at, Fate(IF expected /\ runs >= MaxFailedRuns THEN "failed" ELSE "pending",
                     runs, Attempted, Attempted))

Fail(expected) ==
    /\ Queue(expected)
    /\ Settle(at)
    /\ charged' = IF expected THEN charged \cup {at} ELSE charged

\* download, after its own repeats, then the rename of .download to .input.
Download ==
    /\ stage = "download"
    /\ input' = [input EXCEPT ![at] = Attempted]
    /\ stage' = "convert"
    /\ UNCHANGED <<signed, published, saved, final, mem, refreshed, todo, at>>
    /\ UNCHANGED <<charged, historyVars>>

DownloadFails ==
    /\ stage = "download"
    /\ \E expected \in BOOLEAN : Fail(expected)
    /\ UNCHANGED <<signed, published, workVars, refreshed, historyVars>>

\* The output is valid; os.link gives it its final name ...
Link ==
    /\ stage = "convert"
    /\ final' = final \cup {at}
    /\ stage' = "linked"
    /\ UNCHANGED <<signed, published, saved, input, mem, refreshed, todo, at>>
    /\ UNCHANGED <<charged, historyVars>>

\* ... and the encoding directory is removed with the input in it.
Finish ==
    /\ stage = "linked"
    /\ input' = [input EXCEPT ![at] = 0]
    /\ Set(at, Archived)
    /\ Settle(at)
    /\ UNCHANGED <<signed, published, saved, final, refreshed, charged, historyVars>>

\* A MediaError of the conversion also removes the input, so that bad bytes are
\* fetched again; an empty output and an internal error leave it.
ConvertFails ==
    /\ stage = "convert"
    /\ \E expected \in BOOLEAN :
          /\ Fail(expected)
          /\ input' \in {input} \cup
                (IF expected THEN {[input EXCEPT ![at] = 0]} ELSE {})
    /\ UNCHANGED <<signed, published, saved, final, refreshed, historyVars>>

-----------------------------------------------------------------------------
(***************************************************************************)
(* The end of a run                                                        *)
(***************************************************************************)

\* Mutant: the media work files stay after publication.
CommitKeepsWork ==
    /\ stage = "visit"
    /\ todo = {}
    /\ published' = mem
    /\ saved' = {}
    /\ spent' = [k \in Slots |-> spent[k] + (IF k \in charged THEN 1 ELSE 0)]
    /\ Leave
    /\ UNCHANGED <<signed, input, final, newest>>

\* The queues are committed with the snapshot; the work directory is removed.
Commit ==
    /\ stage = "visit"
    /\ todo = {}
    /\ published' = mem
    /\ saved' = {}
    /\ input' = [k \in Slots |-> 0]
    /\ final' = {}
    /\ spent' = [k \in Slots |-> spent[k] + (IF k \in charged THEN 1 ELSE 0)]
    /\ Leave
    /\ UNCHANGED <<signed, newest>>

Next ==
    \/ \E k \in Slots : \/ SignAnew(k)
                        \/ Repair(k)
                        \/ VisitDone(k)
                        \/ VisitFailed(k)
                        \/ Materialize(k)
    \/ Kill
    \/ Collect
    \/ Resume
    \/ Download
    \/ DownloadFails
    \/ Link
    \/ Finish
    \/ ConvertFails
    \/ Commit

Spec == Init /\ [][Next]_vars

-----------------------------------------------------------------------------
(***************************************************************************)
(* Properties                                                              *)
(***************************************************************************)

\* A slot is given up exactly when as many published runs as the budget allows
\* have failed on it with a classified error: a killed run, a resumed one or an
\* internal error never uses the budget up.  media-and-docker.md:60 "Only
\* expected source/download/decoding/conversion failures consume that retry
\* budget", :171 "Failure queues are committed with the final snapshot".
BudgetIsFair ==
    \A k \in Slots :
        /\ published[k].state = "failed"  => spent[k] >= MaxFailedRuns
        /\ published[k].state = "pending" => spent[k] < MaxFailedRuns

\* Every attempt fetches the newest URL anybody gave for the slot, also when
\* the run that collected it was killed and another one resumes its posts.
\* media-and-docker.md:79 "Freshly rediscovered posts refresh pending source
\* URLs; otherwise the queue's stored URL is used."
NewestSource == stage = "download" => Attempted = newest[at]

\* Bytes kept from an interrupted run are those of the URL the slot would be
\* attempted with now; none survive the run that publishes.
InputIsCurrent ==
    \A k \in Slots : input[k] # 0 => saved # {} /\ input[k] = newest[k]

\* Every published slot is archived, or in exactly one of the queues: no
\* outcome of an attempt lets a slot fall through.
EverySlotSettled ==
    \A k \in Slots : published[k].state # "new"

\* A finished output is never lost: it stays under the work directory until the
\* slot is published as archived; and an archived slot stays archived.
FinishedIsKept ==
    [][\A k \in Slots :
          /\ k \in final => k \in final' \/ published'[k].state = "archived"
          /\ published[k].state = "archived" => published'[k].state = "archived"]_vars
=============================================================================
