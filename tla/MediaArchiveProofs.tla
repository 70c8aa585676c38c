------------------------- MODULE MediaArchiveProofs -------------------------
(***************************************************************************)
(* Theorems of MediaArchive for any set of slots, any budget of more than  *)
(* one failed run and any number of URLs.                                  *)
(*                                                                         *)
(* Counts and IsNewest say what one entry of a snapshot promises about the *)
(* history of its slot.  They hold of the published snapshot (its URLs are *)
(* the newest as long as nothing is saved), of the saved one, and of the   *)
(* one in memory once the failures of the current run are added.           *)
(***************************************************************************)
EXTENDS MediaArchive, TLAPS

USE ArchiveAssumption

\* The failures entry e of slot k counts, c of them charged by this run.
Counts(e, k, c) ==
    /\ e.state \in {"pending", "failed"} => e.runs = spent[k] + c
    /\ e.state = "failed" => e.runs >= MaxFailedRuns
    /\ e.state = "pending" => e.runs < MaxFailedRuns
    /\ e.state \in {"unknown", "new"} => spent[k] = 0
    /\ e.state = "new" => e.runs = 0

\* The URL entry e of slot k would be attempted with.
IsNewest(e, k) ==
    /\ e.state = "pending" => e.source = newest[k]
    /\ e.state = "new" => e.content = newest[k]

Charge(k) == IF k \in charged THEN 1 ELSE 0

PublishedFits ==
    \A k \in Slots : /\ Counts(published[k], k, 0)
                     /\ saved = {} => IsNewest(published[k], k)

SavedFits ==
    \A s \in saved : \A k \in Slots :
        /\ Counts(s[k], k, 0)
        /\ IsNewest(s[k], k)
        /\ published[k].state = "archived" => s[k].state = "archived"

MemFits ==
    stage # "idle" => \A k \in Slots :
        /\ Counts(mem[k], k, Charge(k))
        /\ IsNewest(mem[k], k)
        /\ published[k].state = "archived" => mem[k].state = "archived"
        /\ k \in charged => k \notin todo /\ mem[k].state \in {"pending", "failed"}
        /\ k \in todo => mem[k].state # "unknown"
        /\ mem[k].state = "new" => k \in todo
        /\ k \in refreshed /\ k \in todo /\ mem[k].state = "pending" =>
              mem[k].content = newest[k]

\* The slot being materialized, and the outputs finished so far.
Progress ==
    /\ stage # "idle" => saved # {}
    /\ stage \in {"download", "convert", "linked"} =>
          at \in todo /\ mem[at].state \in {"new", "pending"}
    /\ stage = "linked" => at \in final
    /\ stage \in {"download", "convert"} => at \notin final
    /\ stage # "idle" => \A s \in saved : \A k \in Slots :
          mem[k].state # "unknown" => s[k].state # "unknown"
    /\ \A k \in final :
          /\ saved # {}
          /\ \A s \in saved : s[k].state # "unknown"
          /\ stage # "idle" => k \in todo \/ mem[k].state = "archived"

IInv ==
    /\ TypeOK
    /\ PublishedFits
    /\ SavedFits
    /\ MemFits
    /\ Progress
    /\ EverySlotSettled
    /\ InputIsCurrent

LEMMA InitHolds == Init => IInv
<1> SUFFICES ASSUME Init PROVE IInv
  OBVIOUS
<1> USE DEF Init, Unknown, Fate
<1>1. TypeOK
  BY DEF TypeOK, Snapshots, Entry, Fates, Urls, Stages
<1>2. PublishedFits /\ SavedFits /\ MemFits
  BY DEF PublishedFits, SavedFits, MemFits, Counts, IsNewest
<1>3. Progress /\ EverySlotSettled /\ InputIsCurrent
  BY DEF Progress, EverySlotSettled, InputIsCurrent
<1>4. QED
  BY <1>1, <1>2, <1>3 DEF IInv

\* Fates are entries.
LEMMA FateType ==
    ASSUME NEW state \in Fates, NEW runs \in Nat, NEW source \in Urls,
           NEW content \in Urls
    PROVE  /\ Fate(state, runs, source, content) \in Entry
           /\ Fate(state, runs, source, content).state = state
           /\ Fate(state, runs, source, content).runs = runs
           /\ Fate(state, runs, source, content).source = source
           /\ Fate(state, runs, source, content).content = content
  BY DEF Fate, Entry

LEMMA ConstantFates ==
    /\ Unknown \in Entry /\ Unknown.state = "unknown"
    /\ Archived \in Entry /\ Archived.state = "archived"
  BY FateType DEF Unknown, Archived, Fates, Urls

-----------------------------------------------------------------------------
(***************************************************************************)
(* Leaving and entering a run                                              *)
(***************************************************************************)

LEMMA LeaveType ==
    ASSUME TypeOK, Leave
    PROVE  /\ stage' \in Stages
           /\ mem' \in Snapshots
           /\ refreshed' \in SUBSET Slots
           /\ todo' \in SUBSET Slots
           /\ at' \in Slots \cup {NoSlot}
           /\ charged' \in SUBSET Slots
  BY ConstantFates DEF Leave, Stages, Snapshots

\* Every attempt uses the newest URL.
LEMMA AttemptIsNewest ==
    ASSUME IInv, stage \in {"download", "convert"}
    PROVE  Attempted = newest[at] /\ at \in Slots /\ Attempted \in Urls
<1>1. at \in todo /\ at \in Slots /\ mem[at].state \in {"new", "pending"}
  BY DEF IInv, Progress, TypeOK
<1>2. IsNewest(mem[at], at) /\ stage # "idle"
  BY <1>1 DEF IInv, MemFits
<1>3. Attempted = newest[at]
  BY <1>1, <1>2 DEF IInv, MemFits, Attempted, SourceOf, Counts, IsNewest
<1>4. newest[at] \in Urls
  BY <1>1 DEF IInv, TypeOK
<1>5. QED
  BY <1>1, <1>3, <1>4

LEMMA SignAnewStep ==
    ASSUME IInv, NEW k \in Slots, SignAnew(k)
    PROVE  IInv'
<1> USE DEF SignAnew, workVars, runVars, historyVars
<1>1. TypeOK'
  <2>1. signed[k] + 1 \in Urls \ {0}
    BY DEF IInv, TypeOK, Urls
  <2>2. QED
    BY <2>1 DEF IInv, TypeOK
<1>2. PublishedFits' /\ SavedFits' /\ MemFits'
  BY DEF IInv, PublishedFits, SavedFits, MemFits, Counts, IsNewest, Charge
<1>3. Progress' /\ EverySlotSettled' /\ InputIsCurrent'
  BY DEF IInv, Progress, EverySlotSettled, InputIsCurrent
<1>4. QED
  BY <1>1, <1>2, <1>3 DEF IInv

LEMMA RepairStep ==
    ASSUME IInv, NEW k \in Slots, Repair(k)
    PROVE  IInv'
<1> USE DEF workVars, runVars
<1>1. PICK url \in Urls \ {0} :
          /\ published' = [published EXCEPT ![k] =
                              Fate("pending", 1, url, published[k].content)]
          /\ newest' = [newest EXCEPT ![k] = url]
  BY DEF Repair
<1>2. published[k].content \in Urls
  BY DEF IInv, TypeOK, Snapshots, Entry
<1>3. /\ published'[k] \in Entry
      /\ published'[k].state = "pending"
      /\ published'[k].runs = 1
      /\ published'[k].source = url
  <2>1. published'[k] = Fate("pending", 1, url, published[k].content)
    BY <1>1 DEF IInv, TypeOK, Snapshots
  <2>2. "pending" \in Fates
    BY DEF Fates
  <2>3. QED
    BY <1>2, <2>1, <2>2, FateType
<1>4. /\ published' \in Snapshots
      /\ newest' \in [Slots -> Urls]
      /\ spent' \in [Slots -> Nat]
  BY <1>1, <1>3 DEF Repair, IInv, TypeOK, Snapshots
<1>5. TypeOK'
  BY <1>4 DEF Repair, IInv, TypeOK
<1>6. newest'[k] = url /\ spent'[k] = 1
  BY <1>1 DEF Repair, IInv, TypeOK
<1>7. \A j \in Slots \ {k} : /\ published'[j] = published[j]
                             /\ newest'[j] = newest[j]
                             /\ spent'[j] = spent[j]
  BY <1>1 DEF Repair, IInv, TypeOK, Snapshots
<1>8. PublishedFits'
  <2>1. Counts(published[k], k, 0)' /\ IsNewest(published[k], k)'
    BY <1>3, <1>6 DEF Counts, IsNewest
  <2>2. ASSUME NEW j \in Slots \ {k}
        PROVE  Counts(published[j], j, 0)' /\ IsNewest(published[j], j)'
    <3>1. Counts(published[j], j, 0) /\ IsNewest(published[j], j)
      <4>1. saved = {}
        BY DEF Repair
      <4>2. QED
        BY <4>1 DEF IInv, PublishedFits, Counts, IsNewest
    <3>2. QED
      BY <1>7, <3>1 DEF Counts, IsNewest
  <2>3. QED
    BY <2>1, <2>2 DEF PublishedFits
<1>9. SavedFits' /\ MemFits' /\ Progress'
  BY DEF Repair, IInv, SavedFits, MemFits, Progress
<1>10. EverySlotSettled'
  BY <1>3, <1>7 DEF IInv, EverySlotSettled
<1>11. InputIsCurrent'
  BY DEF Repair, IInv, InputIsCurrent
<1>12. QED
  BY <1>5, <1>8, <1>9, <1>10, <1>11 DEF IInv

LEMMA KillStep ==
    ASSUME IInv, Kill
    PROVE  IInv'
<1> USE DEF Kill, workVars, historyVars
<1>1. TypeOK'
  BY LeaveType DEF IInv, TypeOK
<1>2. PublishedFits' /\ SavedFits'
  BY DEF IInv, PublishedFits, SavedFits, Counts, IsNewest
<1>3. MemFits' /\ Progress'
  BY DEF IInv, MemFits, Progress, Leave
<1>4. EverySlotSettled' /\ InputIsCurrent'
  BY DEF IInv, EverySlotSettled, InputIsCurrent
<1>5. QED
  BY <1>1, <1>2, <1>3, <1>4 DEF IInv

\* Entering a run with a snapshot whose entries fit.
LEMMA StartType ==
    ASSUME TypeOK, NEW s \in Snapshots, Start(s)
    PROVE  /\ stage' \in Stages
           /\ mem' \in Snapshots
           /\ saved' \in SUBSET Snapshots
           /\ todo' \in SUBSET Slots
           /\ at' \in Slots \cup {NoSlot}
           /\ charged' \in SUBSET Slots
  BY DEF Start, Stages

\* What merging and re-queueing make of a published entry.
LEMMA CollectedFits ==
    ASSUME NEW e \in Entry, NEW k \in Slots, NEW url \in Urls,
           e.state # "new"
    PROVE  LET f == Queued(Reconcile(e, url)) IN
              /\ f \in Entry
              /\ f.state = "unknown" => FALSE
              /\ f.state \in {"pending", "failed"} => f.state = e.state /\ f.runs = e.runs
              /\ f.state = "new" =>
                    e.state = "unknown" /\ f.content = url /\ f.runs = 0
              /\ f.state = "pending" => f.source = url /\ f.content = url
              /\ e.state = "archived" => f.state = "archived"
<1> DEFINE f == Queued(Reconcile(e, url))
<1>1. /\ e.state \in Fates /\ e.runs \in Nat /\ e.source \in Urls /\ e.content \in Urls
      /\ "new" \in Fates /\ "pending" \in Fates /\ 0 \in Urls /\ 0 \in Nat
  BY DEF Entry, Fates, Urls
<1>2. CASE e.state = "archived"
  <2>1. f = e
    BY <1>2 DEF Queued, Reconcile
  <2>2. QED
    BY <1>2, <2>1
<1>3. CASE e.state = "unknown"
  <2>1. Reconcile(e, url) = Fate("new", 0, 0, url)
    BY <1>3 DEF Reconcile
  <2>2. f = Fate("new", 0, 0, url)
    BY <1>1, <2>1, FateType DEF Queued
  <2>3. QED
    BY <1>1, <1>3, <2>2, FateType
<1>4. CASE e.state = "pending"
  <2>1. Reconcile(e, url) = Fate("pending", e.runs, e.source, url)
    BY <1>4 DEF Reconcile
  <2>2. f = Fate("pending", e.runs, url, url)
    BY <1>1, <2>1, FateType DEF Queued
  <2>3. QED
    BY <1>1, <1>4, <2>2, FateType
<1>5. CASE e.state = "failed"
  <2>1. Reconcile(e, url) = Fate("failed", e.runs, e.source, url)
    BY <1>5 DEF Reconcile
  <2>2. f = Fate("failed", e.runs, e.source, url)
    BY <1>1, <1>5, <2>1, FateType DEF Queued
  <2>3. QED
    BY <1>1, <1>5, <2>2, FateType
<1>6. QED
  BY <1>1, <1>2, <1>3, <1>4, <1>5 DEF Fates

LEMMA CollectStep ==
    ASSUME IInv, Collect
    PROVE  IInv'
<1>1. PICK found \in SUBSET Slots :
          /\ Start([k \in Slots |->
                      IF k \in found THEN Queued(Reconcile(published[k], signed[k]))
                                     ELSE published[k]])
          /\ refreshed' = found
          /\ newest' = [k \in Slots |-> IF k \in found THEN signed[k] ELSE newest[k]]
  BY DEF Collect
<1>0. PICK s : s = [k \in Slots |->
                      IF k \in found THEN Queued(Reconcile(published[k], signed[k]))
                                     ELSE published[k]]
  OBVIOUS
<1>2. /\ stage = "idle"
      /\ saved = {}
      /\ UNCHANGED <<signed, published, input, final, spent>>
  BY DEF Collect
<1>3. \A k \in Slots : /\ published[k] \in Entry
                       /\ published[k].state # "new"
                       /\ Counts(published[k], k, 0)
                       /\ IsNewest(published[k], k)
                       /\ signed[k] \in Urls
                       /\ newest[k] \in Urls
  <2>1. \A k \in Slots : /\ Counts(published[k], k, 0)
                         /\ IsNewest(published[k], k)
    BY <1>2 DEF IInv, PublishedFits, Counts, IsNewest
  <2>2. \A k \in Slots : published[k] \in Entry /\ published[k].state # "new"
    BY DEF IInv, TypeOK, Snapshots, EverySlotSettled
  <2>3. \A k \in Slots : signed[k] \in Urls /\ newest[k] \in Urls
    BY DEF IInv, TypeOK
  <2>4. QED
    BY <2>1, <2>2, <2>3
<1>4. \A k \in Slots :
          /\ s[k] = IF k \in found THEN Queued(Reconcile(published[k], signed[k]))
                                   ELSE published[k]
          /\ newest'[k] = IF k \in found THEN signed[k] ELSE newest[k]
  BY <1>0, <1>1
<1>5. ASSUME NEW k \in Slots
      PROVE  /\ s[k] \in Entry
             /\ Counts(s[k], k, 0)'
             /\ IsNewest(s[k], k)'
             /\ published'[k].state = "archived" => s[k].state = "archived"
             /\ k \in found /\ s[k].state = "pending" => s[k].content = newest'[k]
  <2>1. CASE k \in found
    <3>1. /\ s[k] = Queued(Reconcile(published[k], signed[k]))
          /\ newest'[k] = signed[k]
      BY <1>4, <2>1
    <3>2. /\ s[k] \in Entry
          /\ s[k].state # "unknown"
          /\ s[k].state \in {"pending", "failed"} =>
                s[k].state = published[k].state /\ s[k].runs = published[k].runs
          /\ s[k].state = "new" =>
                /\ published[k].state = "unknown"
                /\ s[k].content = signed[k]
                /\ s[k].runs = 0
          /\ s[k].state = "pending" =>
                s[k].source = signed[k] /\ s[k].content = signed[k]
          /\ published[k].state = "archived" => s[k].state = "archived"
      BY <1>3, <3>1, CollectedFits
    <3>3. QED
      BY <1>2, <1>3, <2>1, <3>1, <3>2 DEF Counts, IsNewest
  <2>2. CASE k \notin found
    <3>1. s[k] = published[k] /\ newest'[k] = newest[k]
      BY <1>4, <2>2
    <3>2. QED
      BY <1>2, <1>3, <2>2, <3>1 DEF Counts, IsNewest
  <2>3. QED
    BY <2>1, <2>2
<1>6. s \in Snapshots
  BY <1>0, <1>5 DEF Snapshots
<1>7. /\ stage' = "visit" /\ mem' = s /\ saved' = {s} /\ charged' = {}
      /\ todo' = {k \in Slots : s[k].state # "unknown"} /\ at' = NoSlot
  BY <1>0, <1>1 DEF Start
<1>8. TypeOK'
  <2>1. newest' \in [Slots -> Urls]
    BY <1>1, <1>3
  <2>2. /\ stage' \in Stages /\ mem' \in Snapshots /\ saved' \in SUBSET Snapshots
        /\ todo' \in SUBSET Slots /\ at' \in Slots \cup {NoSlot}
        /\ charged' \in SUBSET Slots /\ refreshed' \in SUBSET Slots
    BY <1>1, <1>6, <1>7 DEF Stages
  <2>3. QED
    BY <1>2, <2>1, <2>2 DEF IInv, TypeOK
<1>9. PublishedFits'
  <2>1. ASSUME NEW k \in Slots PROVE Counts(published[k], k, 0)'
    BY <1>2, <1>3 DEF Counts
  <2>2. saved' # {}
    BY <1>7
  <2>3. QED
    BY <2>1, <2>2 DEF PublishedFits
<1>10. SavedFits'
  <2>1. ASSUME NEW t \in saved', NEW k \in Slots
        PROVE  /\ Counts(t[k], k, 0)'
               /\ IsNewest(t[k], k)'
               /\ published'[k].state = "archived" => t[k].state = "archived"
    <3>1. t = s
      BY <1>7
    <3>2. QED
      BY <1>5, <3>1 DEF Counts, IsNewest
  <2>2. QED
    BY <2>1 DEF SavedFits
<1>11. MemFits'
  <2>1. ASSUME NEW k \in Slots
        PROVE  Counts(mem[k], k, Charge(k))' /\ IsNewest(mem[k], k)'
    BY <1>5, <1>7 DEF Counts, IsNewest, Charge
  <2>2. \A k \in Slots : s[k].state = "new" => k \in todo'
    BY <1>7
  <2>3. QED
    BY <1>1, <1>5, <1>7, <2>1, <2>2 DEF MemFits
<1>12. Progress' /\ EverySlotSettled' /\ InputIsCurrent'
  BY <1>2, <1>7 DEF IInv, Progress, EverySlotSettled, InputIsCurrent
<1>13. QED
  BY <1>8, <1>9, <1>10, <1>11, <1>12 DEF IInv

LEMMA ResumeStep ==
    ASSUME IInv, Resume
    PROVE  IInv'
<1>1. PICK s \in saved : Start(s)
  BY DEF Resume
<1>2. /\ UNCHANGED <<signed, published, input, final, newest, spent>>
      /\ refreshed' = {}
  BY DEF Resume, historyVars
<1>3. /\ stage' = "visit" /\ mem' = s /\ saved' = {s} /\ charged' = {}
      /\ todo' = {k \in Slots : s[k].state # "unknown"} /\ at' = NoSlot
  BY <1>1 DEF Start
<1>4. s \in Snapshots
  BY DEF IInv, TypeOK
<1>5. \A k \in Slots :
          /\ Counts(s[k], k, 0)
          /\ IsNewest(s[k], k)
          /\ published[k].state = "archived" => s[k].state = "archived"
  BY DEF IInv, SavedFits
<1>6. TypeOK'
  BY <1>1, <1>2, <1>4, StartType DEF IInv, TypeOK
<1>7. PublishedFits'
  BY <1>2, <1>3 DEF IInv, PublishedFits, Counts
<1>8. SavedFits'
  BY <1>2, <1>3, <1>5 DEF SavedFits, Counts, IsNewest
<1>9. MemFits'
  <2>1. ASSUME NEW k \in Slots
        PROVE  Counts(mem[k], k, Charge(k))' /\ IsNewest(mem[k], k)'
    BY <1>2, <1>3, <1>5 DEF Counts, IsNewest, Charge
  <2>2. \A k \in Slots : s[k].state = "new" => k \in todo'
    BY <1>3
  <2>3. QED
    BY <1>2, <1>3, <1>5, <2>1, <2>2 DEF MemFits
<1>10. Progress' /\ EverySlotSettled' /\ InputIsCurrent'
  <2>1. \A k \in final : s[k].state # "unknown" /\ k \in Slots
    BY DEF IInv, Progress, TypeOK
  <2>2. \A k \in final : k \in todo'
    BY <1>3, <2>1
  <2>3. saved' # {} /\ \A t \in saved' : t = s
    BY <1>3
  <2>4. Progress'
    BY <1>2, <1>3, <2>1, <2>2, <2>3 DEF Progress
  <2>5. QED
    BY <1>2, <1>3, <2>3, <2>4 DEF IInv, EverySlotSettled, InputIsCurrent
<1>11. QED
  BY <1>6, <1>7, <1>8, <1>9, <1>10 DEF IInv

-----------------------------------------------------------------------------
(***************************************************************************)
(* One slot                                                                *)
(***************************************************************************)

\* A slot that is still to be visited has not been charged in this run.
LEMMA Unvisited ==
    ASSUME IInv, stage # "idle", NEW k \in todo
    PROVE  /\ k \in Slots
           /\ k \notin charged
           /\ mem[k] \in Entry
           /\ mem[k].state # "unknown"
           /\ Counts(mem[k], k, 0)
           /\ IsNewest(mem[k], k)
           /\ published[k].state = "archived" => mem[k].state = "archived"
<1>1. k \in Slots /\ mem[k] \in Entry
  BY DEF IInv, TypeOK, Snapshots
<1>2. Charge(k) = 0 /\ k \notin charged
  BY <1>1 DEF IInv, MemFits, Charge
<1>3. Counts(mem[k], k, Charge(k)) /\ IsNewest(mem[k], k)
  BY <1>1 DEF IInv, MemFits
<1>4. QED
  BY <1>1, <1>2, <1>3 DEF IInv, MemFits

\* Slot k gets entry e and is not visited again in this run.
LEMMA SettleStep ==
    ASSUME IInv, stage # "idle", NEW k \in todo, NEW e \in Entry,
           Settle(k), Set(k, e),
           UNCHANGED <<signed, published, saved, final, refreshed, newest, spent>>,
           charged' = charged \/ charged' = charged \cup {k},
           e.state \in {"pending", "failed", "archived"},
           k \in charged' => e.state # "archived",
           Counts(e, k, IF k \in charged' THEN 1 ELSE 0),
           IsNewest(e, k),
           published[k].state = "archived" => e.state = "archived",
           k \in final => e.state = "archived",
           \A j \in Slots : input'[j] = input[j] \/ input'[j] = 0,
           input' \in [Slots -> Urls]
    PROVE  IInv'
<1>1. k \in Slots /\ stage' = "visit" /\ at' = NoSlot /\ todo' = todo \ {k}
  BY DEF IInv, TypeOK, Settle
<1>2. /\ mem'[k] = e
      /\ \A j \in Slots \ {k} : mem'[j] = mem[j]
      /\ mem' \in Snapshots
  BY <1>1 DEF Set, IInv, TypeOK, Snapshots
<1>3. TypeOK'
  BY <1>1, <1>2 DEF IInv, TypeOK, Stages
<1>4. PublishedFits' /\ SavedFits'
  BY DEF IInv, PublishedFits, SavedFits, Counts, IsNewest
<1>5. MemFits'
  <2>1. Counts(mem[k], k, Charge(k))' /\ IsNewest(mem[k], k)'
    BY <1>2 DEF Counts, IsNewest, Charge
  <2>2. ASSUME NEW j \in Slots \ {k}
        PROVE  Counts(mem[j], j, Charge(j))' /\ IsNewest(mem[j], j)'
    <3>1. Counts(mem[j], j, Charge(j)) /\ IsNewest(mem[j], j)
      BY DEF IInv, MemFits
    <3>2. j \in charged' <=> j \in charged
      OBVIOUS
    <3>3. QED
      BY <1>2, <3>1, <3>2 DEF Counts, IsNewest, Charge
  <2>3. \A j \in Slots \ {k} :
            /\ j \in todo' <=> j \in todo
            /\ j \in charged' <=> j \in charged
    BY <1>1
  <2>4. ASSUME NEW j \in Slots \ {k}
        PROVE  /\ published'[j].state = "archived" => mem'[j].state = "archived"
               /\ j \in charged' =>
                     j \notin todo' /\ mem'[j].state \in {"pending", "failed"}
               /\ j \in todo' => mem'[j].state # "unknown"
               /\ mem'[j].state = "new" => j \in todo'
               /\ j \in refreshed' /\ j \in todo' /\ mem'[j].state = "pending" =>
                     mem'[j].content = newest'[j]
    BY <1>2, <2>3 DEF IInv, MemFits
  <2>5. /\ published'[k].state = "archived" => mem'[k].state = "archived"
        /\ k \in charged' => mem'[k].state \in {"pending", "failed"}
        /\ k \notin todo'
        /\ mem'[k].state # "new"
    BY <1>1, <1>2
  <2>6. ASSUME NEW j \in Slots
        PROVE  /\ Counts(mem[j], j, Charge(j))'
               /\ IsNewest(mem[j], j)'
               /\ published'[j].state = "archived" => mem'[j].state = "archived"
               /\ j \in charged' =>
                     j \notin todo' /\ mem'[j].state \in {"pending", "failed"}
               /\ j \in todo' => mem'[j].state # "unknown"
               /\ mem'[j].state = "new" => j \in todo'
               /\ j \in refreshed' /\ j \in todo' /\ mem'[j].state = "pending" =>
                     mem'[j].content = newest'[j]
    <3>1. CASE j = k
      BY <3>1, <2>1, <2>5
    <3>2. CASE j # k
      BY <3>2, <2>2, <2>4
    <3>3. QED
      BY <3>1, <3>2
  <2>7. QED
    BY <2>6 DEF MemFits
<1>6. Progress'
  <2>1. \A s \in saved' : \A j \in Slots :
            mem'[j].state # "unknown" => s[j].state # "unknown"
    <3>1. mem[k].state # "unknown"
      BY Unvisited
    <3>2. QED
      BY <1>1, <1>2, <3>1 DEF IInv, Progress
  <2>2. \A j \in final' : j \in todo' \/ mem'[j].state = "archived"
    BY <1>1, <1>2 DEF IInv, Progress, TypeOK
  <2>3. QED
    BY <1>1, <2>1, <2>2 DEF IInv, Progress
<1>7. EverySlotSettled' /\ InputIsCurrent'
  BY DEF IInv, EverySlotSettled, InputIsCurrent
<1>8. QED
  BY <1>3, <1>4, <1>5, <1>6, <1>7 DEF IInv

LEMMA VisitDoneStep ==
    ASSUME IInv, NEW k \in Slots, VisitDone(k)
    PROVE  IInv'
<1>1. /\ k \in todo
      /\ stage # "idle"
      /\ Set(k, Archived)
      /\ Settle(k)
      /\ UNCHANGED <<signed, published, saved, final, refreshed, newest, spent>>
      /\ UNCHANGED <<charged, input>>
  BY DEF VisitDone, workVars, historyVars
<1>2. k \notin charged
  BY <1>1, Unvisited
<1>3. /\ Archived \in Entry
      /\ Archived.state = "archived"
      /\ Counts(Archived, k, IF k \in charged' THEN 1 ELSE 0)
      /\ IsNewest(Archived, k)
  BY ConstantFates DEF Counts, IsNewest
<1>4. input' \in [Slots -> Urls]
  BY <1>1 DEF IInv, TypeOK
<1>5. QED
  BY <1>1, <1>2, <1>3, <1>4, SettleStep

LEMMA VisitFailedStep ==
    ASSUME IInv, NEW k \in Slots, VisitFailed(k)
    PROVE  IInv'
<1>1. /\ k \in todo
      /\ stage # "idle"
      /\ k \notin final
      /\ mem[k].state = "failed"
      /\ Settle(k)
      /\ UNCHANGED <<signed, published, saved, final, refreshed, newest, spent>>
      /\ UNCHANGED <<charged, input, mem>>
  BY DEF VisitFailed, workVars, historyVars
<1>2. /\ k \notin charged
      /\ mem[k] \in Entry
      /\ Counts(mem[k], k, 0)
      /\ IsNewest(mem[k], k)
      /\ published[k].state = "archived" => mem[k].state = "archived"
  BY <1>1, Unvisited
<1>3. Set(k, mem[k])
  BY <1>1 DEF Set, IInv, TypeOK, Snapshots
<1>4. input' \in [Slots -> Urls]
  BY <1>1 DEF IInv, TypeOK
<1>5. Counts(mem[k], k, IF k \in charged' THEN 1 ELSE 0)
  BY <1>1, <1>2
<1>6. QED
  BY <1>1, <1>2, <1>3, <1>4, <1>5, SettleStep

\* A failed attempt, whatever it leaves of the input.
LEMMA FailStep ==
    ASSUME IInv, stage \in {"download", "convert"}, NEW expected \in BOOLEAN,
           Fail(expected),
           UNCHANGED <<signed, published, saved, final, refreshed, newest, spent>>,
           \A j \in Slots : input'[j] = input[j] \/ input'[j] = 0,
           input' \in [Slots -> Urls],
           at \notin final
    PROVE  IInv'
<1>1. at \in todo /\ mem[at].state \in {"new", "pending"}
  BY DEF IInv, Progress
<1>2. /\ at \in Slots
      /\ at \notin charged
      /\ mem[at] \in Entry
      /\ Counts(mem[at], at, 0)
      /\ published[at].state # "archived"
  BY <1>1, Unvisited
<1>3. Attempted = newest[at] /\ Attempted \in Urls
  BY AttemptIsNewest
<1> DEFINE runs == mem[at].runs + (IF expected THEN 1 ELSE 0)
           state == IF expected /\ runs >= MaxFailedRuns THEN "failed" ELSE "pending"
           e == Fate(state, runs, Attempted, Attempted)
<1>4. Set(at, e) /\ Settle(at)
  BY DEF Fail, Queue
<1>5. mem[at].runs \in Nat /\ runs \in Nat /\ state \in Fates
  BY <1>2 DEF Entry, Fates
<1>6. /\ e \in Entry
      /\ e.state = state /\ e.runs = runs
      /\ e.source = Attempted /\ e.content = Attempted
  BY <1>3, <1>5, FateType
<1>7. charged' = charged \cup {at} \/ charged' = charged
  BY DEF Fail
<1>8. at \in charged' <=> expected
  BY <1>2 DEF Fail
<1>9. Counts(e, at, IF at \in charged' THEN 1 ELSE 0)
  <2>1. spent[at] \in Nat
    BY <1>2 DEF IInv, TypeOK
  <2>2. mem[at].runs = spent[at]
    BY <1>1, <1>2, <2>1 DEF Counts
  <2>3. mem[at].runs < MaxFailedRuns
    BY <1>1, <1>2 DEF Counts
  <2>4. CASE expected
    BY <1>5, <1>6, <1>8, <2>1, <2>2, <2>4 DEF Counts
  <2>5. CASE ~expected
    BY <1>5, <1>6, <1>8, <2>1, <2>2, <2>3, <2>5 DEF Counts
  <2>6. QED
    BY <2>4, <2>5
<1>10. IsNewest(e, at)
  BY <1>3, <1>6 DEF IsNewest
<1> HIDE DEF e
<1>11. e.state \in {"pending", "failed"}
  BY <1>6
<1>12. QED
  BY <1>1, <1>2, <1>4, <1>6, <1>7, <1>9, <1>10, <1>11, SettleStep

LEMMA MaterializeStep ==
    ASSUME IInv, NEW k \in Slots, Materialize(k)
    PROVE  IInv'
<1>1. /\ k \in todo
      /\ stage = "visit"
      /\ k \notin final
      /\ mem[k].state \in {"new", "pending"}
      /\ at' = k
      /\ stage' \in {"download", "convert"}
      /\ UNCHANGED <<signed, published, saved, final, refreshed, newest, spent>>
      /\ UNCHANGED <<charged, input, mem, todo>>
  BY DEF Materialize, workVars, historyVars
<1>2. TypeOK'
  BY <1>1 DEF IInv, TypeOK, Stages
<1>3. PublishedFits' /\ SavedFits'
  BY <1>1 DEF IInv, PublishedFits, SavedFits, Counts, IsNewest
<1>4. MemFits'
  BY <1>1 DEF IInv, MemFits, Counts, IsNewest, Charge
<1>5. Progress' /\ EverySlotSettled' /\ InputIsCurrent'
  BY <1>1 DEF IInv, Progress, EverySlotSettled, InputIsCurrent
<1>6. QED
  BY <1>2, <1>3, <1>4, <1>5 DEF IInv

LEMMA DownloadStep ==
    ASSUME IInv, Download
    PROVE  IInv'
<1>1. /\ stage = "download"
      /\ input' = [input EXCEPT ![at] = Attempted]
      /\ stage' = "convert"
      /\ UNCHANGED <<signed, published, saved, final, refreshed, newest, spent>>
      /\ UNCHANGED <<charged, mem, todo, at>>
  BY DEF Download, historyVars
<1>2. Attempted = newest[at] /\ at \in Slots /\ Attempted \in Urls
  BY <1>1, AttemptIsNewest
<1>3. TypeOK'
  BY <1>1, <1>2 DEF IInv, TypeOK, Stages
<1>4. PublishedFits' /\ SavedFits'
  BY <1>1 DEF IInv, PublishedFits, SavedFits, Counts, IsNewest
<1>5. MemFits'
  BY <1>1 DEF IInv, MemFits, Counts, IsNewest, Charge
<1>6. Progress' /\ EverySlotSettled'
  BY <1>1 DEF IInv, Progress, EverySlotSettled
<1>7. InputIsCurrent'
  <2>1. saved # {}
    BY <1>1 DEF IInv, Progress
  <2>2. \A k \in Slots : input'[k] = IF k = at THEN newest[at] ELSE input[k]
    BY <1>1, <1>2 DEF IInv, TypeOK
  <2>3. QED
    BY <1>1, <2>1, <2>2 DEF IInv, InputIsCurrent
<1>8. QED
  BY <1>3, <1>4, <1>5, <1>6, <1>7 DEF IInv

LEMMA DownloadFailsStep ==
    ASSUME IInv, DownloadFails
    PROVE  IInv'
<1>1. /\ stage = "download"
      /\ UNCHANGED <<signed, published, saved, final, refreshed, newest, spent>>
      /\ UNCHANGED input
  BY DEF DownloadFails, workVars, historyVars
<1>2. PICK expected \in BOOLEAN : Fail(expected)
  BY DEF DownloadFails
<1>3. at \notin final
  BY <1>1 DEF IInv, Progress
<1>4. input' \in [Slots -> Urls]
  BY <1>1 DEF IInv, TypeOK
<1>5. QED
  BY <1>1, <1>2, <1>3, <1>4, FailStep

LEMMA ConvertFailsStep ==
    ASSUME IInv, ConvertFails
    PROVE  IInv'
<1>1. /\ stage = "convert"
      /\ UNCHANGED <<signed, published, saved, final, refreshed, newest, spent>>
  BY DEF ConvertFails, historyVars
<1>2. PICK expected \in BOOLEAN :
          /\ Fail(expected)
          /\ input' \in {input} \cup
                (IF expected THEN {[input EXCEPT ![at] = 0]} ELSE {})
  BY DEF ConvertFails
<1>3. at \notin final
  BY <1>1 DEF IInv, Progress
<1>4. input' = input \/ input' = [input EXCEPT ![at] = 0]
  BY <1>2
<1>5. /\ input' \in [Slots -> Urls]
      /\ \A j \in Slots : input'[j] = input[j] \/ input'[j] = 0
  BY <1>4 DEF IInv, TypeOK, Urls
<1>6. QED
  BY <1>1, <1>2, <1>3, <1>5, FailStep

LEMMA LinkStep ==
    ASSUME IInv, Link
    PROVE  IInv'
<1>1. /\ stage = "convert"
      /\ final' = final \cup {at}
      /\ stage' = "linked"
      /\ UNCHANGED <<signed, published, saved, input, refreshed, newest, spent>>
      /\ UNCHANGED <<charged, mem, todo, at>>
  BY DEF Link, historyVars
<1>2. at \in todo /\ at \in Slots /\ mem[at].state \in {"new", "pending"}
  BY <1>1 DEF IInv, Progress, TypeOK
<1>3. TypeOK'
  BY <1>1, <1>2 DEF IInv, TypeOK, Stages
<1>4. PublishedFits' /\ SavedFits'
  BY <1>1 DEF IInv, PublishedFits, SavedFits, Counts, IsNewest
<1>5. MemFits'
  BY <1>1 DEF IInv, MemFits, Counts, IsNewest, Charge
<1>6. Progress'
  <2>1. \A s \in saved : s[at].state # "unknown"
    BY <1>1, <1>2 DEF IInv, Progress
  <2>2. QED
    BY <1>1, <1>2, <2>1 DEF IInv, Progress
<1>7. EverySlotSettled' /\ InputIsCurrent'
  BY <1>1 DEF IInv, EverySlotSettled, InputIsCurrent
<1>8. QED
  BY <1>3, <1>4, <1>5, <1>6, <1>7 DEF IInv

LEMMA FinishStep ==
    ASSUME IInv, Finish
    PROVE  IInv'
<1>1. /\ stage = "linked"
      /\ input' = [input EXCEPT ![at] = 0]
      /\ Set(at, Archived)
      /\ Settle(at)
      /\ UNCHANGED <<signed, published, saved, final, refreshed, newest, spent>>
      /\ UNCHANGED charged
  BY DEF Finish, historyVars
<1>2. at \in todo
  BY <1>1 DEF IInv, Progress
<1>3. at \notin charged
  BY <1>1, <1>2, Unvisited
<1>4. /\ Archived \in Entry
      /\ Archived.state = "archived"
      /\ Counts(Archived, at, IF at \in charged' THEN 1 ELSE 0)
      /\ IsNewest(Archived, at)
  BY ConstantFates DEF Counts, IsNewest
<1>5. 0 \in Urls /\ at \in Slots
  BY <1>2 DEF IInv, TypeOK, Urls
<1>6. input' \in [Slots -> Urls]
  BY <1>1, <1>5 DEF IInv, TypeOK
<1>7. \A j \in Slots : input'[j] = input[j] \/ input'[j] = 0
  BY <1>1, <1>5 DEF IInv, TypeOK
<1>8. QED
  BY <1>1, <1>2, <1>3, <1>4, <1>6, <1>7, SettleStep

-----------------------------------------------------------------------------
(***************************************************************************)
(* Publication                                                             *)
(***************************************************************************)

\* With no slot left to visit, every slot is settled, and what the run charged
\* becomes part of the published count.
LEMMA CommitStep ==
    ASSUME IInv, Commit
    PROVE  IInv'
<1>1. /\ stage = "visit"
      /\ todo = {}
      /\ published' = mem
      /\ saved' = {}
      /\ input' = [k \in Slots |-> 0]
      /\ final' = {}
      /\ spent' = [k \in Slots |-> spent[k] + (IF k \in charged THEN 1 ELSE 0)]
      /\ Leave
      /\ UNCHANGED <<signed, newest>>
  BY DEF Commit
<1>2. /\ stage' = "idle"
      /\ charged' = {}
  BY <1>1 DEF Leave
<1>3. TypeOK'
  <2>1. input' \in [Slots -> Urls]
    BY <1>1 DEF Urls
  <2>2. spent' \in [Slots -> Nat]
    BY <1>1 DEF IInv, TypeOK
  <2>3. published' \in Snapshots
    BY <1>1 DEF IInv, TypeOK
  <2>4. saved' \in SUBSET Snapshots /\ final' \in SUBSET Slots
    BY <1>1
  <2>5. signed' \in [Slots -> Urls \ {0}] /\ newest' \in [Slots -> Urls]
    BY <1>1 DEF IInv, TypeOK
  <2>6. QED
    BY <1>1, <2>1, <2>2, <2>3, <2>4, <2>5, LeaveType DEF IInv, TypeOK
<1>4. PublishedFits' /\ EverySlotSettled'
  <2> SUFFICES ASSUME NEW k \in Slots
               PROVE  /\ Counts(published[k], k, 0)'
                      /\ IsNewest(published[k], k)'
                      /\ published'[k].state # "new"
    BY DEF PublishedFits, EverySlotSettled
  <2>1. /\ Counts(mem[k], k, Charge(k))
        /\ IsNewest(mem[k], k)
        /\ mem[k].state = "new" => k \in todo
        /\ k \in charged => mem[k].state \in {"pending", "failed"}
    BY <1>1 DEF IInv, MemFits
  <2>2. spent'[k] = spent[k] + Charge(k)
    BY <1>1 DEF Charge
  <2>3. spent[k] \in Nat
    BY DEF IInv, TypeOK
  <2>4. k \notin charged => Charge(k) = 0
    BY DEF Charge
  <2>5. mem[k].state # "new"
    BY <1>1, <2>1
  <2>6. Counts(published[k], k, 0)'
    BY <1>1, <2>1, <2>2, <2>3, <2>4 DEF Counts, Charge
  <2>7. IsNewest(published[k], k)'
    BY <1>1, <2>1, <2>5 DEF IsNewest
  <2>8. QED
    BY <1>1, <2>5, <2>6, <2>7
<1>5. SavedFits' /\ MemFits' /\ Progress' /\ InputIsCurrent'
  BY <1>1, <1>2, LeaveType DEF SavedFits, MemFits, Progress, InputIsCurrent, IInv, Stages
<1>6. QED
  BY <1>3, <1>4, <1>5 DEF IInv

-----------------------------------------------------------------------------
(***************************************************************************)
(* Theorems                                                                *)
(***************************************************************************)

LEMMA StepKeeps == IInv /\ [Next]_vars => IInv'
<1> SUFFICES ASSUME IInv, [Next]_vars PROVE IInv'
  OBVIOUS
<1>1. ASSUME NEW k \in Slots, SignAnew(k) PROVE IInv'
  BY <1>1, SignAnewStep
<1>2. ASSUME NEW k \in Slots, Repair(k) PROVE IInv'
  BY <1>2, RepairStep
<1>3. ASSUME NEW k \in Slots, VisitDone(k) PROVE IInv'
  BY <1>3, VisitDoneStep
<1>4. ASSUME NEW k \in Slots, VisitFailed(k) PROVE IInv'
  BY <1>4, VisitFailedStep
<1>5. ASSUME NEW k \in Slots, Materialize(k) PROVE IInv'
  BY <1>5, MaterializeStep
<1>6. CASE Kill \/ Collect \/ Resume \/ Commit
  BY <1>6, KillStep, CollectStep, ResumeStep, CommitStep
<1>7. CASE Download \/ DownloadFails
  BY <1>7, DownloadStep, DownloadFailsStep
<1>8. CASE Link \/ Finish \/ ConvertFails
  BY <1>8, LinkStep, FinishStep, ConvertFailsStep
<1>9. CASE UNCHANGED vars
  <2>1. UNCHANGED <<signed, published, saved, input, final, stage, mem, refreshed,
                    todo, at, newest, spent, charged>>
    BY <1>9 DEF vars, workVars, runVars, historyVars
  <2>2. TypeOK' /\ EverySlotSettled' /\ InputIsCurrent'
    BY <2>1 DEF IInv, TypeOK, EverySlotSettled, InputIsCurrent
  <2>3. PublishedFits' /\ SavedFits'
    BY <2>1 DEF IInv, PublishedFits, SavedFits, Counts, IsNewest
  <2>4. MemFits'
    BY <2>1 DEF IInv, MemFits, Counts, IsNewest, Charge
  <2>5. Progress'
    BY <2>1 DEF IInv, Progress
  <2>6. QED
    BY <2>2, <2>3, <2>4, <2>5 DEF IInv
<1>10. QED
  BY <1>1, <1>2, <1>3, <1>4, <1>5, <1>6, <1>7, <1>8, <1>9 DEF Next

\* Every reachable state satisfies the inductive invariant.
THEOREM Invariance == Spec => []IInv
<1>1. QED
  BY InitHolds, StepKeeps, PTL DEF Spec

\* Entries, work files and histories keep their types: no attempt stores a fate
\* that is not one of the queues'.
THEOREM TypeCorrect == Spec => []TypeOK
<1>1. IInv => TypeOK
  BY DEF IInv
<1>2. QED
  BY <1>1, Invariance, PTL

\* For every budget, a slot is given up after exactly that many published runs
\* with a classified failure, however many others were killed or resumed.
THEOREM BudgetFair == Spec => []BudgetIsFair
<1>1. IInv => BudgetIsFair
  <2> SUFFICES ASSUME IInv, NEW k \in Slots
               PROVE  /\ published[k].state = "failed"  => spent[k] >= MaxFailedRuns
                      /\ published[k].state = "pending" => spent[k] < MaxFailedRuns
    BY DEF BudgetIsFair
  <2>1. Counts(published[k], k, 0) /\ spent[k] \in Nat
    BY DEF IInv, PublishedFits, TypeOK
  <2>2. QED
    BY <2>1 DEF Counts
<1>2. QED
  BY <1>1, Invariance, PTL

\* Every download asks for the newest URL collected for, or set on, its slot.
THEOREM AttemptsAreNewest == Spec => []NewestSource
<1>1. IInv => NewestSource
  BY AttemptIsNewest DEF NewestSource
<1>2. QED
  BY <1>1, Invariance, PTL

\* Bytes kept from an interrupted run belong to the newest URL of their slot.
THEOREM InputsAreCurrent == Spec => []InputIsCurrent
<1>1. IInv => InputIsCurrent
  BY DEF IInv
<1>2. QED
  BY <1>1, Invariance, PTL

\* No published snapshot has a slot that is neither archived nor queued.
THEOREM SlotsAreSettled == Spec => []EverySlotSettled
<1>1. IInv => EverySlotSettled
  BY DEF IInv
<1>2. QED
  BY <1>1, Invariance, PTL

\* A finished output survives every kill until its slot is published archived,
\* and an archived slot stays archived.
THEOREM FinishedStays == Spec => FinishedIsKept
<1> DEFINE Kept ==
        \A k \in Slots :
          /\ k \in final => k \in final' \/ published'[k].state = "archived"
          /\ published[k].state = "archived" => published'[k].state = "archived"
<1>1. IInv /\ [Next]_vars => [Kept]_vars
  <2> SUFFICES ASSUME IInv, Next PROVE Kept
    BY DEF vars
  <2>1. CASE published' = published /\ final \subseteq final'
    BY <2>1
  <2>2. CASE Commit
    <3>1. /\ stage = "visit"
          /\ todo = {}
          /\ published' = mem
      BY <2>2 DEF Commit
    <3>2. \A k \in final : mem[k].state = "archived"
      BY <3>1 DEF IInv, Progress
    <3>3. \A k \in Slots :
              published[k].state = "archived" => mem[k].state = "archived"
      BY <3>1 DEF IInv, MemFits
    <3>4. QED
      BY <3>1, <3>2, <3>3
  <2>3. ASSUME NEW k \in Slots, Repair(k) PROVE Kept
    <3>1. /\ published[k].state = "failed"
          /\ final' = final
      BY <2>3 DEF Repair, workVars
    <3>2. \A j \in Slots : j # k => published'[j] = published[j]
      BY <2>3 DEF Repair, IInv, TypeOK, Snapshots
    <3>3. QED
      BY <3>1, <3>2
  <2>4. CASE Kill \/ Collect \/ Resume
    BY <2>1, <2>4 DEF Kill, Collect, Resume, workVars
  <2>5. CASE Download \/ DownloadFails \/ Link \/ Finish \/ ConvertFails
    BY <2>1, <2>5 DEF Download, DownloadFails, Link, Finish, ConvertFails, workVars
  <2>6. ASSUME NEW k \in Slots,
               SignAnew(k) \/ VisitDone(k) \/ VisitFailed(k) \/ Materialize(k)
        PROVE  Kept
    BY <2>1, <2>6 DEF SignAnew, VisitDone, VisitFailed, Materialize, workVars
  <2>7. QED
    BY <2>2, <2>3, <2>4, <2>5, <2>6 DEF Next
<1>2. QED
  BY <1>1, Invariance, PTL DEF Spec, FinishedIsKept
=============================================================================
