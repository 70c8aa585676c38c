------------------------------ MODULE Collection ------------------------------
(***************************************************************************)
(* What successive runs collect (application/collection_phases.py,         *)
(* application/windows.py, storage/merge.py, application/collect.py): the  *)
(* window of each account, the outcome of the route, the merge with the    *)
(* previous snapshot, and the resumption of a run that was killed after it *)
(* had saved its posts.                                                    *)
(*                                                                         *)
(* Time is the UTC date of a run; several runs may happen on one date.  A  *)
(* post appears at the provider some time after the date it carries, at    *)
(* most MaxLatency days.  Day 0 is the platform's earliest date.  Router   *)
(* and LocalRefresh show what happens inside a run; here it is one step.   *)
(***************************************************************************)
EXTENDS Integers, FiniteSets

CONSTANTS
    Accounts,
    Posts,
    AccountOf,      \* the account of each post
    PublishedOn,    \* the date each post carries
    Overrides,      \* explicit windows an operator may pass, <<first, last>>
    OverlapDays,    \* _OVERLAP_DAYS (3 in the code)
    MaxLatency,     \* bound on the days until a post appears
    MaxGap,         \* days between collections that NothingMissed tolerates
    LastDay         \* bound on time

ASSUME CollectionAssumption ==
    /\ AccountOf \in [Posts -> Accounts]
    /\ PublishedOn \in [Posts -> Nat]
    /\ Overrides \subseteq Nat \X Nat
    /\ OverlapDays \in Nat
    /\ MaxLatency \in Nat
    /\ MaxGap \in Nat
    /\ MaxGap + MaxLatency <= OverlapDays
    /\ LastDay \in Nat

VARIABLES
    day,        \* the date
    visible,    \* posts the providers can return
    snapshot,   \* the published snapshot
    saved,      \* the snapshot saved by a run that was killed, a set of at most one
    regular,    \* history: collected from its earliest date, and often enough since
    last,       \* history: date of the last collection with the default window
    covered     \* history: posts that were visible at that collection

history == <<regular, last, covered>>
vars == <<day, visible, snapshot, saved, history>>

Never == -1
Dates == (0 .. day) \cup {Never}

Snapshots == [accounts  : SUBSET Accounts,
              firstSeen : [Posts -> Dates],      \* Never: not in the snapshot
              watermark : [Accounts -> Dates]]

TypeOK ==
    /\ day \in Nat
    /\ visible \in SUBSET Posts
    /\ snapshot \in Snapshots
    /\ saved \in SUBSET Snapshots
    /\ regular \in [Accounts -> BOOLEAN]
    /\ last \in [Accounts -> Dates]
    /\ covered \in [Accounts -> SUBSET Posts]

PostsIn(snap) == {p \in Posts : snap.firstSeen[p] # Never}

\* What has been collected and is not lost: saved posts replace the published
\* ones when they are resumed.
Newest == IF saved = {} THEN {snapshot} ELSE saved

-----------------------------------------------------------------------------
Init ==
    /\ day = 0
    /\ visible = {}
    /\ snapshot = [accounts  |-> {},
                   firstSeen |-> [p \in Posts |-> Never],
                   watermark |-> [a \in Accounts |-> Never]]
    /\ saved = {}
    /\ regular = [a \in Accounts |-> FALSE]
    /\ last = [a \in Accounts |-> Never]
    /\ covered = [a \in Accounts |-> {}]

(***************************************************************************)
(* The surroundings: time and publications                                 *)
(***************************************************************************)

NextDay ==
    /\ day < LastDay
    /\ day' = day + 1
    /\ UNCHANGED <<visible, snapshot, saved, history>>

Appear ==
    /\ \E p \in Posts \ visible :
          /\ PublishedOn[p] <= day
          /\ day <= PublishedOn[p] + MaxLatency
          /\ visible' = visible \cup {p}
    /\ UNCHANGED <<day, snapshot, saved, history>>

-----------------------------------------------------------------------------
(***************************************************************************)
(* One run                                                                 *)
(***************************************************************************)

\* Mutant: collection goes on where the last one ended.
FirstDaySinceWatermark(a, snap) == IF a \in snap.accounts THEN snap.watermark[a] ELSE 0

\* The default window of one account: the whole history the first time, an
\* overlap of a few days for an account already in the snapshot.
FirstDay(a, snap) == IF a \in snap.accounts THEN day - OverlapDays ELSE 0

Window(a, snap, override) ==
    IF override = {} THEN FirstDay(a, snap) .. day
    ELSE UNION {w[1] .. w[2] : w \in override}

Found(succeeded, snap, override) ==
    {p \in visible : /\ AccountOf[p] \in succeeded
                     /\ PublishedOn[p] \in Window(AccountOf[p], snap, override)}

\* Mutant: the end of an explicit window is taken as it is.
BoundaryAsAsked(override) ==
    IF override = {} THEN day ELSE (CHOOSE w \in override : TRUE)[2]

\* The end of what was asked for, never in the future.
Boundary(override) ==
    LET asked == {w[2] : w \in override} \cup {day}
    IN  CHOOSE d \in asked : \A e \in asked : d <= e

\* merge_snapshot and the watermarks: nothing absent is deleted, a post seen
\* before keeps its first date, a watermark never moves back.
Merge(snap, succeeded, override) ==
    [accounts  |-> snap.accounts \cup succeeded,
     firstSeen |-> [p \in Posts |->
            IF snap.firstSeen[p] = Never /\ p \in Found(succeeded, snap, override)
            THEN day ELSE snap.firstSeen[p]],
     watermark |-> [a \in Accounts |->
            IF a \in succeeded /\ snap.watermark[a] < Boundary(override)
            THEN Boundary(override) ELSE snap.watermark[a]]]

\* What the run has seen of each account, for the properties only.
Remember(succeeded, override) ==
    IF override # {}
    THEN UNCHANGED history
    ELSE /\ regular' = [a \in Accounts |->
                  IF a \in succeeded
                  THEN \/ a \notin snapshot.accounts
                       \/ regular[a] /\ day <= last[a] + MaxGap
                  ELSE regular[a]]
         /\ last' = [a \in Accounts |-> IF a \in succeeded THEN day ELSE last[a]]
         /\ covered' = [a \in Accounts |->
                  IF a \in succeeded THEN {p \in visible : AccountOf[p] = a}
                  ELSE covered[a]]

Overridden == {{}} \cup {{w} : w \in Overrides}

\* Mutant: posts saved by a killed run do not stop a new collection.
MayCollectAlways == TRUE
MayCollect == saved = {}

\* The accounts of the input file whose collection succeeded; the others are
\* as good as absent.  (LocalRefresh has the runs that publish nothing because
\* every account failed or the route was aborted.)
Outcomes == SUBSET Accounts

\* A run that publishes.
Collect ==
    /\ MayCollect
    /\ \E succeeded \in Outcomes, override \in Overridden :
          /\ snapshot' = Merge(snapshot, succeeded, override)
          /\ Remember(succeeded, override)
    /\ UNCHANGED <<day, visible, saved>>

\* A run that is killed after it saved its posts.
CollectKilled ==
    /\ MayCollect
    /\ \E succeeded \in Outcomes, override \in Overridden :
          /\ saved' = {Merge(snapshot, succeeded, override)}
          /\ Remember(succeeded, override)
    /\ UNCHANGED <<day, visible, snapshot>>

\* The next run publishes what was saved; it collects nothing.
Resume ==
    /\ snapshot' \in saved
    /\ saved' = {}
    /\ UNCHANGED <<day, visible, history>>

Next ==
    \/ NextDay
    \/ Appear
    \/ Collect
    \/ CollectKilled
    \/ Resume

Spec == Init /\ [][Next]_vars

-----------------------------------------------------------------------------
(***************************************************************************)
(* Properties                                                              *)
(***************************************************************************)

\* As long as an account is collected every MaxGap days, no post of it is lost,
\* however late it appeared, whichever other accounts failed, and whether or
\* not runs were killed and resumed.  architecture.md:196 "The overlap protects
\* against late publication"; the window never grows after a longer outage.
NothingMissed ==
    \A a \in Accounts : regular[a] =>
        \A snap \in Newest : covered[a] \subseteq PostsIn(snap)

\* A published post never disappears, keeps the date it was first seen, and no
\* watermark moves back: not even when a run resumes what another had saved.
NothingForgotten ==
    [][/\ \A p \in PostsIn(snapshot) : snapshot'.firstSeen[p] = snapshot.firstSeen[p]
       /\ \A a \in Accounts : snapshot.watermark[a] <= snapshot'.watermark[a]]_vars

\* Every post belongs to an account of the snapshot (merge_snapshot would abort
\* the run otherwise), and exactly those accounts have a watermark: a request
\* that failed leaves neither, so the account is still new to the next run.  No
\* watermark is in the future, whatever window an operator asked for.
WatermarksAreHonest ==
    \A snap \in {snapshot} \cup saved :
        /\ \A p \in PostsIn(snap) : AccountOf[p] \in snap.accounts
        /\ \A a \in Accounts :
              /\ a \in snap.accounts <=> snap.watermark[a] # Never
              /\ snap.watermark[a] <= day
=============================================================================
