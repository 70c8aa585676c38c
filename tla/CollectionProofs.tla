-------------------------- MODULE CollectionProofs --------------------------
(***************************************************************************)
(* Theorems of Collection for every set of accounts and posts, every       *)
(* publication date, overlap, delay and schedule of runs.                  *)
(*                                                                         *)
(* What may be missing from the newest snapshot is what was published      *)
(* within MaxLatency days of the account's last collection (Recent); the   *)
(* next collection reaches back at least that far (WindowReachesBack).     *)
(***************************************************************************)
EXTENDS Collection, TLAPS

USE CollectionAssumption

Honest(snap) ==
    /\ \A p \in Posts : snap.firstSeen[p] # Never => AccountOf[p] \in snap.accounts
    /\ \A a \in Accounts : a \in snap.accounts <=> snap.watermark[a] # Never

\* A later snapshot has everything an earlier one has.
Extends(new, old) ==
    /\ old.accounts \subseteq new.accounts
    /\ \A p \in Posts : old.firstSeen[p] # Never => new.firstSeen[p] = old.firstSeen[p]
    /\ \A a \in Accounts : old.watermark[a] <= new.watermark[a]

Consistent ==
    \A snap \in {snapshot} \cup saved :
        /\ \A p \in PostsIn(snap) : AccountOf[p] \in snap.accounts
        /\ \A a \in Accounts : a \in snap.accounts <=> snap.watermark[a] # Never

SavedExtendsPublished == \A snap \in saved : Extends(snap, snapshot)

NoneFromTheFuture == \A p \in visible : PublishedOn[p] <= day

\* Where a regularly collected account stands.
Regular ==
    \A a \in Accounts : regular[a] =>
        /\ last[a] \in 0 .. day
        /\ \A snap \in Newest : a \in snap.accounts

\* A post that was not there at the last collection was published recently.
Recent ==
    \A a \in Accounts : regular[a] =>
        \A p \in visible \ covered[a] :
            AccountOf[p] = a => last[a] <= PublishedOn[p] + MaxLatency

IInv ==
    /\ TypeOK
    /\ Consistent
    /\ SavedExtendsPublished
    /\ NoneFromTheFuture
    /\ Regular
    /\ Recent
    /\ NothingMissed

LEMMA InitHolds == Init => IInv
<1> SUFFICES ASSUME Init PROVE IInv
  OBVIOUS
<1> USE DEF Init, Never
<1>1. TypeOK
  BY DEF TypeOK, Snapshots, Dates
<1>2. Consistent
  BY DEF Consistent, PostsIn
<1>3. SavedExtendsPublished /\ NoneFromTheFuture /\ Regular /\ Recent /\ NothingMissed
  BY DEF SavedExtendsPublished, NoneFromTheFuture, Regular, Recent, NothingMissed
<1>4. QED
  BY <1>1, <1>2, <1>3 DEF IInv

\* The boundary of a run is a date that is not in the future.
LEMMA BoundaryIsADate ==
    ASSUME day \in Nat, NEW override \in Overridden
    PROVE  Boundary(override) \in 0 .. day
<1>1. CASE override = {}
  <2>1. {w[2] : w \in override} \cup {day} = {day}
    BY <1>1
  <2>2. QED
    BY <2>1 DEF Boundary
<1>2. ASSUME NEW w \in Overrides, override = {w}
      PROVE  Boundary(override) \in 0 .. day
  <2>1. w[2] \in Nat
    BY w \in Nat \X Nat
  <2>2. {v[2] : v \in override} \cup {day} = {w[2], day}
    BY <1>2
  <2>3. \E d \in {w[2], day} : \A e \in {w[2], day} : d <= e
    BY <2>1
  <2>4. /\ Boundary(override) \in {w[2], day}
        /\ \A e \in {w[2], day} : Boundary(override) <= e
    BY <2>2, <2>3 DEF Boundary
  <2>5. QED
    BY <2>1, <2>4
<1>3. QED
  BY <1>1, <1>2 DEF Overridden

\* merge_snapshot returns a snapshot that has everything of the previous one.
LEMMA MergeKeeps ==
    ASSUME day \in Nat, visible \in SUBSET Posts, NEW snap \in Snapshots, Honest(snap),
           NEW succeeded \in Outcomes, NEW override \in Overridden
    PROVE  /\ Merge(snap, succeeded, override) \in Snapshots
           /\ Honest(Merge(snap, succeeded, override))
           /\ Extends(Merge(snap, succeeded, override), snap)
<1> DEFINE merged == Merge(snap, succeeded, override)
<1>1. Boundary(override) \in 0 .. day
  BY BoundaryIsADate
<1>2. /\ snap.accounts \subseteq Accounts
      /\ \A p \in Posts : snap.firstSeen[p] \in Dates
      /\ \A a \in Accounts : snap.watermark[a] \in Dates
  BY DEF Snapshots
<1>4. merged.accounts = snap.accounts \cup succeeded
  BY DEF Merge
<1>5. merged.firstSeen = [p \in Posts |->
          IF snap.firstSeen[p] = Never /\ p \in Found(succeeded, snap, override)
          THEN day ELSE snap.firstSeen[p]]
  BY DEF Merge
<1>6. merged.watermark = [a \in Accounts |->
          IF a \in succeeded /\ snap.watermark[a] < Boundary(override)
          THEN Boundary(override) ELSE snap.watermark[a]]
  BY DEF Merge
<1>7. merged \in Snapshots
  <2>1. merged.accounts \in SUBSET Accounts
    BY <1>2, <1>4 DEF Outcomes
  <2>2. merged.firstSeen \in [Posts -> Dates]
    BY <1>2, <1>5 DEF Dates
  <2>3. merged.watermark \in [Accounts -> Dates]
    BY <1>1, <1>2, <1>6 DEF Dates
  <2>4. QED
    BY <2>1, <2>2, <2>3 DEF Snapshots, Merge
<1>8. \A p \in Found(succeeded, snap, override) : AccountOf[p] \in succeeded
  BY DEF Found
<1>9. Honest(merged)
  <2>1. ASSUME NEW p \in Posts, merged.firstSeen[p] # Never
        PROVE  AccountOf[p] \in merged.accounts
    BY <2>1, <1>4, <1>5, <1>8 DEF Honest
  <2>2. ASSUME NEW a \in Accounts
        PROVE  a \in merged.accounts <=> merged.watermark[a] # Never
    BY <1>1, <1>2, <1>4, <1>6 DEF Honest, Dates, Never
  <2>3. QED
    BY <2>1, <2>2 DEF Honest
<1>10. Extends(merged, snap)
  BY <1>1, <1>2, <1>4, <1>5, <1>6 DEF Extends, Dates, Never
<1>11. QED
  BY <1>7, <1>9, <1>10

\* The default window of an account that is new, or was collected at most
\* MaxGap days ago, reaches back to every post that is not in the snapshot yet.
LEMMA WindowReachesBack ==
    ASSUME IInv, saved = {}, NEW succeeded \in Outcomes, NEW a \in succeeded,
           a \notin snapshot.accounts \/ (regular[a] /\ day <= last[a] + MaxGap),
           NEW p \in visible, AccountOf[p] = a
    PROVE  p \in PostsIn(Merge(snapshot, succeeded, {}))
<1>1. /\ p \in Posts
      /\ a \in Accounts
      /\ day \in Nat
      /\ PublishedOn[p] \in Nat
      /\ PublishedOn[p] <= day
  BY DEF IInv, TypeOK, Outcomes, NoneFromTheFuture
<1>2. SUFFICES snapshot.firstSeen[p] = Never =>
                 p \in Found(succeeded, snapshot, {})
  BY <1>1 DEF PostsIn, Merge, Never
<1>3. CASE a \notin snapshot.accounts
  BY <1>1, <1>3 DEF Found, Window, FirstDay
<1>4. CASE a \in snapshot.accounts /\ p \notin covered[a]
  <2>1. last[a] <= PublishedOn[p] + MaxLatency /\ last[a] \in Nat
    BY <1>1, <1>4 DEF IInv, Regular, Recent
  <2>2. day - OverlapDays <= PublishedOn[p]
    BY <1>1, <1>4, <2>1
  <2>3. QED
    BY <1>1, <1>4, <2>2 DEF Found, Window, FirstDay
<1>5. CASE a \in snapshot.accounts /\ p \in covered[a]
  BY <1>1, <1>5 DEF IInv, NothingMissed, Newest, PostsIn
<1>6. QED
  BY <1>3, <1>4, <1>5

\* What a run that collects leaves, wherever its merged snapshot goes.
LEMMA RunKeeps ==
    ASSUME IInv, saved = {}, NEW succeeded \in Outcomes, NEW override \in Overridden,
           Remember(succeeded, override), NEW a \in Accounts
    PROVE  /\ regular'[a] \in BOOLEAN
           /\ last'[a] \in Dates
           /\ covered'[a] \subseteq Posts
           /\ regular'[a] =>
                /\ last'[a] \in 0 .. day
                /\ a \in Merge(snapshot, succeeded, override).accounts
                /\ covered'[a] \subseteq PostsIn(Merge(snapshot, succeeded, override))
                /\ \A p \in visible \ covered'[a] :
                      AccountOf[p] = a => last'[a] <= PublishedOn[p] + MaxLatency
<1> DEFINE merged == Merge(snapshot, succeeded, override)
<1>1. /\ Extends(merged, snapshot)
      /\ PostsIn(snapshot) \subseteq PostsIn(merged)
  <2>1. Extends(merged, snapshot)
    BY MergeKeeps DEF IInv, TypeOK, Consistent, Honest, PostsIn
  <2>2. QED
    BY <2>1 DEF Extends, PostsIn
<1>2. /\ regular[a] \in BOOLEAN
      /\ last[a] \in Dates
      /\ covered[a] \subseteq Posts
      /\ regular[a] =>
           /\ last[a] \in 0 .. day
           /\ a \in snapshot.accounts
           /\ covered[a] \subseteq PostsIn(snapshot)
           /\ \A p \in visible \ covered[a] :
                 AccountOf[p] = a => last[a] <= PublishedOn[p] + MaxLatency
  BY DEF IInv, TypeOK, Regular, Recent, NothingMissed, Newest
<1>3. CASE override = {} /\ a \in succeeded
  <2>1. /\ regular'[a] = (a \notin snapshot.accounts \/ (regular[a] /\ day <= last[a] + MaxGap))
        /\ last'[a] = day
        /\ covered'[a] = {p \in visible : AccountOf[p] = a}
    BY <1>3 DEF Remember
  <2>2. day \in Nat /\ visible \subseteq Posts
    BY DEF IInv, TypeOK
  <2>3. a \in merged.accounts
    BY <1>3 DEF Merge
  <2>4. regular'[a] => covered'[a] \subseteq PostsIn(merged)
    BY <1>3, <2>1, WindowReachesBack
  <2>5. regular'[a] \in BOOLEAN
    BY <2>1
  <2>6. QED
    BY <2>1, <2>2, <2>3, <2>4, <2>5 DEF Dates
<1>4. CASE ~(override = {} /\ a \in succeeded)
  <2>1. /\ regular'[a] = regular[a]
        /\ last'[a] = last[a]
        /\ covered'[a] = covered[a]
    BY <1>4 DEF Remember, history
  <2>2. snapshot.accounts \subseteq merged.accounts
    BY <1>1 DEF Extends
  <2>3. QED
    BY <1>1, <1>2, <2>1, <2>2
<1>5. QED
  BY <1>3, <1>4

\* The histories after a run are functions again.
LEMMA HistoryTypes ==
    ASSUME IInv, saved = {}, NEW succeeded \in Outcomes, NEW override \in Overridden,
           Remember(succeeded, override)
    PROVE  /\ regular' \in [Accounts -> BOOLEAN]
           /\ last' \in [Accounts -> Dates]
           /\ covered' \in [Accounts -> SUBSET Posts]
<1>1. /\ regular' = [a \in Accounts |-> regular'[a]]
      /\ last' = [a \in Accounts |-> last'[a]]
      /\ covered' = [a \in Accounts |-> covered'[a]]
  BY DEF Remember, history, IInv, TypeOK
<1>2. QED
  BY <1>1, RunKeeps

LEMMA StepKeeps == IInv /\ [Next]_vars => IInv'
<1> SUFFICES ASSUME IInv, [Next]_vars PROVE IInv'
  OBVIOUS
<1> USE DEF IInv
<1>1. CASE NextDay
  <2>1. /\ day' = day + 1 /\ day \in Nat
        /\ UNCHANGED <<visible, snapshot, saved, regular, last, covered>>
    BY <1>1 DEF NextDay, TypeOK, history
  <2>2. Dates \subseteq Dates'
    BY <2>1 DEF Dates
  <2>3. TypeOK'
    <3>1. Snapshots \subseteq Snapshots'
      BY <2>2 DEF Snapshots
    <3>2. QED
      BY <2>1, <2>2, <3>1 DEF TypeOK
  <2>4. NoneFromTheFuture'
    BY <2>1 DEF NoneFromTheFuture, TypeOK
  <2>5. Regular'
    BY <2>1 DEF Regular, Newest, TypeOK
  <2>6. (Consistent /\ SavedExtendsPublished /\ Recent /\ NothingMissed)'
    BY <2>1 DEF Consistent, SavedExtendsPublished, Recent, NothingMissed,
       Newest, PostsIn, Extends
  <2>7. QED
    BY <2>3, <2>4, <2>5, <2>6
<1>2. CASE Appear
  <2>1. PICK p \in Posts \ visible :
            /\ PublishedOn[p] <= day
            /\ day <= PublishedOn[p] + MaxLatency
            /\ visible' = visible \cup {p}
    BY <1>2 DEF Appear
  <2>2. UNCHANGED <<day, snapshot, saved, regular, last, covered>>
    BY <1>2 DEF Appear, history
  <2>3. TypeOK' /\ NoneFromTheFuture'
    BY <2>1, <2>2 DEF TypeOK, NoneFromTheFuture, Snapshots, Dates
  <2>4. Recent'
    <3> SUFFICES ASSUME NEW a \in Accounts, regular[a],
                        NEW q \in visible' \ covered[a], AccountOf[q] = a
                 PROVE  last[a] <= PublishedOn[q] + MaxLatency
      BY <2>2 DEF Recent
    <3>1. CASE q \in visible
      BY <3>1 DEF Recent
    <3>2. CASE q = p
      BY <2>1, <3>2 DEF Regular, TypeOK
    <3>3. QED
      BY <2>1, <3>1, <3>2
  <2>5. (Consistent /\ SavedExtendsPublished /\ Regular /\ NothingMissed)'
    BY <2>2 DEF Consistent, SavedExtendsPublished, Regular, NothingMissed,
       Newest, PostsIn, Extends
  <2>6. QED
    BY <2>3, <2>4, <2>5
<1>3. ASSUME NEW succeeded \in Outcomes, NEW override \in Overridden,
             saved = {}, Remember(succeeded, override), UNCHANGED <<day, visible>>,
             \/ /\ snapshot' = Merge(snapshot, succeeded, override)
                /\ saved' = {}
             \/ /\ snapshot' = snapshot
                /\ saved' = {Merge(snapshot, succeeded, override)}
      PROVE  IInv'
  <2> DEFINE merged == Merge(snapshot, succeeded, override)
  <2>1. /\ merged \in Snapshots
        /\ Honest(merged)
        /\ Extends(merged, snapshot)
    BY MergeKeeps, <1>3 DEF TypeOK, Consistent, Honest, PostsIn
  <2>2. Newest' = {merged}
    BY <1>3 DEF Newest
  <2>3. TypeOK'
    <3>1. /\ snapshot' \in Snapshots
          /\ saved' \subseteq Snapshots
      BY <1>3, <2>1 DEF TypeOK
    <3>2. Snapshots' = Snapshots /\ Dates' = Dates
      BY <1>3 DEF Snapshots, Dates
    <3>3. QED
      BY <1>3, <3>1, <3>2, HistoryTypes DEF TypeOK
  <2>4. Consistent'
    BY <1>3, <2>1 DEF Consistent, Honest, PostsIn
  <2>5. SavedExtendsPublished'
    BY <1>3, <2>1 DEF SavedExtendsPublished
  <2>6. NoneFromTheFuture'
    BY <1>3 DEF NoneFromTheFuture
  <2>7. (Regular /\ Recent /\ NothingMissed)'
    BY <1>3, <2>2, RunKeeps DEF Regular, Recent, NothingMissed, PostsIn
  <2>8. QED
    BY <2>3, <2>4, <2>5, <2>6, <2>7
<1>4. CASE Collect
  BY <1>3, <1>4 DEF Collect, MayCollect
<1>5. CASE CollectKilled
  BY <1>3, <1>5 DEF CollectKilled, MayCollect
<1>6. CASE Resume
  <2>1. /\ snapshot' \in saved
        /\ saved' = {}
        /\ UNCHANGED <<day, visible, regular, last, covered>>
    BY <1>6 DEF Resume, history
  <2>2. Newest' \subseteq Newest
    BY <2>1 DEF Newest
  <2>3. TypeOK'
    BY <2>1 DEF TypeOK, Snapshots, Dates
  <2>4. (Consistent /\ SavedExtendsPublished /\ NoneFromTheFuture)'
    BY <2>1 DEF Consistent, SavedExtendsPublished, NoneFromTheFuture, PostsIn
  <2>5. (Regular /\ Recent /\ NothingMissed)'
    BY <2>1, <2>2 DEF Regular, Recent, NothingMissed, PostsIn
  <2>6. QED
    BY <2>3, <2>4, <2>5
<1>7. CASE UNCHANGED vars
  <2>1. UNCHANGED <<day, visible, snapshot, saved, regular, last, covered>>
    BY <1>7 DEF vars, history
  <2>2. QED
    BY <2>1 DEF TypeOK, Consistent, SavedExtendsPublished, NoneFromTheFuture,
       Regular, Recent, NothingMissed, Newest, PostsIn, Extends, Snapshots, Dates
<1>8. QED
  BY <1>1, <1>2, <1>4, <1>5, <1>6, <1>7 DEF Next

\* Every reachable state satisfies the inductive invariant.
THEOREM Invariance == Spec => []IInv
<1>1. QED
  BY InitHolds, StepKeeps, PTL DEF Spec

\* Dates, snapshots and histories keep their types: no watermark is ever later
\* than today, whatever windows are asked for.
THEOREM TypeCorrect == Spec => []TypeOK
<1>1. IInv => TypeOK
  BY DEF IInv
<1>2. QED
  BY <1>1, Invariance, PTL

\* Whenever MaxGap + MaxLatency <= OverlapDays, an account that is collected
\* every MaxGap days loses no post that appears within MaxLatency days.
THEOREM OverlapSuffices == Spec => []NothingMissed
<1>1. IInv => NothingMissed
  BY DEF IInv
<1>2. QED
  BY <1>1, Invariance, PTL

\* A failed request leaves no trace, so its account is still new afterwards.
THEOREM FailedStayNew == Spec => []WatermarksAreHonest
<1>1. IInv => WatermarksAreHonest
  BY DEF IInv, Consistent, WatermarksAreHonest, TypeOK, Snapshots, Dates, Never
<1>2. QED
  BY <1>1, Invariance, PTL

\* No run, collecting or resuming, takes back a post, a date or a watermark.
THEOREM PublishedStays == Spec => NothingForgotten
<1> DEFINE Kept ==
        /\ \A p \in PostsIn(snapshot) : snapshot'.firstSeen[p] = snapshot.firstSeen[p]
        /\ \A a \in Accounts : snapshot.watermark[a] <= snapshot'.watermark[a]
<1>1. IInv /\ [Next]_vars => [Kept]_vars
  <2> SUFFICES ASSUME IInv, Next PROVE Kept
    BY DEF vars
  <2>1. Extends(snapshot', snapshot) => Kept
    BY DEF Extends, PostsIn
  <2>2. CASE snapshot' = snapshot
    <3>1. Extends(snapshot, snapshot)
      BY DEF IInv, TypeOK, Snapshots, Dates, Never, Extends
    <3>2. QED
      BY <2>1, <2>2, <3>1
  <2>3. CASE Collect
    BY <2>1, <2>3, MergeKeeps
    DEF Collect, IInv, TypeOK, Consistent, Honest, PostsIn
  <2>4. CASE Resume
    BY <2>1, <2>4 DEF Resume, IInv, SavedExtendsPublished
  <2>5. QED
    BY <2>2, <2>3, <2>4 DEF Next, NextDay, Appear, CollectKilled
<1>2. QED
  BY <1>1, Invariance, PTL DEF Spec, NothingForgotten
=============================================================================
