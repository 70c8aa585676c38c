----------------------- MODULE DistPublicationProofs -----------------------
(***************************************************************************)
(* Theorems of DistPublication for any number of runs, posts and commits,  *)
(* and of XEnrichment, whose candidates are published in the same way.     *)
(*                                                                         *)
(* Every commit extends the snapshot its lease names (CommitsExtend), and  *)
(* no commit that landed has a lease on the present tip (TipIsFree): a     *)
(* push that lands is the first to replace that tip.                       *)
(*                                                                         *)
(* Of the enrichment: every answer is a post or none, every entry fits the *)
(* post it belongs to (GoodEntry), and the candidate of a backfill extends *)
(* the snapshot it was made from (BackfillFits, Extends).                  *)
(***************************************************************************)
EXTENDS DistPublication, XEnrichment, TLAPS

USE DistAssumption DEF Absent, Commits

\* Every commit was made for a snapshot that was public, and extends it.
CommitsExtend ==
    /\ tree[Absent] = {}
    /\ \A c \in 1 .. made : /\ lease[c] \in landed \cup {Absent}
                            /\ lease[c] < c
                            /\ tree[lease[c]] \subseteq tree[c]

TipIsFree == \A c \in landed : lease[c] # dist

TipIsNewest == \A c \in landed : tree[c] \subseteq tree[dist]

\* What a run relies on at each of its steps.
RunExtends(p) ==
    /\ expected[p] \in landed \cup {Absent}
    /\ pc[p] \notin {"idle", "collect"} => tree[expected[p]] \subseteq candidate[p]
    /\ pc[p] = "unchanged?" => candidate[p] = tree[expected[p]]
    /\ pc[p] = "pushing" => commit[p] \in 1 .. made /\ tree[commit[p]] = candidate[p]

Reports(p) == pc[p] \in {"published", "unchanged"} => candidate[p] \subseteq tree[dist]

RunsExtend == \A p \in Publishers : RunExtends(p)

IInv ==
    /\ TypeOK
    /\ CommitsExtend
    /\ TipIsFree
    /\ TipIsNewest
    /\ RunsExtend
    /\ LeaseUsedOnce
    /\ ReportedIsPublic

LEMMA InitHolds == Init => IInv
  BY DEF Init, IInv, TypeOK, CommitsExtend, TipIsFree, TipIsNewest, RunsExtend,
     RunExtends, LeaseUsedOnce, ReportedIsPublic

\* Steps of a run that send nothing leave commits and branch alone.
LEMMA LocalStep ==
    ASSUME IInv, UNCHANGED <<dist, landed, made, tree, lease>>,
           inflight' \subseteq inflight
    PROVE  (CommitsExtend /\ TipIsFree /\ TipIsNewest /\ LeaseUsedOnce)'
  BY DEF IInv, TypeOK, CommitsExtend, TipIsFree, TipIsNewest, LeaseUsedOnce

LEMMA RunStep ==
    ASSUME IInv, NEW p \in Publishers, PublisherStep(p), ~Push(p)
    PROVE  IInv'
<1> USE DEF IInv, Go, Advertised, remoteVars, commitVars, Steps, Results
<1>1. /\ UNCHANGED <<dist, landed, made, tree, lease>>
      /\ inflight' \subseteq inflight
  BY DEF PublisherStep, Observe, Collect, CollectFails, Repeat, Precheck, FetchBaseline,
     Compare, VerifyUnchanged, VerifyLease, GitFails, PushReturns, PushBreaks
<1>2. TypeOK'
  <2>1. /\ landed' \in SUBSET (1 .. made')
        /\ inflight' \in SUBSET ((1 .. made') \ landed')
        /\ dist' \in landed' \cup {Absent}
        /\ dist \in 0 .. MaxCommits
        /\ Absent \in 0 .. MaxCommits
    BY <1>1 DEF TypeOK
  <2>2. PICK step \in Steps \cup Results \cup {"idle", "collect", "pushing"} :
            pc' = [pc EXCEPT ![p] = step]
    BY DEF PublisherStep, Observe, Collect, CollectFails, Repeat, Precheck,
       FetchBaseline, Compare, VerifyUnchanged, VerifyLease, GitFails, PushReturns,
       PushBreaks
  <2>3. expected' \in [Publishers -> 0 .. MaxCommits]
    <3>1. \/ expected' = expected
          \/ expected' = [expected EXCEPT ![p] = dist]
          \/ expected' = [expected EXCEPT ![p] = Absent]
      BY DEF PublisherStep, Observe, Collect, CollectFails, Repeat, Precheck,
         FetchBaseline, Compare, VerifyUnchanged, VerifyLease, GitFails, PushReturns,
         PushBreaks
    <3>2. QED
      BY <2>1, <3>1 DEF TypeOK
  <2>4. commit' \in [Publishers -> 0 .. MaxCommits]
    <3>1. \/ commit' = commit
          \/ commit' = [commit EXCEPT ![p] = Absent]
      BY DEF PublisherStep, Observe, Collect, CollectFails, Repeat, Precheck,
         FetchBaseline, Compare, VerifyUnchanged, VerifyLease, GitFails, PushReturns,
         PushBreaks
    <3>2. QED
      BY <2>1, <3>1 DEF TypeOK
  <2>5. candidate' \in [Publishers -> SUBSET Posts]
    <3>1. tree[expected[p]] \subseteq Posts
      BY DEF TypeOK
    <3>2. QED
      BY <3>1 DEF TypeOK, PublisherStep, Observe, Collect, CollectFails, Repeat, Precheck,
         FetchBaseline, Compare, VerifyUnchanged, VerifyLease, GitFails, PushReturns,
         PushBreaks
  <2>6. QED
    BY <1>1, <2>1, <2>2, <2>3, <2>4, <2>5 DEF TypeOK
<1>3. ASSUME NEW q \in Publishers \ {p}
      PROVE  RunExtends(q)' /\ Reports(q)'
  <2>1. /\ pc'[q] = pc[q]
        /\ expected'[q] = expected[q]
        /\ candidate'[q] = candidate[q]
        /\ commit'[q] = commit[q]
    BY DEF TypeOK, PublisherStep, Observe, Collect, CollectFails, Repeat, Precheck,
       FetchBaseline, Compare, VerifyUnchanged, VerifyLease, GitFails, PushReturns,
       PushBreaks
  <2>2. RunExtends(q) /\ Reports(q)
    BY DEF RunsExtend, ReportedIsPublic, Reports
  <2>3. QED
    BY <1>1, <2>1, <2>2 DEF RunExtends, Reports
<1>4. RunExtends(p)' /\ Reports(p)'
  <2>1. RunExtends(p) /\ dist \in landed \cup {Absent}
    BY DEF RunsExtend, TypeOK
  <2>2. \A c \in landed : tree[c] \subseteq tree[dist]
    BY DEF TipIsNewest
  <2> USE <1>1, <2>1 DEF RunExtends, Reports, TypeOK
  <2>3. CASE Observe(p)
    BY <2>3 DEF Observe
  <2>4. CASE Collect(p)
    BY <2>4 DEF Collect
  <2>5. CASE CollectFails(p)
    BY <2>5 DEF CollectFails
  <2>6. CASE Repeat(p) \/ GitFails(p)
    BY <2>6 DEF Repeat, GitFails
  <2>7. CASE Precheck(p) \/ FetchBaseline(p)
    BY <2>7 DEF Precheck, FetchBaseline
  <2>8. CASE Compare(p)
    BY <2>8 DEF Compare
  <2>9. CASE VerifyUnchanged(p) \/ VerifyLease(p)
    BY <2>9 DEF VerifyUnchanged, VerifyLease
  <2>10. CASE PushReturns(p)
    BY <2>2, <2>10 DEF PushReturns
  <2>11. CASE PushBreaks(p)
    BY <2>11 DEF PushBreaks
  <2>12. QED
    BY <2>3, <2>4, <2>5, <2>6, <2>7, <2>8, <2>9, <2>10, <2>11 DEF PublisherStep
<1>5. RunsExtend' /\ ReportedIsPublic'
  BY <1>3, <1>4 DEF RunsExtend, ReportedIsPublic, Reports
<1>6. QED
  BY <1>1, <1>2, <1>5, LocalStep

LEMMA PushStep ==
    ASSUME IInv, NEW p \in Publishers, Push(p)
    PROVE  IInv'
<1> USE DEF IInv
<1> DEFINE c == made + 1
<1>1. /\ pc[p] = "push"
      /\ c \in Commits
      /\ made' = c
      /\ tree' = [tree EXCEPT ![c] = candidate[p]]
      /\ lease' = [lease EXCEPT ![c] = expected[p]]
      /\ inflight' = inflight \cup {c}
      /\ commit' = [commit EXCEPT ![p] = c]
      /\ pc' = [pc EXCEPT ![p] = "pushing"]
      /\ UNCHANGED <<dist, landed, expected, candidate>>
  BY DEF Push, Go, TypeOK
<1>2. /\ landed \subseteq 1 .. made
      /\ dist \in landed \cup {Absent}
      /\ expected[p] \in landed \cup {Absent}
      /\ \A d \in 0 .. made : tree'[d] = tree[d]
      /\ \A d \in 1 .. made : lease'[d] = lease[d]
      /\ tree'[c] = candidate[p]
      /\ lease'[c] = expected[p]
  BY <1>1 DEF TypeOK, RunsExtend, RunExtends
<1>3. TypeOK'
  <2>1. /\ landed' \in SUBSET (1 .. made')
        /\ inflight' \in SUBSET ((1 .. made') \ landed')
        /\ made' \in 0 .. MaxCommits
    BY <1>1, <1>2 DEF TypeOK
  <2>2. /\ tree' \in [0 .. MaxCommits -> SUBSET Posts]
        /\ lease' \in [Commits -> 0 .. MaxCommits]
    BY <1>1 DEF TypeOK
  <2>3. /\ pc' \in [Publishers -> Steps \cup Results \cup {"idle", "collect", "pushing"}]
        /\ commit' \in [Publishers -> 0 .. MaxCommits]
    BY <1>1 DEF TypeOK
  <2>4. QED
    BY <1>1, <2>1, <2>2, <2>3 DEF TypeOK
<1>4. CommitsExtend'
  <2>1. ASSUME NEW d \in 1 .. made
        PROVE  /\ lease'[d] \in landed \cup {Absent}
               /\ lease'[d] < d
               /\ tree'[lease'[d]] \subseteq tree'[d]
    <3>1. /\ lease[d] \in landed \cup {Absent}
          /\ lease[d] < d
          /\ tree[lease[d]] \subseteq tree[d]
      BY DEF CommitsExtend
    <3>2. made \in Nat /\ \A e \in landed : e \in 1 .. made
      BY DEF TypeOK
    <3>3. d \in 0 .. made /\ lease[d] \in 0 .. made
      BY <3>1, <3>2
    <3>4. /\ lease'[d] = lease[d]
          /\ tree'[d] = tree[d]
          /\ tree'[lease[d]] = tree[lease[d]]
      BY <1>2, <3>3
    <3>5. QED
      BY <3>1, <3>4
  <2>2. /\ lease'[c] \in landed \cup {Absent}
        /\ lease'[c] < c
        /\ tree'[lease'[c]] \subseteq tree'[c]
    <3>1. expected[p] \in 0 .. made /\ made \in Nat
      BY <1>2 DEF TypeOK
    <3>2. tree[expected[p]] \subseteq candidate[p]
      BY <1>1 DEF RunsExtend, RunExtends
    <3>3. QED
      BY <1>2, <3>1, <3>2
  <2>3. tree'[Absent] = {}
    BY <1>2 DEF TypeOK, CommitsExtend
  <2>4. 1 .. made' = (1 .. made) \cup {c}
    BY <1>1 DEF TypeOK
  <2>5. QED
    BY <1>1, <2>1, <2>2, <2>3, <2>4 DEF CommitsExtend
<1>5. (TipIsFree /\ TipIsNewest /\ LeaseUsedOnce)'
  BY <1>1, <1>2 DEF TypeOK, TipIsFree, TipIsNewest, LeaseUsedOnce
<1>6. RunsExtend'
  BY <1>1, <1>2 DEF TypeOK, RunsExtend, RunExtends
<1>7. ReportedIsPublic'
  BY <1>1, <1>2 DEF TypeOK, ReportedIsPublic
<1>8. QED
  BY <1>3, <1>4, <1>5, <1>6, <1>7

LEMMA RemoteStep ==
    ASSUME IInv, NEW c \in inflight, RemoteDecides(c)
    PROVE  IInv'
<1> USE DEF IInv
<1>1. /\ inflight' = inflight \ {c}
      /\ UNCHANGED <<made, tree, lease, pc, expected, candidate, commit>>
      /\ c \in 1 .. made /\ c \notin landed
  BY DEF RemoteDecides, commitVars, runVars, TypeOK
<1>2. CASE dist # lease[c]
  <2>1. UNCHANGED <<dist, landed>>
    BY <1>2 DEF RemoteDecides
  <2>2. QED
    BY <1>1, <2>1, LocalStep DEF TypeOK, RunsExtend, RunExtends, ReportedIsPublic
<1>3. CASE dist = lease[c]
  <2>1. dist' = c /\ landed' = landed \cup {c}
    BY <1>3 DEF RemoteDecides
  <2>2. tree[dist] \subseteq tree[c] /\ lease[c] < c
    BY <1>1, <1>3 DEF CommitsExtend
  <2>3. (TypeOK /\ CommitsExtend /\ RunsExtend)'
    BY <1>1, <2>1 DEF TypeOK, CommitsExtend, RunsExtend, RunExtends
  <2>4. TipIsFree'
    BY <1>1, <2>1, <2>2 DEF TypeOK, TipIsFree, CommitsExtend
  <2>5. (TipIsNewest /\ ReportedIsPublic)'
    BY <1>1, <2>1, <2>2 DEF TipIsNewest, ReportedIsPublic
  <2>6. LeaseUsedOnce'
    BY <1>1, <1>3, <2>1 DEF LeaseUsedOnce, TipIsFree
  <2>7. QED
    BY <2>3, <2>4, <2>5, <2>6
<1>4. QED
  BY <1>2, <1>3

LEMMA StepKeeps == IInv /\ [Next]_vars => IInv'
<1> SUFFICES ASSUME IInv, [Next]_vars PROVE IInv'
  OBVIOUS
<1>1. CASE UNCHANGED vars
  <2>1. UNCHANGED <<dist, inflight, landed, made, tree, lease, pc, expected, candidate,
                    commit>>
    BY <1>1 DEF vars, remoteVars, commitVars, runVars
  <2>2. QED
    BY <2>1 DEF IInv, TypeOK, CommitsExtend, TipIsFree, TipIsNewest, RunsExtend, RunExtends,
       LeaseUsedOnce, ReportedIsPublic
<1>2. QED
  BY <1>1, RunStep, PushStep, RemoteStep DEF Next

\* Every reachable state satisfies the inductive invariant.
THEOREM Invariance == Spec => []IInv
  BY InitHolds, StepKeeps, PTL DEF Spec

\* Every variable keeps its type: only commits that were made are pushed or land,
\* and none is both undecided and landed.
THEOREM TypeCorrect == Spec => []TypeOK
<1>1. IInv => TypeOK
  BY DEF IInv
<1>2. QED
  BY <1>1, Invariance, PTL

\* No snapshot is replaced twice.
THEOREM OneReplacement == Spec => []LeaseUsedOnce
<1>1. IInv => LeaseUsedOnce
  BY DEF IInv
<1>2. QED
  BY <1>1, Invariance, PTL

\* What publish-dist reports with exit 0 is on dist, and stays there.
THEOREM ReportsAreTrue == Spec => []ReportedIsPublic
<1>1. IInv => ReportedIsPublic
  BY DEF IInv
<1>2. QED
  BY <1>1, Invariance, PTL

\* No push takes a post away from dist, whatever else is under way.
THEOREM NothingForgotten == Spec => DistNeverForgets
<1> DEFINE Kept == /\ dist # Absent => dist' # Absent
                   /\ tree[dist] \subseteq tree'[dist']
<1>1. IInv /\ [Next]_vars => [Kept]_vars
  <2> SUFFICES ASSUME IInv, Next PROVE Kept
    BY DEF vars
  <2>1. ASSUME NEW p \in Publishers, PublisherStep(p), ~Push(p)
        PROVE  Kept
    BY <2>1 DEF PublisherStep, Observe, Collect, CollectFails, Repeat, Precheck,
       FetchBaseline, Compare, VerifyUnchanged, VerifyLease, GitFails, PushReturns,
       PushBreaks, remoteVars, commitVars
  <2>2. ASSUME NEW p \in Publishers, Push(p)
        PROVE  Kept
    BY <2>2 DEF Push, IInv, TypeOK
  <2>3. ASSUME NEW c \in inflight, RemoteDecides(c)
        PROVE  Kept
    BY <2>3 DEF RemoteDecides, commitVars, IInv, TypeOK, CommitsExtend
  <2>4. QED
    BY <2>1, <2>2, <2>3 DEF Next
<1>2. QED
  BY <1>1, Invariance, PTL DEF Spec, DistNeverForgets

---------------------------------------------------------------------------
(* The enrichment *)
\* What a post may have as its quoted post: an answer, or what the provider gave.
Quotes ==
    {NoTweet} \cup (UNION {Answers[RequestedId(s)] : s \in Statuses})
              \cup (UNION {Given[s] : s \in Statuses})

\* The post a reply or a repost refers to, if any.
Right(s, tweet) ==
    tweet # NoTweet =>
        /\ s.type = "reply" \/ s.handle # Nobody
        /\ tweet.id = Referred(s)

\* The provider gave no reference of its own, and what the endpoint answers for
\* reposts can be relied on: every one is checked.
Checked(s) == RepostsAreKnown /\ Given[s] = {NoTweet}

Entries == [quoted : Quotes, shows : Quotes, owned : BOOLEAN]

\* An entry of a post, published or to be.
GoodEntry(s, entry) ==
    /\ entry \in Entries
    /\ entry.shows # NoTweet => entry.quoted # NoTweet
    /\ entry.owned => entry.shows # NoTweet
    /\ Checked(s) => Right(s, entry.quoted) /\ Right(s, entry.shows)

\* The posts of a snapshot, or of a candidate.
Good(entries) ==
    /\ entries = [s \in DOMAIN entries |-> entries[s]]
    /\ DOMAIN entries \subseteq Statuses
    /\ \A s \in DOMAIN entries : GoodEntry(s, entries[s])

\* The posts of a job, before they are enriched.
GoodContent(posts) ==
    /\ posts = [s \in DOMAIN posts |-> posts[s]]
    /\ DOMAIN posts \subseteq Statuses
    /\ \A s \in DOMAIN posts : posts[s] \in Quotes /\ (Checked(s) => Right(s, posts[s]))

\* What a job may still do to a published entry.
Keeps(old, new) ==
    /\ HasSlot(old) => new.quoted # NoTweet
    /\ old.shows # NoTweet => new.shows # NoTweet
    /\ old.owned => new.owned /\ new.shows = old.shows

\* A backfill moreover fills only gaps.
Extends(old, new) == Keeps(old, new) /\ (old.quoted # NoTweet => new.quoted = old.quoted)

\* Nothing the job asked for is lost, and every answer is one for its id, or none.
Answered ==
    /\ job # "none" => RequestedIds(content) \subseteq waiting \cup fetching \cup DOMAIN results
    /\ \A id \in DOMAIN results : results[id] \in Answers[id] \cup {NoTweet}

\* A backfill works on the snapshot it will replace.
BackfillFits ==
    /\ job = "backfill" => content = [s \in DOMAIN snapshot |-> snapshot[s].quoted]
    /\ \A entries \in backfilled :
          /\ Good(entries)
          /\ DOMAIN entries = DOMAIN snapshot
          /\ \A s \in DOMAIN snapshot : Extends(snapshot[s], entries[s])

EInv == Good(snapshot) /\ GoodContent(content) /\ Answered /\ BackfillFits

LEMMA EnrichmentInitHolds == EnrichmentInit => EInv
  BY DEF EnrichmentInit, EInv, Good, GoodContent, Answered, BackfillFits, NoPosts

\* A matching answer is right; any other leaves the post as it was.
LEMMA EnrichedIsRight ==
    ASSUME GoodContent(content), Answered, job # "none", AllFetched
    PROVE  /\ GoodContent(Enriched(content))
           /\ DOMAIN Enriched(content) = DOMAIN content
           /\ \A s \in DOMAIN content :
                 content[s] # NoTweet => Enriched(content)[s] = content[s]
<1> DEFINE E == Enriched(content)
<1>1. E = [s \in DOMAIN content |-> E[s]] /\ DOMAIN E = DOMAIN content
  BY DEF Enriched
<1>2. ASSUME NEW s \in DOMAIN content
      PROVE  /\ E[s] \in Quotes
             /\ Checked(s) => Right(s, E[s])
             /\ content[s] # NoTweet => E[s] = content[s]
  <2> DEFINE id == RequestedId(s)
             C == /\ Eligible(s, content[s])
                  /\ id # NoId
                  /\ results[id] # NoTweet
                  /\ Matches(s, results[id])
  <2>1. E[s] = IF C THEN results[id] ELSE content[s]
    BY DEF Enriched
  <2>2. CASE ~C
    <3>1. E[s] = content[s]
      BY <2>1, <2>2
    <3>2. QED
      BY <3>1 DEF GoodContent
  <2>3. CASE C
    <3>1. E[s] = results[id]
      BY <2>1, <2>3
    <3>2. id \in RequestedIds(content)
      BY <2>3 DEF RequestedIds
    <3>3. id \in DOMAIN results
      BY <3>2 DEF Answered, AllFetched
    <3>4. s \in Statuses /\ E[s] \in Answers[id]
      BY <2>3, <3>1, <3>3 DEF Answered, GoodContent
    <3>5. Checked(s) => Right(s, E[s])
      <4>1. CASE s.type = "reply"
        BY <2>3, <3>1, <4>1 DEF Right, Matches, Referred
      <4>2. CASE s.type # "reply"
        <5>1. s.type = "post" /\ s.handle # Nobody
          BY <2>3, <4>2 DEF Eligible
        <5>2. id = s.id /\ E[s].user = s.handle
          BY <2>3, <3>1, <4>2 DEF Matches, RequestedId
        <5>3. QED
          BY <3>4, <4>2, <5>1, <5>2 DEF Checked, RepostsAreKnown, Right, Referred
      <4>3. QED
        BY <4>1, <4>2
    <3>6. content[s] = NoTweet
      BY <2>3 DEF Eligible
    <3>7. QED
      BY <3>4, <3>5, <3>6 DEF Quotes
  <2>4. QED
    BY <2>2, <2>3
<1>3. QED
  BY <1>1, <1>2 DEF GoodContent

LEMMA MediaIsOfIt ==
    ASSUME NEW tweet
    PROVE  MediaOf(tweet) \in {tweet, NoTweet}
  BY DEF MediaOf

\* A new entry of a right post is good.
LEMMA FreshEntry ==
    ASSUME NEW s, NEW q \in Quotes, Checked(s) => Right(s, q)
    PROVE  GoodEntry(s, Entry(q, MediaOf(q), FALSE))
<1>1. MediaOf(q) \in Quotes
  BY MediaIsOfIt DEF Quotes
<1>2. Right(s, NoTweet)
  BY DEF Right
<1>3. QED
  BY <1>1, <1>2, MediaIsOfIt DEF GoodEntry, Entry, Entries

LEMMA ReconciledEntry ==
    ASSUME NEW s, NEW old, GoodEntry(s, old), NEW q \in Quotes, Checked(s) => Right(s, q)
    PROVE  GoodEntry(s, Reconciled(old, q)) /\ Keeps(old, Reconciled(old, q))
<1> DEFINE new == Reconciled(old, q)
           shown == IF old.owned \/ MediaOf(q) = NoTweet THEN old.shows ELSE MediaOf(q)
<1>1. CASE q = NoTweet /\ HasSlot(old)
  <2>1. new = old
    BY <1>1 DEF Reconciled
  <2>2. QED
    BY <1>1, <2>1 DEF Keeps, HasSlot
<1>2. CASE ~(q = NoTweet /\ HasSlot(old))
  <2>1. new = Entry(q, shown, old.owned)
    BY <1>2 DEF Reconciled
  <2>2. new = [quoted |-> q, shows |-> shown, owned |-> old.owned]
    BY <2>1 DEF Entry
  <2>3. new.quoted = q /\ new.shows = shown /\ new.owned = old.owned
    BY <2>2
  <2>4. MediaOf(q) \in Quotes /\ old.shows \in Quotes /\ old.owned \in BOOLEAN
    BY MediaIsOfIt DEF Quotes, GoodEntry, Entries
  <2>5. new \in Entries
    BY <2>2, <2>4 DEF Entries
  <2>6. q = NoTweet => old.shows = NoTweet
    BY <1>2 DEF HasSlot, GoodEntry
  <2>7. MediaOf(NoTweet) = NoTweet
    BY DEF MediaOf
  <2>8. shown # NoTweet => q # NoTweet
    BY <2>6, <2>7
  <2>9. old.shows # NoTweet => shown # NoTweet
    OBVIOUS
  <2>10. old.owned => old.shows # NoTweet /\ shown = old.shows
    BY DEF GoodEntry
  <2>11. Checked(s) => Right(s, q) /\ Right(s, shown)
    BY MediaIsOfIt DEF GoodEntry, Right
  <2>12. HasSlot(old) => q # NoTweet
    BY <1>2
  <2>13. QED
    BY <2>3, <2>5, <2>8, <2>9, <2>10, <2>11, <2>12 DEF GoodEntry, Keeps
<1>3. QED
  BY <1>1, <1>2

\* Archiving gives owned media to slots that show some, and changes nothing else.
LEMMA ArchivedIsGood ==
    ASSUME NEW entries, Good(entries), NEW done \in Archivings(entries)
    PROVE  /\ Good(done)
           /\ DOMAIN done = DOMAIN entries
           /\ \A s \in DOMAIN entries :
                 /\ done[s].quoted = entries[s].quoted
                 /\ done[s].shows = entries[s].shows
                 /\ entries[s].owned => done[s].owned
<1>1. PICK slots \in SUBSET {s \in DOMAIN entries : entries[s].shows # NoTweet} :
          done = [s \in DOMAIN entries |->
                     [entries[s] EXCEPT !.owned = @ \/ s \in slots]]
  BY DEF Archivings
<1>2. ASSUME NEW s \in DOMAIN entries
      PROVE  /\ done[s].quoted = entries[s].quoted
             /\ done[s].shows = entries[s].shows
             /\ done[s].owned <=> entries[s].owned \/ s \in slots
             /\ done[s] \in Entries
  <2>1. done[s] = [entries[s] EXCEPT !.owned = entries[s].owned \/ s \in slots]
    BY <1>1
  <2>2. entries[s] \in Entries
    BY DEF Good, GoodEntry
  <2>3. QED
    BY <2>1, <2>2 DEF Entries
<1>3. DOMAIN done = DOMAIN entries /\ done = [s \in DOMAIN done |-> done[s]]
  BY <1>1
<1>4. ASSUME NEW s \in DOMAIN done PROVE GoodEntry(s, done[s])
  <2>1. GoodEntry(s, entries[s])
    BY <1>3 DEF Good
  <2>2. s \in slots => entries[s].shows # NoTweet
    BY <1>1
  <2>3. QED
    BY <1>2, <1>3, <2>1, <2>2 DEF GoodEntry
<1>5. QED
  BY <1>2, <1>3, <1>4 DEF Good

\* What a refresh publishes keeps what was published.
LEMMA MergedIsGood ==
    ASSUME EInv, NEW posts, GoodContent(posts)
    PROVE  /\ Good(Merged(posts))
           /\ DOMAIN snapshot \subseteq DOMAIN Merged(posts)
           /\ \A s \in DOMAIN snapshot : Keeps(snapshot[s], Merged(posts)[s])
<1> DEFINE M == Merged(posts)
<1>1. DOMAIN M = DOMAIN snapshot \cup DOMAIN posts /\ M = [s \in DOMAIN M |-> M[s]]
  BY DEF Merged
<1>2. ASSUME NEW s \in DOMAIN M
      PROVE  GoodEntry(s, M[s]) /\ (s \in DOMAIN snapshot => Keeps(snapshot[s], M[s]))
  <2>1. s \in DOMAIN snapshot => GoodEntry(s, snapshot[s])
    BY DEF EInv, Good
  <2>2. s \in DOMAIN posts => posts[s] \in Quotes /\ (Checked(s) => Right(s, posts[s]))
    BY DEF GoodContent
  <2>3. CASE s \notin DOMAIN posts
    <3>1. M[s] = snapshot[s] /\ s \in DOMAIN snapshot
      BY <1>1, <2>3 DEF Merged
    <3>2. QED
      BY <2>1, <3>1 DEF Keeps, HasSlot
  <2>4. CASE s \in DOMAIN posts /\ s \notin DOMAIN snapshot
    <3>1. M[s] = Entry(posts[s], MediaOf(posts[s]), FALSE)
      BY <1>1, <2>4 DEF Merged
    <3>2. QED
      BY <2>2, <2>4, <3>1, FreshEntry
  <2>5. CASE s \in DOMAIN posts /\ s \in DOMAIN snapshot
    <3>1. M[s] = Reconciled(snapshot[s], posts[s])
      BY <1>1, <2>5 DEF Merged
    <3>2. QED
      BY <2>1, <2>2, <2>5, <3>1, ReconciledEntry
  <2>6. QED
    BY <2>3, <2>4, <2>5
<1>3. QED
  BY <1>1, <1>2 DEF EInv, Good, GoodContent

\* Of what is published, what was there is kept.
SnapshotKept ==
    \A s \in DOMAIN snapshot : s \in DOMAIN snapshot' /\ Keeps(snapshot[s], snapshot'[s])

LEMMA RefreshKeeps ==
    ASSUME EInv, RefreshPublishes PROVE EInv' /\ SnapshotKept
<1> DEFINE M == Merged(Enriched(content))
<1>1. GoodContent(Enriched(content))
  BY EnrichedIsRight DEF RefreshPublishes, EInv
<1>2. /\ Good(M)
      /\ DOMAIN snapshot \subseteq DOMAIN M
      /\ \A s \in DOMAIN snapshot : Keeps(snapshot[s], M[s])
  BY <1>1, MergedIsGood
<1>3. snapshot' \in Archivings(M)
  BY DEF RefreshPublishes
<1> HIDE DEF M
<1>4. /\ Good(snapshot')
      /\ DOMAIN snapshot' = DOMAIN M
      /\ \A s \in DOMAIN M : /\ snapshot'[s].quoted = M[s].quoted
                             /\ snapshot'[s].shows = M[s].shows
                             /\ M[s].owned => snapshot'[s].owned
  BY <1>2, <1>3, ArchivedIsGood
<1>5. ASSUME NEW s \in DOMAIN snapshot
      PROVE  s \in DOMAIN snapshot' /\ Keeps(snapshot[s], snapshot'[s])
  <2>1. s \in DOMAIN M /\ Keeps(snapshot[s], M[s])
    BY <1>2
  <2>2. QED
    BY <1>4, <2>1 DEF Keeps
<1>6. EInv'
  BY <1>4 DEF RefreshPublishes, JobEnds, NoPosts, EInv, Good, GoodContent, Answered,
     BackfillFits
<1>7. QED
  BY <1>5, <1>6 DEF SnapshotKept

LEMMA BackfillKeeps ==
    ASSUME EInv, BackfillWrites PROVE EInv'
<1> DEFINE E == Enriched(content)
           W == [s \in DOMAIN content |->
                    IF E[s] = content[s] THEN snapshot[s]
                    ELSE Entry(E[s], MediaOf(E[s]), FALSE)]
<1>1. /\ GoodContent(E)
      /\ DOMAIN E = DOMAIN content
      /\ \A s \in DOMAIN content : content[s] # NoTweet => E[s] = content[s]
  BY EnrichedIsRight DEF BackfillWrites, EInv
<1>2. content = [s \in DOMAIN snapshot |-> snapshot[s].quoted]
  BY DEF BackfillWrites, EInv, BackfillFits
<1>3. ASSUME NEW s \in DOMAIN snapshot
      PROVE  GoodEntry(s, W[s]) /\ Extends(snapshot[s], W[s])
  <2>1. GoodEntry(s, snapshot[s])
    BY DEF EInv, Good
  <2>2. content[s] = snapshot[s].quoted /\ s \in DOMAIN content
    BY <1>2
  <2>3. CASE E[s] = content[s]
    <3>1. W[s] = snapshot[s]
      BY <2>2, <2>3
    <3>2. QED
      BY <2>1, <3>1 DEF Extends, Keeps, HasSlot
  <2>4. CASE E[s] # content[s]
    <3>1. W[s] = Entry(E[s], MediaOf(E[s]), FALSE)
      BY <2>2, <2>4
    <3>2. GoodEntry(s, W[s])
      BY <1>1, <2>2, <3>1, FreshEntry DEF GoodContent
    <3>3. snapshot[s].quoted = NoTweet
      BY <1>1, <2>2, <2>4
    <3>4. snapshot[s].shows = NoTweet /\ ~snapshot[s].owned
      BY <2>1, <3>3 DEF GoodEntry
    <3>5. QED
      BY <3>2, <3>3, <3>4 DEF Extends, Keeps, HasSlot
  <2>5. QED
    BY <2>3, <2>4
<1>4. DOMAIN W = DOMAIN snapshot /\ W = [s \in DOMAIN W |-> W[s]]
  BY <1>2
<1>5. Good(W)
  BY <1>3, <1>4 DEF Good, EInv
<1>6. PICK entries \in Archivings(W) : backfilled' = {entries}
  BY DEF BackfillWrites
<1> HIDE DEF W
<1>7. /\ Good(entries)
      /\ DOMAIN entries = DOMAIN snapshot
      /\ \A s \in DOMAIN snapshot : /\ entries[s].quoted = W[s].quoted
                                    /\ entries[s].shows = W[s].shows
                                    /\ W[s].owned => entries[s].owned
  BY <1>4, <1>5, ArchivedIsGood
<1>8. ASSUME NEW s \in DOMAIN snapshot PROVE Extends(snapshot[s], entries[s])
  <2>1. Extends(snapshot[s], W[s])
    BY <1>3
  <2>2. QED
    BY <1>7, <2>1 DEF Extends, Keeps
<1>9. UNCHANGED snapshot /\ JobEnds
  BY DEF BackfillWrites
<1>10. QED
  BY <1>6, <1>7, <1>8, <1>9 DEF JobEnds, NoPosts, EInv, Good, GoodContent, Answered,
     BackfillFits

\* The candidate of a backfill was made from what it replaces.
LEMMA BackfillExtends ==
    ASSUME EInv, BackfillPublished
    PROVE  /\ Good(snapshot')
           /\ DOMAIN snapshot' = DOMAIN snapshot
           /\ \A s \in DOMAIN snapshot : Extends(snapshot[s], snapshot'[s])
  BY DEF BackfillPublished, EInv, BackfillFits

LEMMA EnrichmentKeeps ==
    ASSUME EInv, EnrichmentNext PROVE EInv' /\ (UNCHANGED snapshot \/ SnapshotKept)
<1>1. CASE RefreshBegins
  <2> PICK found \in (SUBSET Statuses) \ {{}} :
          \E posts \in [found -> UNION {Given[s] : s \in found}] :
              (\A s \in found : posts[s] \in Given[s]) /\ Begins("refresh", posts)
    BY <1>1 DEF RefreshBegins
  <2>1. PICK posts \in [found -> UNION {Given[s] : s \in found}] :
            (\A s \in found : posts[s] \in Given[s]) /\ Begins("refresh", posts)
    OBVIOUS
  <2>2. DOMAIN posts = found /\ posts = [s \in DOMAIN posts |-> posts[s]]
    OBVIOUS
  <2>3. ASSUME NEW s \in found
        PROVE  posts[s] \in Quotes /\ (Checked(s) => Right(s, posts[s]))
    BY <2>1 DEF Quotes, Checked, Right
  <2>4. GoodContent(posts)
    BY <2>2, <2>3 DEF GoodContent
  <2>5. /\ content' = posts /\ waiting' = RequestedIds(posts) /\ job' = "refresh"
        /\ UNCHANGED <<snapshot, fetching, results, backfilled>>
    BY <2>1 DEF Begins
  <2>6. RequestedIds(posts) = RequestedIds(content)'
    BY <2>5 DEF RequestedIds, Eligible, RequestedId
  <2>7. EInv'
    BY <2>4, <2>5, <2>6 DEF EInv, Good, GoodContent, Answered, BackfillFits, Extends,
       Keeps, HasSlot
  <2>8. QED
    BY <2>5, <2>7
<1>2. CASE BackfillBegins
  <2> DEFINE posts == [s \in DOMAIN snapshot |-> snapshot[s].quoted]
  <2>1. /\ content' = posts /\ waiting' = RequestedIds(posts) /\ job' = "backfill"
        /\ UNCHANGED <<snapshot, fetching, results, backfilled>>
    BY <1>2 DEF BackfillBegins, Begins
  <2>2. GoodContent(posts)
    BY DEF EInv, Good, GoodEntry, Entries, GoodContent
  <2>3. RequestedIds(posts) = RequestedIds(content)'
    BY <2>1 DEF RequestedIds, Eligible, RequestedId
  <2>4. EInv'
    BY <2>1, <2>2, <2>3 DEF EInv, Good, GoodContent, Answered, BackfillFits, Extends,
       Keeps, HasSlot
  <2>5. QED
    BY <2>1, <2>4
<1>3. ASSUME NEW id \in waiting, Fetch(id) PROVE EInv' /\ UNCHANGED <<snapshot, job>>
  BY <1>3 DEF Fetch, EInv, Good, GoodContent, Answered, RequestedIds, BackfillFits
<1>4. ASSUME NEW id \in fetching, Fetched(id) PROVE EInv' /\ UNCHANGED <<snapshot, job>>
  <2>1. PICK answer \in Answers[id] \cup {NoTweet} :
            results' = [i \in DOMAIN results \cup {id} |->
                           IF i = id THEN answer ELSE results[i]]
    BY <1>4 DEF Fetched
  <2>2. DOMAIN results' = DOMAIN results \cup {id}
    BY <2>1
  <2>3. \A i \in DOMAIN results' : results'[i] \in Answers[i] \cup {NoTweet}
    BY <2>1, <2>2 DEF EInv, Answered
  <2>4. UNCHANGED <<snapshot, job, content, waiting, backfilled>>
        /\ fetching' = fetching \ {id}
    BY <1>4 DEF Fetched
  <2>5. Answered'
    BY <2>2, <2>3, <2>4 DEF EInv, Answered, RequestedIds
  <2>6. QED
    BY <2>4, <2>5 DEF EInv, Good, GoodContent, BackfillFits
<1>5. CASE FetchRaisesInRefresh
  <2>1. UNCHANGED <<snapshot, job, content, backfilled>>
        /\ results' = [id \in RequestedIds(content) |-> NoTweet]
    BY <1>5 DEF FetchRaisesInRefresh
  <2>2. RequestedIds(content)' = RequestedIds(content)
    BY <2>1 DEF RequestedIds
  <2>3. Answered'
    BY <2>1, <2>2 DEF Answered
  <2>4. QED
    BY <2>1, <2>3 DEF EInv, Good, GoodContent, BackfillFits
<1>6. CASE FetchRaisesInBackfill \/ JobDies
  <2>1. JobEnds /\ UNCHANGED <<snapshot, backfilled>>
    BY <1>6 DEF FetchRaisesInBackfill, JobDies
  <2>2. EInv'
    BY <2>1 DEF JobEnds, NoPosts, EInv, Good, GoodContent, Answered, BackfillFits,
       Extends, Keeps, HasSlot
  <2>3. QED
    BY <2>1, <2>2
<1>7. CASE RefreshPublishes
  BY <1>7, RefreshKeeps
<1>8. CASE BackfillWrites
  BY <1>8, BackfillKeeps DEF BackfillWrites
<1>9. CASE BackfillPublished
  <2>1. /\ Good(snapshot')
        /\ DOMAIN snapshot' = DOMAIN snapshot
        /\ \A s \in DOMAIN snapshot : Extends(snapshot[s], snapshot'[s])
    BY <1>9, BackfillExtends
  <2>2. EInv'
    BY <1>9, <2>1 DEF BackfillPublished, JobEnds, NoPosts, EInv, Good, GoodContent,
       Answered, BackfillFits
  <2>3. QED
    BY <2>1, <2>2 DEF SnapshotKept, Extends
<1>10. CASE BackfillDiscarded
  <2>1. UNCHANGED <<snapshot, job, content, fetchVars>> /\ backfilled' = {}
    BY <1>10 DEF BackfillDiscarded
  <2>2. EInv'
    BY <2>1 DEF fetchVars, EInv, Good, GoodContent, Answered, RequestedIds, BackfillFits
  <2>3. QED
    BY <2>1, <2>2
<1>11. QED
  BY <1>1, <1>2, <1>3, <1>4, <1>5, <1>6, <1>7, <1>8, <1>9, <1>10 DEF EnrichmentNext

\* The invariant through a step or a stutter.
LEMMA EnrichmentStep == EInv /\ [EnrichmentNext]_enrichmentVars => EInv'
<1>1. EInv /\ UNCHANGED enrichmentVars => EInv'
  BY DEF enrichmentVars, fetchVars, EInv, Good, GoodContent, Answered, RequestedIds,
     BackfillFits, Extends, Keeps, HasSlot
<1>2. QED
  BY <1>1, EnrichmentKeeps

\* The inductive invariant of the enrichment: what is published, enriched or
\* written as a candidate fits the posts it is about, and a backfill its snapshot.
THEOREM EnrichmentInvariance == EnrichmentSpec => []EInv
<1>1. QED
  BY EnrichmentInitHolds, EnrichmentStep, PTL DEF EnrichmentSpec

\* No wrong post is published as the one a reply or a repost refers to, nor under
\* its media, for any posts and order of answers: of replies whatever is answered,
\* of reposts if an answer by the author they name is the post they are of.
THEOREM ReferencesRight ==
    ASSUME RepostsAreKnown
    PROVE  EnrichmentSpec => []ReferencesAreRight
<1>1. EInv => ReferencesAreRight
  <2> SUFFICES ASSUME EInv,
                      NEW entries \in backfilled \cup {snapshot},
                      NEW s \in DOMAIN entries, Given[s] = {NoTweet}
               PROVE  Right(s, entries[s].quoted) /\ Right(s, entries[s].shows)
    BY DEF ReferencesAreRight, Right
  <2>1. Good(entries)
    BY DEF EInv, BackfillFits
  <2>2. QED
    BY <2>1 DEF Good, GoodEntry, Checked
<1>2. QED
  BY <1>1, EnrichmentInvariance, PTL

\* No refresh and no backfill takes a referenced post with a picture away, or
\* its media, or an archived file.
THEOREM EnrichmentsStay == EnrichmentSpec => EnrichmentsAreKept
<1> DEFINE Kept ==
        \A s \in DOMAIN snapshot :
          /\ s \in DOMAIN snapshot'
          /\ HasSlot(snapshot[s]) => snapshot'[s].quoted # NoTweet
          /\ snapshot[s].shows # NoTweet => snapshot'[s].shows # NoTweet
          /\ snapshot[s].owned => snapshot'[s].owned
                                    /\ snapshot'[s].shows = snapshot[s].shows
          /\ BackfillPublished /\ snapshot[s].quoted # NoTweet =>
                snapshot'[s].quoted = snapshot[s].quoted
<1>1. EInv /\ [EnrichmentNext]_enrichmentVars => [Kept]_enrichmentVars
  <2> SUFFICES ASSUME EInv, EnrichmentNext, NEW s \in DOMAIN snapshot
               PROVE  /\ s \in DOMAIN snapshot'
                      /\ Keeps(snapshot[s], snapshot'[s])
                      /\ BackfillPublished /\ snapshot[s].quoted # NoTweet =>
                            snapshot'[s].quoted = snapshot[s].quoted
    BY DEF Keeps
  <2>1. UNCHANGED snapshot => Keeps(snapshot[s], snapshot'[s])
    BY DEF Keeps, HasSlot
  <2>2. s \in DOMAIN snapshot' /\ Keeps(snapshot[s], snapshot'[s])
    BY <2>1, EnrichmentKeeps DEF SnapshotKept
  <2>3. BackfillPublished => Extends(snapshot[s], snapshot'[s])
    BY BackfillExtends
  <2>4. QED
    BY <2>2, <2>3 DEF Extends
<1>2. QED
  BY <1>1, EnrichmentInvariance, PTL DEF EnrichmentSpec, EnrichmentsAreKept

=============================================================================
