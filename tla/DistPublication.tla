-------------------------- MODULE DistPublication --------------------------
(***************************************************************************)
(* Publication to the one-commit branch dist (publishing/git.py,           *)
(* cli_application.py, .github/workflows/collect.yml): a run observes the  *)
(* branch once, collects on top of the snapshot it names, and replaces the *)
(* branch under a lease on exactly that commit.                            *)
(*                                                                         *)
(* Several runs may be under way.  A git command has a deadline; a push    *)
(* whose client was stopped may still be carried out by the remote, or be  *)
(* lost.  Against the documentation, an operator may also repeat a         *)
(* publication that failed, with the same candidate and the same lease.    *)
(***************************************************************************)
EXTENDS Integers, FiniteSets

CONSTANTS
    Publishers,
    Posts,
    MaxCommits      \* bound on the commits that are made

ASSUME DistAssumption == MaxCommits \in Nat

\* Commits are numbered in the order they are made; 0 is the absent branch.
Absent == 0
Commits == 1 .. MaxCommits

VARIABLES
    dist,       \* refs/heads/dist at the remote
    made,       \* number of commits made
    tree,       \* the snapshot of each commit
    lease,      \* the commit each push may replace
    inflight,   \* pushes the remote has not decided
    landed,     \* commits that were, or are, the tip of dist
    pc,         \* where each run is
    expected,   \* EXPECTED_SHA of each run
    candidate,  \* its candidate snapshot
    commit      \* the commit it pushes

remoteVars == <<dist, inflight, landed>>
commitVars == <<made, tree, lease>>
runVars == <<pc, expected, candidate, commit>>
vars == <<remoteVars, commitVars, runVars>>

\* Where a call of publish-dist can be when it runs a git command.
Steps == {"precheck", "baseline", "compare", "unchanged?", "lease?", "push"}
Results == {"published", "unchanged", "stale", "failed"}

TypeOK ==
    /\ made \in 0 .. MaxCommits
    /\ landed \in SUBSET (1 .. made)
    /\ inflight \in SUBSET ((1 .. made) \ landed)
    /\ dist \in landed \cup {Absent}
    /\ tree \in [0 .. MaxCommits -> SUBSET Posts]
    /\ lease \in [Commits -> 0 .. MaxCommits]
    /\ pc \in [Publishers -> Steps \cup Results \cup {"idle", "collect", "pushing"}]
    /\ expected \in [Publishers -> 0 .. MaxCommits]
    /\ candidate \in [Publishers -> SUBSET Posts]
    /\ commit \in [Publishers -> 0 .. MaxCommits]

-----------------------------------------------------------------------------
Init ==
    /\ dist = Absent
    /\ made = 0
    /\ tree = [c \in 0 .. MaxCommits |-> {}]
    /\ lease = [c \in Commits |-> Absent]
    /\ inflight = {}
    /\ landed = {}
    /\ pc = [p \in Publishers |-> "idle"]
    /\ expected = [p \in Publishers |-> Absent]
    /\ candidate = [p \in Publishers |-> {}]
    /\ commit = [p \in Publishers |-> Absent]

Go(p, step) == pc' = [pc EXCEPT ![p] = step]

(***************************************************************************)
(* The workflow: observe, materialize, collect                             *)
(***************************************************************************)

Observe(p) ==
    /\ pc[p] \in Results \cup {"idle"}
    /\ expected' = [expected EXCEPT ![p] = dist]
    /\ candidate' = [candidate EXCEPT ![p] = {}]
    /\ Go(p, "collect")
    /\ UNCHANGED <<commit, remoteVars, commitVars>>

\* The snapshot of the observed commit is verified and merged with what was
\* found.  (A commit that was replaced since may no longer be fetched.)
Collect(p) ==
    /\ pc[p] = "collect"
    /\ \E found \in SUBSET Posts :
          candidate' = [candidate EXCEPT ![p] = tree[expected[p]] \cup found]
    /\ Go(p, "precheck")
    /\ UNCHANGED <<expected, commit, remoteVars, commitVars>>

\* Nothing is published: no baseline, or every provider was exhausted.
CollectFails(p) ==
    /\ pc[p] = "collect"
    /\ expected' = [expected EXCEPT ![p] = Absent]
    /\ Go(p, "idle")
    /\ UNCHANGED <<candidate, commit, remoteVars, commitVars>>

\* The same publish-dist command once more.
Repeat(p) ==
    /\ pc[p] \in {"stale", "failed"}
    /\ Go(p, "precheck")
    /\ UNCHANGED <<expected, candidate, commit, remoteVars, commitVars>>

(***************************************************************************)
(* publish-dist up to the push                                             *)
(***************************************************************************)

\* ls-remote must advertise the expected commit.
Advertised(p, step) == Go(p, IF dist = expected[p] THEN step ELSE "stale")

Precheck(p) ==
    /\ pc[p] = "precheck"
    /\ Advertised(p, "baseline")
    /\ UNCHANGED <<expected, candidate, commit, remoteVars, commitVars>>

\* The expected commit is fetched twice, as the baseline and for its tree id.
FetchBaseline(p) ==
    /\ pc[p] = "baseline"
    /\ Go(p, IF expected[p] = Absent THEN "lease?" ELSE "compare")
    /\ UNCHANGED <<expected, candidate, commit, remoteVars, commitVars>>

Compare(p) ==
    /\ pc[p] = "compare"
    /\ Go(p, IF candidate[p] = tree[expected[p]] THEN "unchanged?" ELSE "lease?")
    /\ UNCHANGED <<expected, candidate, commit, remoteVars, commitVars>>

VerifyUnchanged(p) ==
    /\ pc[p] = "unchanged?"
    /\ Advertised(p, "unchanged")
    /\ UNCHANGED <<expected, candidate, commit, remoteVars, commitVars>>

VerifyLease(p) ==
    /\ pc[p] = "lease?"
    /\ Advertised(p, "push")
    /\ UNCHANGED <<expected, candidate, commit, remoteVars, commitVars>>

\* A git command fails or exceeds its deadline.
GitFails(p) ==
    /\ pc[p] \in Steps
    /\ Go(p, "failed")
    /\ UNCHANGED <<expected, candidate, commit, remoteVars, commitVars>>

-----------------------------------------------------------------------------
(***************************************************************************)
(* The push                                                                *)
(***************************************************************************)

\* Mutant: the lease is on whatever the branch is now.
PushUnpinned(p) ==
    /\ pc[p] = "push"
    /\ made < MaxCommits
    /\ LET c == made + 1 IN
          /\ made' = c
          /\ tree' = [tree EXCEPT ![c] = candidate[p]]
          /\ lease' = [lease EXCEPT ![c] = dist]
          /\ inflight' = inflight \cup {c}
          /\ commit' = [commit EXCEPT ![p] = c]
    /\ Go(p, "pushing")
    /\ UNCHANGED <<dist, landed, expected, candidate>>

\* A new root commit, pushed under a lease on the expected one.
Push(p) ==
    /\ pc[p] = "push"
    /\ made < MaxCommits
    /\ LET c == made + 1 IN
          /\ made' = c
          /\ tree' = [tree EXCEPT ![c] = candidate[p]]
          /\ lease' = [lease EXCEPT ![c] = expected[p]]
          /\ inflight' = inflight \cup {c}
          /\ commit' = [commit EXCEPT ![p] = c]
    /\ Go(p, "pushing")
    /\ UNCHANGED <<dist, landed, expected, candidate>>

\* Mutant: a plain --force.
RemoteForced(c) ==
    /\ inflight' = inflight \ {c}
    /\ dist' = c
    /\ landed' = landed \cup {c}
    /\ UNCHANGED <<commitVars, runVars>>

\* The remote compares and replaces in one step, at any time after the push was
\* sent, whether or not its client still waits.
RemoteDecides(c) ==
    /\ inflight' = inflight \ {c}
    /\ IF dist = lease[c]
       THEN dist' = c /\ landed' = landed \cup {c}
       ELSE UNCHANGED <<dist, landed>>
    /\ UNCHANGED <<commitVars, runVars>>

\* Mutant: the exit status of git push is not looked at.
PushReturnsUnchecked(p) ==
    /\ pc[p] = "pushing"
    /\ commit[p] \notin inflight
    /\ Go(p, "published")
    /\ commit' = [commit EXCEPT ![p] = Absent]
    /\ UNCHANGED <<expected, candidate, remoteVars, commitVars>>

PushReturns(p) ==
    /\ pc[p] = "pushing"
    /\ commit[p] \notin inflight
    /\ Go(p, IF commit[p] \in landed THEN "published" ELSE "stale")
    /\ commit' = [commit EXCEPT ![p] = Absent]
    /\ UNCHANGED <<expected, candidate, remoteVars, commitVars>>

\* The deadline passes (GitInterruptedError), or git ends with an error, which
\* is always reported as a stale lease.  The push may be lost, may be under way,
\* or may have been carried out.
PushBreaks(p) ==
    /\ pc[p] = "pushing"
    /\ \E result \in {"failed", "stale"} : Go(p, result)
    /\ inflight' \in {inflight, inflight \ {commit[p]}}
    /\ commit' = [commit EXCEPT ![p] = Absent]
    /\ UNCHANGED <<expected, candidate, dist, landed, commitVars>>

PublisherStep(p) ==
    \/ Observe(p)
    \/ Collect(p)
    \/ CollectFails(p)
    \/ Repeat(p)
    \/ Precheck(p)
    \/ FetchBaseline(p)
    \/ Compare(p)
    \/ VerifyUnchanged(p)
    \/ VerifyLease(p)
    \/ GitFails(p)
    \/ Push(p)
    \/ PushReturns(p)
    \/ PushBreaks(p)

Next ==
    \/ \E p \in Publishers : PublisherStep(p)
    \/ \E c \in inflight : RemoteDecides(c)

Spec == Init /\ [][Next]_vars

-----------------------------------------------------------------------------
(***************************************************************************)
(* Properties                                                              *)
(***************************************************************************)

\* No push takes away a post that dist has, and dist never disappears, however
\* many runs publish, whenever a late push arrives and whatever is repeated.
\* operations.md:392 "prevents a stale collector from overwriting newer data".
DistNeverForgets ==
    [][/\ dist # Absent => dist' # Absent
       /\ tree[dist] \subseteq tree'[dist']]_vars

\* A snapshot is replaced at most once: a publication that was interrupted and
\* repeated cannot land twice, nor beside another run's.
LeaseUsedOnce == \A c, d \in landed : lease[c] = lease[d] => c = d

\* What publish-dist reports with exit 0 is on dist, and stays there.
ReportedIsPublic ==
    \A p \in Publishers :
        pc[p] \in {"published", "unchanged"} => candidate[p] \subseteq tree[dist]
=============================================================================
