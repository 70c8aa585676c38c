------------------------------- MODULE Router -------------------------------
(***************************************************************************)
(* One call of Router.route (adapters/router.py, adapters/router_state.py):*)
(* the requests of a run are cut into batches of one account kind, and     *)
(* each batch is offered to the credential-bound adapter instances one     *)
(* after the other until one of them settles it.                           *)
(*                                                                         *)
(* Adapters are seen through the contract of adapters/instance.py only:    *)
(* Answer is any attempt an adapter may return.  "runs" counts the paid    *)
(* remote runs an adapter has caused; an adapter that has caused one does  *)
(* not report a failure that sends the batch to another instance.          *)
(* ProviderClients is the detailed adapter.                                *)
(***************************************************************************)
EXTENDS Integers, Sequences, FiniteSets

CONSTANTS
    Accounts,   \* accounts, numbered in the order the router sorts them
    KindOf,     \* the kind of each account, which determines its platform
    Windows,    \* collection windows a request may carry
    Setups,     \* configurations: instance drivers in order, registered drivers
    MaxBatch    \* _MAX_BATCH_SIZE (20 in the code)

Kinds == {"person", "company", "profile"}
Drivers == {"apify", "apifyx", "brightdata"}

\* The metadata each driver declares.
Serves(d) == IF d = "apifyx" THEN {"profile"} ELSE {"person", "company"}
Batching(d) == d = "brightdata"

Health == {"healthy", "quota_exhausted", "invalid_credential"}
Failures == {"invalid_account", "account_not_found", "pool_exhausted",
             "accepted_snapshot_failed", "unsupported_capability"}
Attempts == {"retryable", "quota", "credential", "schema", "accepted", "completed"}
\* An adapter's outcome for one account: "corrupt" posts belong to another
\* account or contradict a post already collected; "none" is a missing outcome.
Replies == {"posts", "invalid", "not_found", "corrupt", "none"}

ASSUME RouterAssumption ==
    /\ Accounts \subseteq Nat
    /\ IsFiniteSet(Accounts)
    /\ KindOf \in [Accounts -> Kinds]
    /\ \A s \in Setups : /\ s.drivers \in Seq(Drivers)
                         /\ s.registered \in SUBSET Drivers
                         /\ \A i \in 1 .. Len(s.drivers) :
                               s.drivers[i] \in s.registered
    /\ MaxBatch \in Nat \ {0}

VARIABLES
    setup,      \* the configuration of this run
    requests,   \* account and window of every request passed to route
    pc,         \* where route is
    wanted,     \* accounts requested, each once
    pending,    \* accounts not yet in a batch
    batch,      \* the accounts of the current batch
    at,         \* ordinal of the instance asked, or to try next
    health,     \* RouterRunState.health
    routed,     \* RouterRunState.routed
    posts,      \* accounts whose posts are in RouterRunState.posts
    status,     \* disposition of the call
    delivered,  \* accounts whose posts are in the RouterResult
    attempt,    \* what the adapter returned
    answer,     \* its outcome per account, when completed
    runs,       \* history: paid runs caused for each account
    refused     \* history: instances that passed the account on

routerVars == <<setup, requests, pc, wanted, pending, batch, at, health, routed,
                posts, status, delivered, refused>>
adapterVars == <<attempt, answer, runs>>
rvars == <<routerVars, adapterVars>>

Instances == 1 .. Len(setup.drivers)
DriverOf(i) == setup.drivers[i]

TypeOK ==
    /\ setup \in Setups
    /\ requests \in SUBSET (Accounts \X Windows)
    /\ pc \in {"begin", "batch", "route", "call", "done"}
    /\ wanted \in SUBSET Accounts
    /\ pending \in SUBSET wanted
    /\ batch \in SUBSET wanted
    /\ at \in Nat
    /\ health \in [Instances -> Health]
    /\ routed \in [Accounts -> Failures \cup {"succeeded", "none"}]
    /\ posts \in SUBSET Accounts
    /\ status \in {"running", "success", "partial", "aborted", "conflict"}
    /\ delivered \in SUBSET Accounts
    /\ attempt \in Attempts \cup {"none", "running"}
    /\ answer \in [Accounts -> Replies]
    /\ runs \in [Accounts -> Nat]
    /\ refused \in [Accounts -> SUBSET Instances]

-----------------------------------------------------------------------------
NoAnswer == [a \in Accounts |-> "none"]

RouterInit ==
    /\ setup \in Setups
    /\ requests \in SUBSET (Accounts \X Windows)
    /\ pc = "begin"
    /\ wanted = {}
    /\ pending = {}
    /\ batch = {}
    /\ at = 1
    /\ health = [i \in Instances |-> "healthy"]
    /\ routed = [a \in Accounts |-> "none"]
    /\ posts = {}
    /\ status = "running"
    /\ delivered = {}
    /\ attempt = "none"
    /\ answer = NoAnswer
    /\ runs = [a \in Accounts |-> 0]
    /\ refused = [a \in Accounts |-> {}]

\* Instances whose driver serves the kind; registry.resolve is empty when no
\* registered driver does.
Compatible(k) == {i \in Instances : k \in Serves(DriverOf(i))}
Supported(k) == \E d \in setup.registered : k \in Serves(d)

\* Mutant: fallback instances that cannot batch are forgotten.
BatchSizeAlwaysMax(k) == MaxBatch
BatchSize(k) ==
    IF \E i \in Compatible(k) : ~Batching(DriverOf(i)) THEN 1 ELSE MaxBatch

\* The n smallest members of S.
FirstOf(S, n) == {a \in S : Cardinality({b \in S : b < a}) < n}

\* Kinds are visited in the order of the enumerations Platform and AccountKind.
NextKind(S) ==
    LET present == {KindOf[a] : a \in S}
    IN  IF "person" \in present THEN "person"
        ELSE IF "company" \in present THEN "company" ELSE "profile"

NextBatch(S) ==
    FirstOf({a \in S : KindOf[a] = NextKind(S)}, BatchSize(NextKind(S)))

-----------------------------------------------------------------------------
(***************************************************************************)
(* Requests and batches                                                    *)
(***************************************************************************)

\* Identical requests collapse.
Begin ==
    /\ pc = "begin"
    /\ \A r, s \in requests : r[1] = s[1] => r = s
    /\ wanted' = {r[1] : r \in requests}
    /\ pending' = {r[1] : r \in requests}
    /\ requests' = {}
    /\ pc' = "batch"
    /\ UNCHANGED <<setup, batch, at, health, routed, posts, status, delivered>>
    /\ UNCHANGED <<refused, adapterVars>>

\* AdapterRequestError: two windows for one account.
RejectRequests ==
    /\ pc = "begin"
    /\ \E r, s \in requests : r[1] = s[1] /\ r # s
    /\ status' = "conflict"
    /\ requests' = {}
    /\ pc' = "done"
    /\ UNCHANGED <<setup, wanted, pending, batch, at, health, routed, posts>>
    /\ UNCHANGED <<delivered, refused, adapterVars>>

Route(accounts, outcome) ==
    routed' = [a \in Accounts |-> IF a \in accounts THEN outcome ELSE routed[a]]

TakeBatch ==
    /\ pc = "batch"
    /\ pending # {}
    /\ LET b == NextBatch(pending)
           k == NextKind(pending)
       IN  /\ pending' = pending \ b
           /\ IF Compatible(k) # {}
              THEN /\ batch' = b
                   /\ at' = 1
                   /\ pc' = "route"
                   /\ UNCHANGED routed
              ELSE /\ Route(b, IF Supported(k) THEN "pool_exhausted"
                               ELSE "unsupported_capability")
                   /\ UNCHANGED <<batch, at, pc>>
    /\ UNCHANGED <<setup, requests, wanted, health, posts, status, delivered>>
    /\ UNCHANGED <<refused, adapterVars>>

-----------------------------------------------------------------------------
(***************************************************************************)
(* One batch: instances in order, until one settles it                     *)
(***************************************************************************)

ServesBatch(i) == \A a \in batch : i \in Compatible(KindOf[a])

\* Mutant: the health of an instance is not looked at.
AskableIgnoringHealth == {i \in Instances : i >= at /\ ServesBatch(i)}
Askable == {i \in Instances : i >= at /\ ServesBatch(i) /\ health[i] = "healthy"}

Ask ==
    /\ pc = "route"
    /\ \E i \in Askable : (\A j \in Askable : i <= j) /\ at' = i
    /\ pc' = "call"
    /\ attempt' = "running"
    /\ UNCHANGED <<setup, requests, wanted, pending, batch, health, routed, posts>>
    /\ UNCHANGED <<status, delivered, refused, answer, runs>>

LeaveBatch ==
    /\ batch' = {}
    /\ at' = 1
    /\ pc' = "batch"

PoolExhausted ==
    /\ pc = "route"
    /\ Askable = {}
    /\ Route(batch, "pool_exhausted")
    /\ LeaveBatch
    /\ UNCHANGED <<setup, requests, wanted, pending, health, posts, status>>
    /\ UNCHANGED <<delivered, refused, adapterVars>>

\* The attempt has been taken; its outcomes are gone.
Taken == attempt' = "none" /\ answer' = NoAnswer /\ UNCHANGED runs

\* Mutant: the pool counts as exhausted after one quota failure.
PassOnStopsAtQuota ==
    /\ pc = "call"
    /\ attempt \in {"retryable", "quota", "credential"}
    /\ health' = [health EXCEPT ![at] = CASE attempt = "quota" -> "quota_exhausted"
                                          [] attempt = "credential" -> "invalid_credential"
                                          [] OTHER -> @]
    /\ refused' = [a \in Accounts |-> IF a \in batch THEN refused[a] \cup {at}
                                      ELSE refused[a]]
    /\ at' = IF attempt = "quota" THEN Len(setup.drivers) + 1 ELSE at + 1
    /\ pc' = "route"
    /\ Taken
    /\ UNCHANGED <<setup, requests, wanted, pending, batch, routed, posts, status>>
    /\ UNCHANGED delivered

\* RetryableBatchFailure, QuotaBatchFailure, InvalidCredentialBatchFailure.
PassOn ==
    /\ pc = "call"
    /\ attempt \in {"retryable", "quota", "credential"}
    /\ health' = [health EXCEPT ![at] = CASE attempt = "quota" -> "quota_exhausted"
                                          [] attempt = "credential" -> "invalid_credential"
                                          [] OTHER -> @]
    /\ refused' = [a \in Accounts |-> IF a \in batch THEN refused[a] \cup {at}
                                      ELSE refused[a]]
    /\ at' = at + 1
    /\ pc' = "route"
    /\ Taken
    /\ UNCHANGED <<setup, requests, wanted, pending, batch, routed, posts, status>>
    /\ UNCHANGED delivered

\* Mutant: an accepted snapshot that failed is treated as retryable.
AcceptedFailedRetried ==
    /\ pc = "call"
    /\ attempt = "accepted"
    /\ at' = at + 1
    /\ pc' = "route"
    /\ Taken
    /\ UNCHANGED <<setup, requests, wanted, pending, batch, health, routed, posts>>
    /\ UNCHANGED <<status, delivered, refused>>

AcceptedFailed ==
    /\ pc = "call"
    /\ attempt = "accepted"
    /\ Route(batch, "accepted_snapshot_failed")
    /\ LeaveBatch
    /\ Taken
    /\ UNCHANGED <<setup, requests, wanted, pending, health, posts, status>>
    /\ UNCHANGED <<delivered, refused>>

Abort ==
    /\ status' = "aborted"
    /\ pc' = "done"
    /\ Taken
    /\ UNCHANGED <<setup, requests, wanted, pending, batch, at, health>>
    /\ UNCHANGED <<delivered, refused>>

SchemaAbort ==
    /\ pc = "call"
    /\ attempt = "schema"
    /\ Abort
    /\ UNCHANGED <<routed, posts>>

RouteOf(reply) == CASE reply = "posts"   -> "succeeded"
                    [] reply = "invalid" -> "invalid_account"
                    [] OTHER             -> "account_not_found"

\* accept goes through the outcomes in order and stops at the first bad one;
\* an incomplete answer is refused as a whole.
AcceptedOutcomes ==
    {a \in batch : /\ \A b \in batch : answer[b] # "none"
                   /\ \A b \in batch : b <= a => answer[b] # "corrupt"}

Accept ==
    /\ routed' = [a \in Accounts |-> IF a \in AcceptedOutcomes
                                     THEN RouteOf(answer[a]) ELSE routed[a]]
    /\ posts' = posts \cup {a \in AcceptedOutcomes : answer[a] = "posts"}

AcceptAnswer ==
    /\ pc = "call"
    /\ attempt = "completed"
    /\ AcceptedOutcomes = batch
    /\ Accept
    /\ LeaveBatch
    /\ Taken
    /\ UNCHANGED <<setup, requests, wanted, pending, health, status, delivered>>
    /\ UNCHANGED refused

\* Mutant: a corrupt answer is dropped and the run goes on.
AcceptCorruptPartly ==
    /\ pc = "call"
    /\ attempt = "completed"
    /\ AcceptedOutcomes # batch
    /\ Accept
    /\ LeaveBatch
    /\ Taken
    /\ UNCHANGED <<setup, requests, wanted, pending, health, status, delivered>>
    /\ UNCHANGED refused

AcceptCorrupt ==
    /\ pc = "call"
    /\ attempt = "completed"
    /\ AcceptedOutcomes # batch
    /\ Accept
    /\ Abort

Finish ==
    /\ pc = "batch"
    /\ pending = {}
    /\ status' = IF \E a \in Accounts : routed[a] \in Failures
                 THEN "partial" ELSE "success"
    /\ delivered' = posts
    /\ pc' = "done"
    /\ UNCHANGED <<setup, requests, wanted, pending, batch, at, health, routed>>
    /\ UNCHANGED <<posts, refused, adapterVars>>

-----------------------------------------------------------------------------
(***************************************************************************)
(* The adapter, as its contract describes it                               *)
(***************************************************************************)

\* An adapter that cannot batch refuses a batch of several accounts.
CanServe == Batching(DriverOf(at)) \/ Cardinality(batch) = 1

Answer ==
    /\ pc = "call"
    /\ attempt = "running"
    /\ answer' \in [Accounts -> Replies]
    /\ \A a \in Accounts : \/ a \in batch
                           \/ answer'[a] = "none"
    /\ \/ /\ UNCHANGED runs
          /\ attempt' \in IF CanServe THEN Attempts ELSE {"schema"}
          /\ attempt' = "completed" =>
                \A a \in batch : answer'[a] \in {"invalid", "not_found"}
       \/ /\ CanServe
          /\ runs' = [a \in Accounts |-> runs[a] + (IF a \in batch THEN 1 ELSE 0)]
          /\ attempt' \in {"accepted", "schema", "completed"}
    /\ attempt' # "completed" => answer' = NoAnswer
    /\ UNCHANGED routerVars

RouterStep ==
    \/ Begin
    \/ RejectRequests
    \/ TakeBatch
    \/ Ask
    \/ PoolExhausted
    \/ PassOn
    \/ AcceptedFailed
    \/ SchemaAbort
    \/ AcceptAnswer
    \/ AcceptCorrupt
    \/ Finish

RouterNext == RouterStep \/ Answer

RouterSpec == RouterInit /\ [][RouterNext]_rvars

-----------------------------------------------------------------------------
(***************************************************************************)
(* Properties                                                              *)
(***************************************************************************)

\* However often a batch moves between instances, no account is paid for twice
\* in one run.  architecture.md:172-175: failover stops once a run may have
\* been accepted, which "prevents duplicate paid runs".
PaidOnce == \A a \in Accounts : runs[a] <= 1

\* A run that was not aborted answers for every requested account, reports
\* success only if all of them succeeded, and hands over the posts of exactly
\* the accounts it calls succeeded.
EveryAccountAnswered ==
    status \in {"success", "partial"} =>
        /\ \A a \in wanted : routed[a] # "none"
        /\ status = "success" <=> \A a \in wanted : routed[a] = "succeeded"
        /\ delivered = {a \in Accounts : routed[a] = "succeeded"}

\* An account is called exhausted only when every instance that could have
\* served it refused its batch or had been disabled, and nobody was paid.
ExhaustedMeansRefused ==
    \A a \in Accounts : routed[a] = "pool_exhausted" =>
        /\ \A i \in Compatible(KindOf[a]) :
              i \in refused[a] \/ health[i] # "healthy"
        /\ runs[a] = 0

\* An adapter is never given a batch it must refuse: fallback instances decide
\* the batch size too, and a batch holds one kind.  architecture.md:169-171.
BatchSuitsInstance ==
    pc = "call" => CanServe /\ ServesBatch(at)

\* An instance disabled in one batch is not asked again by a later one, and no
\* account's outcome is replaced by a later batch.
DecisionsAreFinal ==
    [][/\ \A i \in Instances : health[i] # "healthy" =>
             /\ health'[i] = health[i]
             /\ ~(pc = "route" /\ pc' = "call" /\ at' = i)
       /\ \A a \in Accounts : routed[a] # "none" => routed'[a] = routed[a]]_rvars

-----------------------------------------------------------------------------
(***************************************************************************)
(* The inductive invariant behind the theorems of RouterProofs             *)
(***************************************************************************)

\* Every wanted account is waiting, in the current batch, or has its outcome;
\* an aborted run may have outcomes for part of its last batch.
Partition ==
    /\ pending \cap batch = {}
    /\ pc # "done" =>
          \A a \in Accounts :
             routed[a] # "none" <=> a \in wanted \ (pending \cup batch)
    /\ pc \in {"begin", "batch"} => batch = {}
    /\ pc = "begin" => wanted = {}

\* The attempt belongs to the call in progress, to an instance still healthy.
Calling ==
    /\ pc = "call" <=> attempt # "none"
    /\ pc = "call" => at \in Instances /\ health[at] = "healthy"
    /\ pc \in {"route", "call"} =>
          \A a, b \in batch : KindOf[a] = KindOf[b]
    /\ status = "running" <=> pc # "done"

\* Nobody outside the current batch is being paid for, and an attempt that
\* caused a paid run settles the batch.
Payment ==
    \A a \in Accounts :
        /\ runs[a] <= 1
        /\ a \notin wanted \/ a \in pending => runs[a] = 0
        /\ a \in batch => \/ runs[a] = 0
                           \/ attempt \in {"accepted", "schema", "completed"}
                           \/ pc = "done"
        /\ routed[a] = "pool_exhausted" => runs[a] = 0

\* The posts kept are those of the accounts that succeeded.
Kept ==
    /\ status \in {"running", "success", "partial"} =>
          posts = {a \in Accounts : routed[a] = "succeeded"}
    /\ delivered = IF status \in {"success", "partial"} THEN posts ELSE {}

\* The instances passed over so far refused the batch or cannot be asked.
PassedOver ==
    pc \in {"route", "call"} =>
        \A i \in Instances : i < at =>
            \/ \A a \in batch : i \in refused[a]
            \/ health[i] # "healthy"
            \/ \A a \in batch : i \notin Compatible(KindOf[a])

IInv ==
    /\ TypeOK
    /\ Partition
    /\ Calling
    /\ Payment
    /\ Kept
    /\ PassedOver
    /\ EveryAccountAnswered
    /\ ExhaustedMeansRefused
=============================================================================
