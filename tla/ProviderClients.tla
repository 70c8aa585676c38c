-------------------------- MODULE ProviderClients --------------------------
(***************************************************************************)
(* The adapters of the two providers below the router: the start of a paid *)
(* run, its polling and the download of its results, with the requests,    *)
(* retries and error categories of providers/apify and providers/brightdata.*)
(*                                                                         *)
(* "started" is what really happened at the provider.  A start request can *)
(* be lost on the way or after it was carried out; HidesAcceptance names   *)
(* the drivers for which a timed out start may have been carried out.  A   *)
(* start that is answered with an HTTP error has not been carried out.     *)
(***************************************************************************)
EXTENDS Router

CONSTANTS
    MaxPolls,         \* polls of one run (360 in the code)
    MaxRetries,       \* Bright Data repeats of a request (2 in the code)
    HidesAcceptance,  \* drivers whose lost start may have been carried out
    Bad               \* accounts the providers reject as input

ASSUME ClientsAssumption ==
    /\ MaxPolls \in Nat
    /\ MaxRetries \in Nat
    /\ HidesAcceptance \subseteq Drivers
    /\ Bad \subseteq Accounts

VARIABLES
    phase,     \* step of the client: start a run, await it, fetch its results
    remote,    \* status of the remote run, as last seen
    polls,     \* polls made
    tries,     \* repeats of the start request
    started    \* paid runs really started for each account

clientVars == <<phase, remote, polls, tries, started>>
vars == <<rvars, clientVars>>

ClientTypeOK ==
    /\ phase \in {"start", "await", "fetch"}
    /\ remote \in {"active", "succeeded", "ended"}
    /\ polls \in 0 .. MaxPolls
    /\ tries \in 0 .. MaxRetries
    /\ started \in [Accounts -> Nat]

Init ==
    /\ RouterInit
    /\ phase = "start"
    /\ remote = "active"
    /\ polls = 0
    /\ tries = 0
    /\ started = [a \in Accounts |-> 0]

-----------------------------------------------------------------------------
StartedForBatch ==
    [a \in Accounts |-> started[a] + (IF a \in batch THEN 1 ELSE 0)]

\* The client is done: the adapter returns attempt r.
Return(r) ==
    /\ attempt' = r
    /\ runs' = started'
    /\ phase' = "start"
    /\ remote' = "active"
    /\ polls' = 0
    /\ tries' = 0
    /\ UNCHANGED routerVars

ReturnPlain(r) == Return(r) /\ answer' = NoAnswer

\* BatchCompleted with the same outcome for every account of the batch.
ReturnOutcome(reply) ==
    /\ Return("completed")
    /\ answer' = [a \in Accounts |-> IF a \in batch THEN reply ELSE "none"]

\* Normalised posts, one outcome per account; a post may contradict one the
\* router already has.
ReturnPosts ==
    /\ Return("completed")
    /\ answer' \in [Accounts -> {"posts", "corrupt", "none"}]
    /\ \A a \in Accounts : a \in batch <=> answer'[a] # "none"

Calls(drivers) ==
    /\ pc = "call"
    /\ attempt = "running"
    /\ DriverOf(at) \in drivers

Go(next) == phase' = next /\ UNCHANGED <<routerVars, adapterVars>>

Apify == {"apify", "apifyx"}
BrightData == {"brightdata"}

-----------------------------------------------------------------------------
(***************************************************************************)
(* Apify: one account, one Actor run                                       *)
(***************************************************************************)

\* collect refuses a batch; an unusable request is found before any I/O.
ApifyRefuses ==
    /\ Calls(Apify)
    /\ phase = "start"
    /\ UNCHANGED started
    /\ ReturnPlain("schema")

\* The start is carried out and answered.
ApifyStarts ==
    /\ Calls(Apify)
    /\ CanServe
    /\ phase = "start"
    /\ started' = StartedForBatch
    /\ \/ /\ remote' \in {"active", "succeeded", "ended"}
          /\ Go("await")
          /\ UNCHANGED <<polls, tries>>
       \/ ReturnPlain("accepted")

\* Mutant: a lost start is handed to the next instance.
ApifyStartLostRetryable ==
    /\ Calls(Apify)
    /\ CanServe
    /\ phase = "start"
    /\ started' \in {started} \cup
          (IF DriverOf(at) \in HidesAcceptance THEN {StartedForBatch} ELSE {})
    /\ ReturnPlain("retryable")

\* A timeout or network error: the run may have been accepted.
ApifyStartLost ==
    /\ Calls(Apify)
    /\ CanServe
    /\ phase = "start"
    /\ started' \in {started} \cup
          (IF DriverOf(at) \in HidesAcceptance THEN {StartedForBatch} ELSE {})
    /\ ReturnPlain("accepted")

\* An HTTP status: 429 or 5xx, 402, 401 or 403, anything else.
ApifyStartRejected ==
    /\ Calls(Apify)
    /\ CanServe
    /\ phase = "start"
    /\ UNCHANGED started
    /\ \E r \in {"retryable", "quota", "credential", "schema"} : ReturnPlain(r)

\* _await_run looks at the status it has, then waits and asks again ...
ApifyPolls ==
    /\ Calls(Apify)
    /\ phase = "await"
    /\ remote = "active"
    /\ polls < MaxPolls
    /\ UNCHANGED started
    /\ \/ /\ remote' \in {"active", "succeeded", "ended"}
          /\ polls' = polls + 1
          /\ UNCHANGED tries
          /\ Go("await")
       \/ ReturnPlain("accepted")

\* ... so the status found by the last poll is not looked at any more.
ApifyAwaitEnds ==
    /\ Calls(Apify)
    /\ phase = "await"
    /\ remote # "active" \/ polls = MaxPolls
    /\ UNCHANGED started
    /\ IF remote = "succeeded" /\ polls < MaxPolls
       THEN Go("fetch") /\ UNCHANGED <<remote, polls, tries>>
       ELSE ReturnPlain("accepted")

\* A page of the dataset (or the X report) is lost, refused, not JSON or not
\* complete: the run stays accepted.
AcceptedRunFails == ReturnPlain("accepted")

\* All pages are read first; an ownership or identity error is found afterwards.
ApifyFetches ==
    /\ Calls(Apify)
    /\ phase = "fetch"
    /\ UNCHANGED started
    /\ \/ ReturnPosts
       \/ AcceptedRunFails
       \/ ReturnPlain("schema")

-----------------------------------------------------------------------------
(***************************************************************************)
(* Bright Data: one triggered collection for a batch                       *)
(***************************************************************************)

\* The trigger is carried out: a snapshot to wait for, or the records at once.
\* One error record among them rejects the whole batch as input.
BrightDataTriggers ==
    /\ Calls(BrightData)
    /\ phase = "start"
    /\ started' = StartedForBatch
    /\ \/ Go("await") /\ UNCHANGED <<remote, polls, tries>>
       \/ batch \cap Bad = {} /\ ReturnPosts
       \/ batch \cap Bad # {} /\ ReturnOutcome("invalid")
       \/ ReturnPlain("schema")

\* 429 and 5xx are repeated a few times.
BrightDataRetries ==
    /\ Calls(BrightData)
    /\ phase = "start"
    /\ tries < MaxRetries
    /\ tries' = tries + 1
    /\ Go("start")
    /\ UNCHANGED <<remote, polls, started>>

\* An HTTP status that is not (or no longer) repeated.
BrightDataTriggerRejected ==
    /\ Calls(BrightData)
    /\ phase = "start"
    /\ UNCHANGED started
    /\ \/ tries = MaxRetries /\ ReturnPlain("retryable")
       \/ \E r \in {"quota", "credential", "schema"} : ReturnPlain(r)
       \/ ReturnOutcome("not_found")
       \/ batch \cap Bad # {} /\ ReturnOutcome("invalid")

\* A timeout or network error of the trigger counts as not accepted.
BrightDataTriggerLost ==
    /\ Calls(BrightData)
    /\ phase = "start"
    /\ started' \in {started} \cup
          (IF DriverOf(at) \in HidesAcceptance THEN {StartedForBatch} ELSE {})
    /\ ReturnPlain("retryable")

\* Mutant: polling has no limit.
BrightDataPollsForever ==
    /\ Calls(BrightData)
    /\ phase = "await"
    /\ UNCHANGED started
    /\ \/ polls' = (polls + 1) % MaxPolls /\ Go("await") /\ UNCHANGED <<remote, tries>>
       \/ Go("fetch") /\ UNCHANGED <<remote, polls, tries>>
       \/ ReturnPlain("accepted")
       \/ ReturnPlain("schema")

\* One poll: still active, ready, ended or failed; a body that is not JSON is
\* raised without snapshot_accepted and becomes a schema abort.  (Polls repeat
\* 429 and 5xx like the trigger; those repeats change nothing else.)
BrightDataPolls ==
    /\ Calls(BrightData)
    /\ phase = "await"
    /\ polls < MaxPolls
    /\ UNCHANGED started
    /\ \/ polls' = polls + 1 /\ Go("await") /\ UNCHANGED <<remote, tries>>
       \/ Go("fetch") /\ UNCHANGED <<remote, polls, tries>>
       \/ ReturnPlain("accepted")
       \/ ReturnPlain("schema")

\* Mutant: a snapshot that takes too long is collected again elsewhere.
BrightDataTimesOutRetried ==
    /\ Calls(BrightData)
    /\ phase = "await"
    /\ polls = MaxPolls
    /\ UNCHANGED started
    /\ ReturnPlain("retryable")

BrightDataTimesOut ==
    /\ Calls(BrightData)
    /\ phase = "await"
    /\ polls = MaxPolls
    /\ UNCHANGED started
    /\ ReturnPlain("accepted")

\* The snapshot: embedded error records make it an accepted failure, records
\* of somebody else or a body that is not JSON a schema abort.
BrightDataFetches ==
    /\ Calls(BrightData)
    /\ phase = "fetch"
    /\ UNCHANGED started
    /\ \/ batch \cap Bad = {} /\ ReturnPosts
       \/ ReturnPlain("accepted")
       \/ ReturnPlain("schema")

ClientStep ==
    \/ ApifyRefuses
    \/ ApifyStarts
    \/ ApifyStartLost
    \/ ApifyStartRejected
    \/ ApifyPolls
    \/ ApifyAwaitEnds
    \/ ApifyFetches
    \/ BrightDataTriggers
    \/ BrightDataRetries
    \/ BrightDataTriggerRejected
    \/ BrightDataTriggerLost
    \/ BrightDataPolls
    \/ BrightDataTimesOut
    \/ BrightDataFetches

Next == (RouterStep /\ UNCHANGED clientVars) \/ ClientStep

Spec == Init /\ [][Next]_vars

\* route awaits its adapters one after the other: nothing else can stop it, and
\* every request ends by itself (the HTTP client has timeouts).
FairSpec == Spec /\ WF_vars(Next)

-----------------------------------------------------------------------------
(***************************************************************************)
(* The invariant behind the theorems of the clients in RouterProofs        *)
(***************************************************************************)

\* Outside a call the runs reported are the runs really started; inside, a run
\* started for the current batch is the only one not reported yet.
Reported ==
    /\ phase \in {"start", "await", "fetch"}
    /\ phase = "start" => started = runs
    /\ phase \in {"await", "fetch"} =>
          /\ pc = "call"
          /\ attempt = "running"
          /\ CanServe
          /\ started = [a \in Accounts |-> runs[a] + (IF a \in batch THEN 1 ELSE 0)]

-----------------------------------------------------------------------------
(***************************************************************************)
(* Properties                                                              *)
(***************************************************************************)

\* The clients keep the adapter contract the router relies on: a run that has
\* been paid for is reported as completed, accepted or schema corruption, never
\* as a failure that moves the batch to another instance.
ClientsHonourContract == RouterSpec

\* Whatever is lost on the way, no account is really paid for twice, as long as
\* only Apify starts can be carried out unnoticed (ProviderLostTrigger shows
\* the other case).
ChargedOnce == \A a \in Accounts : started[a] <= 1

\* A call of route ends, whatever the providers answer: polling, repeats and
\* failover are all bounded.
RouteEnds == <>(pc = "done")

\* adapters/instance.py:104 RetryableBatchFailure, "A transient pre-acceptance
\* failure eligible for instance failover": a batch that moves on has not been
\* paid for.
FailoverBeforeAcceptance ==
    pc = "route" => \A a \in batch : started[a] = 0

\* architecture.md:167-168 "Invalid/not-found accounts are account-scoped and do
\* not rotate credentials": only a bad account is reported invalid.
RejectionsAreAccountScoped ==
    \A a \in Accounts : routed[a] = "invalid_account" => a \in Bad
=============================================================================
