---------------------------- MODULE RouterProofs ----------------------------
(***************************************************************************)
(* Theorems of Router for every set of accounts, configuration and batch   *)
(* size, and of the provider clients below it.  Each action keeps the      *)
(* inductive invariant IInv, one part at a time; the safety properties     *)
(* follow from it.  The clients implement the adapter contract of Router,  *)
(* for every configuration and every bound, provided that only a lost      *)
(* Apify start may have been carried out, so what Router promises holds of *)
(* the router on top of the real clients too.                              *)
(***************************************************************************)
EXTENDS ProviderClients, FiniteSetTheorems, TLAPS

USE RouterAssumption

\* The configuration is fixed for a call, so the instances and what they serve
\* are too.
LEMMA SameInstances ==
    ASSUME setup' = setup
    PROVE  /\ Instances' = Instances
           /\ \A k \in Kinds : Compatible(k)' = Compatible(k)
  BY DEF Instances, Compatible, DriverOf

LEMMA InstancesAreNumbered ==
    ASSUME TypeOK
    PROVE  /\ Len(setup.drivers) \in Nat
           /\ Instances = 1 .. Len(setup.drivers)
  BY DEF TypeOK, Instances

\* A batch holds pending accounts of one kind.
LEMMA NextBatchIsUniform ==
    /\ NextBatch(pending) \subseteq pending
    /\ \A a \in NextBatch(pending) : KindOf[a] = NextKind(pending)
  BY DEF NextBatch, FirstOf

\* What an account called exhausted relies on is kept by a step that calls no
\* other account exhausted, forgets no refusal and heals no instance.
LEMMA ExhaustedStays ==
    ASSUME ExhaustedMeansRefused, setup' = setup,
           \A a \in Accounts : routed'[a] = "pool_exhausted" =>
               /\ routed[a] = "pool_exhausted"
               /\ refused[a] \subseteq refused'[a]
               /\ runs'[a] = 0,
           \A i \in Instances : health[i] # "healthy" => health'[i] # "healthy"
    PROVE  ExhaustedMeansRefused'
<1> SUFFICES ASSUME NEW a \in Accounts, routed'[a] = "pool_exhausted"
             PROVE  /\ \A i \in Compatible(KindOf[a])' :
                           i \in refused'[a] \/ health'[i] # "healthy"
                    /\ runs'[a] = 0
  BY DEF ExhaustedMeansRefused
<1>1. /\ KindOf[a] \in Kinds
      /\ Compatible(KindOf[a])' = Compatible(KindOf[a])
      /\ Compatible(KindOf[a]) \subseteq Instances
  BY SameInstances DEF Compatible
<1>2. \A i \in Compatible(KindOf[a]) : i \in refused[a] \/ health[i] # "healthy"
  BY DEF ExhaustedMeansRefused
<1>3. QED
  BY <1>1, <1>2

LEMMA InitHolds == RouterInit => IInv
<1> SUFFICES ASSUME RouterInit PROVE IInv
  OBVIOUS
<1> USE DEF RouterInit, NoAnswer
<1>1. TypeOK
  BY DEF TypeOK, Instances, Health, Replies
<1>2. Partition
  BY DEF Partition
<1>3. Calling
  BY DEF Calling
<1>4. Payment
  BY DEF Payment
<1>5. Kept
  BY DEF Kept
<1>6. PassedOver
  BY DEF PassedOver
<1>7. EveryAccountAnswered
  BY DEF EveryAccountAnswered
<1>8. ExhaustedMeansRefused
  BY DEF ExhaustedMeansRefused
<1>9. QED
  BY <1>1, <1>2, <1>3, <1>4, <1>5, <1>6, <1>7, <1>8 DEF IInv

\* The accounts requested become pending.
LEMMA BeginKeeps == ASSUME IInv, Begin PROVE IInv'
<1> USE DEF IInv, Begin, routerVars, adapterVars
<1>1. TypeOK'
  <2>1. wanted' \in SUBSET Accounts /\ pending' = wanted'
    BY DEF TypeOK
  <2>2. QED
    BY <2>1 DEF TypeOK, Partition, Instances
<1>2. Partition'
  BY DEF Partition
<1>3. Calling'
  BY DEF Calling
<1>4. Payment'
  BY DEF Payment, Partition
<1>5. Kept'
  BY DEF Kept
<1>6. PassedOver'
  BY DEF PassedOver
<1>7. EveryAccountAnswered'
  BY DEF EveryAccountAnswered, Calling
<1>8. ExhaustedMeansRefused'
  BY ExhaustedStays DEF Partition
<1>9. QED
  BY <1>1, <1>2, <1>3, <1>4, <1>5, <1>6, <1>7, <1>8 DEF IInv

\* A rejected call changes nothing but its status.
LEMMA RejectRequestsKeeps == ASSUME IInv, RejectRequests PROVE IInv'
<1> USE DEF IInv, RejectRequests, routerVars, adapterVars
<1>1. TypeOK'
  BY DEF TypeOK, Instances
<1>2. Partition'
  BY DEF Partition
<1>3. Calling'
  BY DEF Calling
<1>4. Payment'
  BY DEF Payment
<1>5. Kept'
  BY DEF Kept, Partition
<1>6. PassedOver'
  BY DEF PassedOver
<1>7. EveryAccountAnswered'
  BY DEF EveryAccountAnswered
<1>8. ExhaustedMeansRefused'
  BY ExhaustedStays DEF Partition
<1>9. QED
  BY <1>1, <1>2, <1>3, <1>4, <1>5, <1>6, <1>7, <1>8 DEF IInv

\* A batch is taken out of the pending accounts.
LEMMA TakeBatchKeeps == ASSUME IInv, TakeBatch PROVE IInv'
<1> USE DEF IInv, TakeBatch, Route, routerVars, adapterVars
<1>1. TypeOK'
  <2>1. CASE Compatible(NextKind(pending)) # {}
    <3>1. batch' \in SUBSET wanted /\ pending' \in SUBSET wanted
      BY <2>1, NextBatchIsUniform DEF TypeOK
    <3>2. QED
      BY <2>1, <3>1 DEF TypeOK, Instances
  <2>2. CASE Compatible(NextKind(pending)) = {}
    <3>1. routed' \in [Accounts -> Failures \cup {"succeeded", "none"}]
      BY <2>2 DEF TypeOK, Failures
    <3>2. QED
      BY <2>2, <3>1, NextBatchIsUniform DEF TypeOK, Instances
  <2>3. QED
    BY <2>1, <2>2
<1>2. Partition'
  <2>1. /\ NextBatch(pending) \subseteq pending
        /\ batch = {}
        /\ pending \subseteq wanted
        /\ pc # "done"
    BY NextBatchIsUniform DEF Partition, TypeOK
  <2>2. CASE Compatible(NextKind(pending)) # {}
    BY <2>1, <2>2 DEF Partition, TypeOK
  <2>3. CASE Compatible(NextKind(pending)) = {}
    <3>1. \A a \in Accounts : a \in NextBatch(pending) => routed'[a] # "none"
      BY <2>3
    <3>2. \A a \in Accounts : a \notin NextBatch(pending) => routed'[a] = routed[a]
      BY <2>3
    <3>3. /\ pending' = pending \ NextBatch(pending)
          /\ batch' = {} /\ pc' = pc /\ wanted' = wanted
      BY <2>1, <2>3
    <3>4. QED
      BY <2>1, <3>1, <3>2, <3>3 DEF Partition, TypeOK
  <2>4. QED
    BY <2>2, <2>3
<1>3. Calling'
  BY NextBatchIsUniform DEF Calling
<1>4. Payment'
  BY NextBatchIsUniform DEF Payment
<1>5. Kept'
  <2>1. CASE Compatible(NextKind(pending)) # {}
    BY <2>1 DEF Kept
  <2>2. CASE Compatible(NextKind(pending)) = {}
    <3>1. \A a \in Accounts : routed'[a] = "succeeded" <=> routed[a] = "succeeded"
      BY <2>2, NextBatchIsUniform DEF TypeOK, Partition
    <3>2. QED
      BY <3>1 DEF Kept
  <2>3. QED
    BY <2>1, <2>2
<1>6. PassedOver'
  BY NextBatchIsUniform DEF PassedOver, Instances
<1>7. EveryAccountAnswered'
  BY NextBatchIsUniform DEF EveryAccountAnswered, TypeOK, Partition
<1>8. ExhaustedMeansRefused'
  <2>1. CASE Compatible(NextKind(pending)) # {}
    BY <2>1, ExhaustedStays DEF Payment
  <2>2. CASE Compatible(NextKind(pending)) = {}
    <3> SUFFICES ASSUME NEW a \in Accounts, routed'[a] = "pool_exhausted"
                 PROVE  /\ \A i \in Compatible(KindOf[a])' :
                               i \in refused[a] \/ health[i] # "healthy"
                        /\ runs[a] = 0
      BY DEF ExhaustedMeansRefused
    <3>1. Compatible(KindOf[a])' = Compatible(KindOf[a])
      BY SameInstances
    <3>2. CASE a \in NextBatch(pending)
      BY <2>2, <3>1, <3>2, NextBatchIsUniform DEF Payment
    <3>3. CASE a \notin NextBatch(pending)
      <4>1. routed[a] = "pool_exhausted"
        BY <2>2, <3>3
      <4>2. QED
        BY <3>1, <4>1 DEF ExhaustedMeansRefused
    <3>4. QED
      BY <3>2, <3>3
  <2>3. QED
    BY <2>1, <2>2
<1>9. QED
  BY <1>1, <1>2, <1>3, <1>4, <1>5, <1>6, <1>7, <1>8 DEF IInv

\* The next askable instance is called; those before it cannot be asked.
LEMMA AskKeeps == ASSUME IInv, Ask PROVE IInv'
<1> USE DEF IInv, Ask, routerVars, adapterVars
<1>1. TypeOK'
  <2>1. at' \in Nat
    BY InstancesAreNumbered DEF Askable
  <2>2. QED
    BY <2>1 DEF TypeOK, Instances, Attempts
<1>2. Partition'
  BY DEF Partition
<1>3. Calling'
  BY DEF Calling, Askable, Instances
<1>4. Payment'
  BY DEF Payment, Calling
<1>5. Kept'
  BY DEF Kept
<1>6. PassedOver'
  <2> SUFFICES ASSUME NEW j \in Instances, j < at'
               PROVE  \/ \A a \in batch : j \in refused[a]
                      \/ health[j] # "healthy"
                      \/ \A a \in batch : j \notin Compatible(KindOf[a])
    <3>1. \A a \in batch : Compatible(KindOf[a])' = Compatible(KindOf[a])
      BY SameInstances DEF TypeOK
    <3>2. QED
      BY <3>1, SameInstances DEF PassedOver
  <2>1. at \in Nat /\ j \in Nat /\ at' \in Nat
    BY InstancesAreNumbered DEF Askable, TypeOK
  <2>2. CASE j < at
    BY <2>2 DEF PassedOver
  <2>3. CASE j >= at
    <3>1. j \notin Askable
      BY <2>1
    <3>2. CASE health[j] = "healthy"
      <4>1. ~ServesBatch(j)
        BY <2>3, <3>1, <3>2 DEF Askable
      <4>2. QED
        BY <4>1 DEF ServesBatch, Calling
    <3>3. QED
      BY <3>2
  <2>4. QED
    BY <2>1, <2>2, <2>3
<1>7. EveryAccountAnswered'
  BY DEF EveryAccountAnswered
<1>8. ExhaustedMeansRefused'
  BY ExhaustedStays DEF Payment
<1>9. QED
  BY <1>1, <1>2, <1>3, <1>4, <1>5, <1>6, <1>7, <1>8 DEF IInv

\* No instance is left: each one refused the batch or cannot be asked.
LEMMA PoolExhaustedKeeps == ASSUME IInv, PoolExhausted PROVE IInv'
<1> USE DEF IInv, PoolExhausted, Route, LeaveBatch, routerVars, adapterVars
<1>1. TypeOK'
  BY DEF TypeOK, Instances, Failures
<1>2. Partition'
  BY DEF Partition, TypeOK
<1>3. Calling'
  BY DEF Calling
<1>4. Payment'
  BY DEF Payment, Calling
<1>5. Kept'
  BY DEF Kept, Partition
<1>6. PassedOver'
  BY DEF PassedOver
<1>7. EveryAccountAnswered'
  BY DEF EveryAccountAnswered, TypeOK, Partition
<1>8. ExhaustedMeansRefused'
  <2> SUFFICES ASSUME NEW a \in Accounts, routed'[a] = "pool_exhausted"
               PROVE  /\ \A i \in Compatible(KindOf[a])' :
                             i \in refused[a] \/ health[i] # "healthy"
                      /\ runs[a] = 0
    BY DEF ExhaustedMeansRefused
  <2>1. /\ Compatible(KindOf[a])' = Compatible(KindOf[a])
        /\ Compatible(KindOf[a]) \subseteq Instances
    BY SameInstances DEF Compatible
  <2>2. CASE a \in batch
    <3>1. runs[a] = 0
      BY <2>2 DEF Payment, Calling
    <3>2. ASSUME NEW i \in Compatible(KindOf[a]), health[i] = "healthy"
          PROVE  i \in refused[a]
      <4>1. i \in Instances /\ i \in Nat /\ at \in Nat
        BY <2>1, InstancesAreNumbered DEF TypeOK
      <4>2. ServesBatch(i)
        BY <2>2, <3>2 DEF ServesBatch, Calling
      <4>3. i < at
        BY <3>2, <4>1, <4>2 DEF Askable
      <4>4. QED
        BY <2>2, <3>2, <4>1, <4>3 DEF PassedOver
    <3>3. QED
      BY <2>1, <3>1, <3>2
  <2>3. CASE a \notin batch
    <3>1. routed[a] = "pool_exhausted"
      BY <2>3
    <3>2. QED
      BY <2>1, <3>1 DEF ExhaustedMeansRefused
  <2>4. QED
    BY <2>2, <2>3
<1>9. QED
  BY <1>1, <1>2, <1>3, <1>4, <1>5, <1>6, <1>7, <1>8 DEF IInv

\* The batch moves on, unpaid.
LEMMA PassOnKeeps == ASSUME IInv, PassOn PROVE IInv'
<1> USE DEF IInv, PassOn, Taken, NoAnswer, routerVars, adapterVars
<1>1. TypeOK'
  <2>1. health' \in [Instances -> Health]
    BY DEF TypeOK, Health
  <2>2. at' \in Nat
    BY DEF TypeOK
  <2>3. refused' \in [Accounts -> SUBSET Instances]
    BY DEF TypeOK, Calling
  <2>4. QED
    BY <2>1, <2>2, <2>3, SameInstances DEF TypeOK, Attempts, Replies
<1>2. Partition'
  BY DEF Partition
<1>3. Calling'
  BY DEF Calling
<1>4. Payment'
  BY DEF Payment
<1>5. Kept'
  BY DEF Kept
<1>6. PassedOver'
  <2> SUFFICES ASSUME NEW j \in Instances, j < at + 1
               PROVE  \/ \A a \in batch : j \in refused'[a]
                      \/ health'[j] # "healthy"
                      \/ \A a \in batch : j \notin Compatible(KindOf[a])
    <3>1. \A a \in batch : Compatible(KindOf[a])' = Compatible(KindOf[a])
      BY SameInstances DEF TypeOK
    <3>2. Instances' = Instances
      BY SameInstances
    <3>3. batch' = batch /\ at' = at + 1
      BY DEF Taken
    <3>4. QED
      BY <3>1, <3>2, <3>3 DEF PassedOver
  <2>1. at \in Nat /\ j \in Nat
    BY InstancesAreNumbered DEF TypeOK
  <2>2. batch \subseteq Accounts
    BY DEF TypeOK
  <2>3. CASE j = at
    BY <2>2, <2>3
  <2>4. CASE j < at
    <3>1. health'[j] = health[j]
      BY <2>1, <2>4 DEF TypeOK
    <3>2. \A a \in batch : refused[a] \subseteq refused'[a]
      BY <2>2
    <3>3. QED
      BY <2>4, <3>1, <3>2 DEF PassedOver
  <2>5. j = at \/ j < at
    BY <2>1
  <2>6. QED
    BY <2>3, <2>4, <2>5
<1>7. EveryAccountAnswered'
  BY DEF EveryAccountAnswered
<1>8. ExhaustedMeansRefused'
  BY ExhaustedStays DEF Payment
<1>9. QED
  BY <1>1, <1>2, <1>3, <1>4, <1>5, <1>6, <1>7, <1>8 DEF IInv

\* An accepted run that failed settles the batch.
LEMMA AcceptedFailedKeeps == ASSUME IInv, AcceptedFailed PROVE IInv'
<1> USE DEF IInv, AcceptedFailed, Route, LeaveBatch, Taken, NoAnswer, routerVars, adapterVars
<1>1. TypeOK'
  BY DEF TypeOK, Instances, Failures, Replies
<1>2. Partition'
  BY DEF Partition, TypeOK
<1>3. Calling'
  BY DEF Calling
<1>4. Payment'
  BY DEF Payment
<1>5. Kept'
  BY DEF Kept, Partition
<1>6. PassedOver'
  BY DEF PassedOver
<1>7. EveryAccountAnswered'
  BY DEF EveryAccountAnswered, TypeOK, Partition
<1>8. ExhaustedMeansRefused'
  BY ExhaustedStays DEF Payment
<1>9. QED
  BY <1>1, <1>2, <1>3, <1>4, <1>5, <1>6, <1>7, <1>8 DEF IInv

\* Corruption ends the call.
LEMMA SchemaAbortKeeps == ASSUME IInv, SchemaAbort PROVE IInv'
<1> USE DEF IInv, SchemaAbort, Abort, Taken, NoAnswer, routerVars, adapterVars
<1>1. TypeOK'
  BY DEF TypeOK, Instances, Replies
<1>2. Partition'
  BY DEF Partition
<1>3. Calling'
  BY DEF Calling
<1>4. Payment'
  BY DEF Payment
<1>5. Kept'
  BY DEF Kept, Calling
<1>6. PassedOver'
  BY DEF PassedOver
<1>7. EveryAccountAnswered'
  BY DEF EveryAccountAnswered
<1>8. ExhaustedMeansRefused'
  BY ExhaustedStays DEF Payment
<1>9. QED
  BY <1>1, <1>2, <1>3, <1>4, <1>5, <1>6, <1>7, <1>8 DEF IInv

\* Accepted outcomes settle the batch.
LEMMA AcceptAnswerKeeps == ASSUME IInv, AcceptAnswer PROVE IInv'
<1> USE DEF IInv, AcceptAnswer, Accept, AcceptedOutcomes, LeaveBatch, Taken, NoAnswer, routerVars, adapterVars
<1>1. TypeOK'
  BY DEF TypeOK, Instances, Failures, Replies, RouteOf
<1>2. Partition'
  BY DEF Partition, TypeOK, RouteOf
<1>3. Calling'
  BY DEF Calling
<1>4. Payment'
  BY DEF Payment, RouteOf
<1>5. Kept'
  BY DEF Kept, TypeOK, Partition, Calling, RouteOf
<1>6. PassedOver'
  BY DEF PassedOver
<1>7. EveryAccountAnswered'
  BY DEF EveryAccountAnswered, TypeOK, Partition
<1>8. ExhaustedMeansRefused'
  BY ExhaustedStays DEF Payment, RouteOf
<1>9. QED
  BY <1>1, <1>2, <1>3, <1>4, <1>5, <1>6, <1>7, <1>8 DEF IInv

\* A corrupt answer ends the call.
LEMMA AcceptCorruptKeeps == ASSUME IInv, AcceptCorrupt PROVE IInv'
<1> USE DEF IInv, AcceptCorrupt, Accept, AcceptedOutcomes, Abort, Taken, NoAnswer, routerVars, adapterVars
<1>1. TypeOK'
  BY DEF TypeOK, Instances, Failures, Replies, RouteOf
<1>2. Partition'
  BY DEF Partition
<1>3. Calling'
  BY DEF Calling
<1>4. Payment'
  BY DEF Payment, RouteOf
<1>5. Kept'
  BY DEF Kept, Calling
<1>6. PassedOver'
  BY DEF PassedOver
<1>7. EveryAccountAnswered'
  BY DEF EveryAccountAnswered
<1>8. ExhaustedMeansRefused'
  BY ExhaustedStays DEF Payment, RouteOf
<1>9. QED
  BY <1>1, <1>2, <1>3, <1>4, <1>5, <1>6, <1>7, <1>8 DEF IInv

\* The call ends when nothing is pending.
LEMMA FinishKeeps == ASSUME IInv, Finish PROVE IInv'
<1> USE DEF IInv, Finish, routerVars, adapterVars
<1>1. TypeOK'
  BY DEF TypeOK, Instances
<1>2. Partition'
  BY DEF Partition
<1>3. Calling'
  BY DEF Calling
<1>4. Payment'
  BY DEF Payment
<1>5. Kept'
  BY DEF Kept, Calling
<1>6. PassedOver'
  BY DEF PassedOver
<1>7. EveryAccountAnswered'
  BY DEF EveryAccountAnswered, TypeOK, Partition, Calling, Kept, Failures
<1>8. ExhaustedMeansRefused'
  BY ExhaustedStays DEF Payment
<1>9. QED
  BY <1>1, <1>2, <1>3, <1>4, <1>5, <1>6, <1>7, <1>8 DEF IInv

\* The adapter answers; whatever it started settles the batch.
LEMMA AnswerKeeps == ASSUME IInv, Answer PROVE IInv'
<1> USE DEF IInv, Answer, CanServe, NoAnswer, routerVars, adapterVars
<1>1. TypeOK'
  <2>1. attempt' \in Attempts
    BY DEF Attempts
  <2>2. runs' \in [Accounts -> Nat]
    BY DEF TypeOK
  <2>3. QED
    BY <2>1, <2>2, SameInstances DEF TypeOK
<1>2. Partition'
  BY DEF Partition
<1>3. Calling'
  BY DEF Calling, Instances, Attempts
<1>4. Payment'
  BY DEF Payment, TypeOK, Partition
<1>5. Kept'
  BY DEF Kept
<1>6. PassedOver'
  <2>1. \A a \in batch : Compatible(KindOf[a])' = Compatible(KindOf[a])
    BY SameInstances DEF TypeOK
  <2>2. QED
    BY <2>1, SameInstances DEF PassedOver
<1>7. EveryAccountAnswered'
  BY DEF EveryAccountAnswered
<1>8. ExhaustedMeansRefused'
  BY ExhaustedStays DEF Partition, Payment
<1>9. QED
  BY <1>1, <1>2, <1>3, <1>4, <1>5, <1>6, <1>7, <1>8 DEF IInv

\* Every step of route keeps the inductive invariant.
LEMMA StepKeeps == ASSUME IInv, [RouterNext]_rvars PROVE IInv'
<1>1. CASE UNCHANGED rvars
  <2>1. \A a \in Accounts : Compatible(KindOf[a])' = Compatible(KindOf[a])
    BY <1>1, SameInstances DEF rvars, routerVars
  <2>2. Instances' = Instances
    BY <1>1, SameInstances DEF rvars, routerVars
  <2>3. TypeOK' /\ Partition' /\ Calling' /\ Payment'
    BY <1>1, <2>2 DEF IInv, TypeOK, Partition, Calling, Payment, rvars,
       routerVars, adapterVars
  <2>4. Kept' /\ EveryAccountAnswered'
    BY <1>1 DEF IInv, Kept, EveryAccountAnswered, rvars, routerVars,
       adapterVars
  <2>5. PassedOver' /\ ExhaustedMeansRefused'
    BY <1>1, <2>1, <2>2 DEF IInv, TypeOK, PassedOver,
       ExhaustedMeansRefused, rvars, routerVars, adapterVars
  <2>6. QED
    BY <2>3, <2>4, <2>5 DEF IInv
<1>2. CASE RouterNext
  BY <1>2, BeginKeeps, RejectRequestsKeeps, TakeBatchKeeps, AskKeeps,
     PoolExhaustedKeeps, PassOnKeeps, AcceptedFailedKeeps, SchemaAbortKeeps,
     AcceptAnswerKeeps, AcceptCorruptKeeps, FinishKeeps, AnswerKeeps
     DEF RouterNext, RouterStep
<1>3. QED
  BY <1>1, <1>2

\* Every reachable state of a route call satisfies the inductive invariant.
THEOREM Invariance == RouterSpec => []IInv
<1>1. IInv /\ [RouterNext]_rvars => IInv'
  BY StepKeeps
<1>2. QED
  BY InitHolds, <1>1, PTL DEF RouterSpec

\* Every variable keeps its type.
THEOREM TypeCorrect == RouterSpec => []TypeOK
<1>1. IInv => TypeOK
  BY DEF IInv
<1>2. QED
  BY Invariance, <1>1, PTL

\* No account is paid for twice in one route call, whatever the adapters answer
\* and however often its batch fails over.
THEOREM NobodyPaidTwice == RouterSpec => []PaidOnce
<1>1. IInv => PaidOnce
  BY DEF IInv, Payment, PaidOnce
<1>2. QED
  BY Invariance, <1>1, PTL

\* A call that was not aborted answers for every account, and hands over posts
\* exactly for those it calls succeeded.
THEOREM AnswersAreComplete == RouterSpec => []EveryAccountAnswered
<1>1. IInv => EveryAccountAnswered
  BY DEF IInv
<1>2. QED
  BY Invariance, <1>1, PTL

\* Exhaustion is reported only when no instance could serve the account, and
\* never after a payment.
THEOREM ExhaustionIsHonest == RouterSpec => []ExhaustedMeansRefused
<1>1. IInv => ExhaustedMeansRefused
  BY DEF IInv
<1>2. QED
  BY Invariance, <1>1, PTL

\* The first account of a set is the one that comes before all others.
LEMMA FirstExists ==
    ASSUME NEW S \in SUBSET Accounts, S # {}
    PROVE  \E m \in S : \A b \in S : m <= b
<1> DEFINE Before(a) == {b \in S : b < a}
           T == {Before(a) : a \in S}
<1>1. IsFiniteSet(S)
  BY FS_Subset
<1>2. T \subseteq SUBSET S /\ T # {}
  OBVIOUS
<1>3. PICK x \in T : \A y \in T : ~(<<y, x>> \in StrictSubsetOrdering(S))
  <2> HIDE DEF T
  <2>1. QED
    BY <1>1, <1>2, FS_FiniteSubsetsOfFinite, FS_StrictSubsetOrderingWellFounded, WFMin
<1>4. PICK m \in S : x = Before(m)
  OBVIOUS
<1>5. ASSUME NEW b \in S, b < m PROVE FALSE
  <2>1. b \in Nat /\ m \in Nat /\ S \subseteq Nat
    OBVIOUS
  <2>2. Before(b) \subseteq x /\ b \in x /\ b \notin Before(b)
    <3>1. ASSUME NEW c \in S, c < b PROVE c < m
      BY <1>5, <2>1, <3>1
    <3>2. ~(b < b)
      BY <2>1
    <3>3. QED
      BY <1>4, <1>5, <3>1, <3>2, Zenon
  <2>3. Before(b) \in SUBSET S /\ x \in SUBSET S /\ Before(b) # x
    BY <1>4, <2>2
  <2>4. <<Before(b), x>> \in StrictSubsetOrdering(S)
    <3> HIDE DEF Before
    <3>1. QED
      BY <2>2, <2>3 DEF StrictSubsetOrdering
  <2>5. QED
    BY <1>3, <2>4
<1>6. \A b \in S : m \in Nat /\ b \in Nat
  OBVIOUS
<1>7. QED
  BY <1>5, <1>6

\* A batch limited to one account is that account; no batch is empty.
LEMMA FirstIsOne ==
    ASSUME NEW S \in SUBSET Accounts, S # {}, NEW n \in Nat \ {0}
    PROVE  /\ FirstOf(S, n) # {}
           /\ n = 1 => \E m \in S : FirstOf(S, n) = {m}
<1>1. PICK m \in S : \A b \in S : m <= b
  BY FirstExists
<1>2. m \in Nat /\ \A b \in S : b \in Nat
  OBVIOUS
<1>3. {b \in S : b < m} = {}
  <2>1. ASSUME NEW b \in S PROVE ~(b < m)
    BY <1>1, <1>2
  <2>2. QED
    BY <2>1, Zenon
<1>4. m \in FirstOf(S, n)
  <2>1. Cardinality({b \in S : b < m}) = 0
    BY <1>3, FS_EmptySet, Zenon
  <2>2. 0 < n
    OBVIOUS
  <2>3. QED
    BY <2>1, <2>2, Zenon DEF FirstOf
<1>5. ASSUME n = 1, NEW a \in FirstOf(S, n) PROVE a = m
  <2>1. a \in S /\ Cardinality({b \in S : b < a}) < 1
    BY <1>5 DEF FirstOf
  <2>2. IsFiniteSet({b \in S : b < a})
    BY FS_Subset
  <2>3. Cardinality({b \in S : b < a}) \in Nat
    BY <2>2, FS_CardinalityType
  <2>4. {b \in S : b < a} = {}
    <3>1. Cardinality({b \in S : b < a}) = 0
      BY <2>1, <2>3
    <3>2. QED
      BY <2>2, <3>1, FS_EmptySet, Zenon
  <2>5. ~(m < a) /\ m <= a /\ m \in Nat /\ a \in Nat
    BY <1>1, <1>2, <2>1, <2>4
  <2>6. QED
    BY <2>5
<1>6. QED
  BY <1>4, <1>5

\* The kind that comes next is that of an account waiting.
LEMMA NextKindIsPending ==
    ASSUME NEW S \in SUBSET Accounts, S # {}
    PROVE  /\ NextKind(S) \in Kinds
           /\ \E a \in S : KindOf[a] = NextKind(S)
  BY DEF NextKind, Kinds

\* A batch on its way is one account, unless all who serve it take batches; and
\* the instance called serves it.
Sized ==
    /\ pc \in {"route", "call"} =>
          \/ \E a \in Accounts : batch = {a}
          \/ \A i \in Instances : ServesBatch(i) => Batching(DriverOf(i))
    /\ pc = "call" => at \in Instances /\ ServesBatch(at)

LEMMA TakeBatchSizes == ASSUME IInv, TakeBatch PROVE Sized'
<1> DEFINE k == NextKind(pending)
           S == {a \in pending : KindOf[a] = k}
<1>1. pending \in SUBSET Accounts /\ pending # {}
  BY DEF IInv, TypeOK, TakeBatch
<1>2. k \in Kinds /\ S # {} /\ S \in SUBSET Accounts
  BY <1>1, NextKindIsPending
<1>3. BatchSize(k) \in Nat \ {0}
  BY DEF BatchSize
<1>4. CASE Compatible(k) = {}
  BY <1>4 DEF TakeBatch, Sized
<1>5. CASE Compatible(k) # {}
  <2>1. /\ batch' = FirstOf(S, BatchSize(k))
        /\ pc' = "route"
        /\ setup' = setup
    BY <1>5 DEF TakeBatch, NextBatch
  <2>2. CASE BatchSize(k) = 1
    <3>1. \E a \in Accounts : batch' = {a}
      <4> HIDE DEF S
      <4>1. \E m \in S : batch' = {m}
        BY <1>2, <2>1, <2>2, FirstIsOne
      <4>2. QED
        BY <1>2, <4>1
    <3>2. QED
      BY <2>1, <3>1 DEF Sized
  <2>3. CASE BatchSize(k) # 1
    <3>1. \A i \in Compatible(k) : Batching(DriverOf(i))
      BY <2>3 DEF BatchSize
    <3>2. PICK a \in batch' : KindOf[a] = k
      <4>1. FirstOf(S, BatchSize(k)) \subseteq S
        BY DEF FirstOf
      <4>2. FirstOf(S, BatchSize(k)) # {}
        <5> HIDE DEF S
        <5>1. QED
          BY <1>2, <1>3, FirstIsOne
      <4>3. QED
        BY <2>1, <4>1, <4>2
    <3>3. ASSUME NEW i \in Instances', ServesBatch(i)' PROVE Batching(DriverOf(i))'
      <4>1. i \in Compatible(k)
        BY <1>2, <2>1, <3>2, <3>3, SameInstances DEF ServesBatch
      <4>2. QED
        BY <2>1, <3>1, <4>1 DEF DriverOf
    <3>4. QED
      BY <2>1, <3>3 DEF Sized
  <2>4. QED
    BY <2>2, <2>3
<1>6. QED
  BY <1>4, <1>5

\* Every step of route keeps the batch fit for those who may be asked.
LEMMA StepSizes == ASSUME IInv, Sized, [RouterNext]_rvars PROVE Sized'
<1> USE DEF IInv
<1>1. CASE TakeBatch
  BY <1>1, TakeBatchSizes
<1>2. CASE Ask
  <2>1. at' \in Askable /\ pc = "route" /\ UNCHANGED <<setup, batch>>
    BY <1>2 DEF Ask
  <2>2. QED
    BY <2>1 DEF Sized, Askable, ServesBatch, Instances, Compatible, DriverOf
<1>3. CASE Answer
  BY <1>3 DEF Answer, routerVars, Sized, ServesBatch, Instances, Compatible, DriverOf
<1>4. CASE PassOn
  BY <1>4 DEF PassOn, Sized, ServesBatch, Instances, Compatible, DriverOf
<1>5. CASE Begin \/ RejectRequests \/ PoolExhausted \/ AcceptedFailed \/ SchemaAbort
           \/ AcceptAnswer \/ AcceptCorrupt \/ Finish
  <2>1. pc' \notin {"route", "call"}
    BY <1>5 DEF Begin, RejectRequests, PoolExhausted, AcceptedFailed, SchemaAbort,
       AcceptAnswer, AcceptCorrupt, Finish, LeaveBatch, Abort
  <2>2. QED
    BY <2>1 DEF Sized
<1>6. CASE UNCHANGED rvars
  BY <1>6 DEF rvars, routerVars, Sized, ServesBatch, Instances, Compatible, DriverOf
<1>7. QED
  BY <1>1, <1>2, <1>3, <1>4, <1>5, <1>6 DEF RouterNext, RouterStep

\* No instance is called with a batch it must refuse: fallback instances that
\* take one account at a time limit the batches of all.
THEOREM BatchesSuit == RouterSpec => []BatchSuitsInstance
<1>1. RouterInit => Sized
  BY DEF RouterInit, Sized
<1>2. Sized => BatchSuitsInstance
  BY FS_Singleton DEF Sized, BatchSuitsInstance, CanServe
<1>3. IInv /\ Sized /\ [RouterNext]_rvars => Sized'
  BY StepSizes
<1>4. QED
  BY Invariance, <1>1, <1>2, <1>3, PTL DEF RouterSpec

\* A disabled instance is never asked again and no outcome is replaced.
THEOREM DecisionsStand == RouterSpec => DecisionsAreFinal
<1> DEFINE Final ==
      /\ \A i \in Instances : health[i] # "healthy" =>
            /\ health'[i] = health[i]
            /\ ~(pc = "route" /\ pc' = "call" /\ at' = i)
      /\ \A a \in Accounts : routed[a] # "none" => routed'[a] = routed[a]
<1>1. ASSUME IInv, [RouterNext]_rvars PROVE [Final]_rvars
  <2>1. CASE UNCHANGED rvars
    BY <2>1
  <2>2. CASE RouterNext
    <3>1. ASSUME NEW i \in Instances, health[i] # "healthy"
          PROVE  health'[i] = health[i]
      <4>1. CASE PassOn
        <5>1. i # at
          BY <1>1, <3>1, <4>1 DEF IInv, Calling, PassOn
        <5>2. QED
          BY <1>1, <3>1, <4>1, <5>1 DEF IInv, TypeOK, PassOn
      <4>2. CASE ~PassOn
        BY <2>2, <4>2 DEF RouterNext, RouterStep, Begin, RejectRequests, TakeBatch,
           Ask, PoolExhausted, AcceptedFailed, SchemaAbort, Abort, AcceptAnswer,
           AcceptCorrupt, Finish, Answer, routerVars
      <4>3. QED
        BY <4>1, <4>2
    <3>2. ASSUME NEW i \in Instances, health[i] # "healthy",
                 pc = "route", pc' = "call", at' = i
          PROVE  FALSE
      <4>1. Ask
        BY <2>2, <3>2 DEF RouterNext, RouterStep, Begin, RejectRequests, TakeBatch,
           PoolExhausted, PassOn, LeaveBatch, AcceptedFailed, SchemaAbort, Abort,
           AcceptAnswer, AcceptCorrupt, Finish, Answer, routerVars
      <4>2. QED
        BY <3>2, <4>1 DEF Ask, Askable
    <3>3. ASSUME NEW a \in Accounts, routed[a] # "none"
          PROVE  routed'[a] = routed[a]
      <4>1. pc # "done"
        BY <2>2 DEF RouterNext, RouterStep, Begin, RejectRequests, TakeBatch,
           Ask, PoolExhausted, PassOn, AcceptedFailed, SchemaAbort,
           AcceptAnswer, AcceptCorrupt, Finish, Answer
      <4>2. a \notin batch /\ a \notin pending
        BY <1>1, <3>3, <4>1 DEF IInv, Partition
      <4>3. CASE TakeBatch
        BY <4>2, <4>3, NextBatchIsUniform DEF TakeBatch, Route
      <4>4. CASE ~TakeBatch
        BY <2>2, <4>2, <4>4 DEF RouterNext, RouterStep, Begin, RejectRequests,
           Ask, PoolExhausted, PassOn, Route, AcceptedFailed, SchemaAbort, Abort,
           AcceptAnswer, AcceptCorrupt, Accept, AcceptedOutcomes, Finish, Answer,
           routerVars
      <4>5. QED
        BY <4>3, <4>4
    <3>4. QED
      BY <3>1, <3>2, <3>3
  <2>3. QED
    BY <1>1, <2>1, <2>2
<1>2. QED
  BY Invariance, <1>1, PTL DEF RouterSpec, DecisionsAreFinal

-----------------------------------------------------------------------------
(***************************************************************************)
(* The clients below the router                                            *)
(***************************************************************************)

LEMMA ReportedAtFirst == Init => Reported
  BY DEF Init, RouterInit, Reported

\* While a client works the router waits, so its steps find every run reported.
LEMMA RouterKeepsReported ==
    ASSUME Reported, RouterStep, UNCHANGED clientVars
    PROVE  Reported'
<1>1. phase = "start"
  BY DEF Reported, RouterStep, Begin, RejectRequests, TakeBatch, Ask, PoolExhausted,
     PassOn, AcceptedFailed, SchemaAbort, AcceptAnswer, AcceptCorrupt, Finish
<1>2. runs' = runs
  BY DEF RouterStep, Begin, RejectRequests, TakeBatch, Ask, PoolExhausted,
     PassOn, AcceptedFailed, SchemaAbort, Abort, AcceptAnswer, AcceptCorrupt,
     Finish, Taken, adapterVars
<1>3. QED
  BY <1>1, <1>2 DEF Reported, clientVars

\* A step that neither returns nor starts a run leaves the router's view alone.
LEMMA StaysReported ==
    ASSUME Reported, phase \in {"await", "fetch"}, started' = started,
           phase' \in {"await", "fetch"}, UNCHANGED rvars
    PROVE  Reported'
  BY DEF Reported, CanServe, DriverOf, rvars, routerVars, adapterVars

\* A step that starts the run and goes on to await it.
LEMMA StartIsReported ==
    ASSUME Reported, phase = "start", pc = "call", attempt = "running", CanServe,
           started' = StartedForBatch, phase' \in {"await", "fetch"}, UNCHANGED rvars
    PROVE  Reported'
  BY DEF Reported, StartedForBatch, CanServe, DriverOf, rvars, routerVars, adapterVars

\* Returning reports whatever was started.
LEMMA ReturnReports ==
    ASSUME NEW r, Return(r)
    PROVE  Reported'
  BY DEF Return, Reported

LEMMA ClientKeepsReported == ASSUME Reported, ClientStep PROVE Reported'
<1> USE DEF ReturnPlain, ReturnOutcome, ReturnPosts, Calls, Go
<1>1. CASE ApifyRefuses
  BY <1>1, ReturnReports DEF ApifyRefuses
<1>2. CASE ApifyStarts
  BY <1>2, ReturnReports, StartIsReported DEF ApifyStarts, rvars
<1>3. CASE ApifyStartLost
  BY <1>3, ReturnReports DEF ApifyStartLost
<1>4. CASE ApifyStartRejected
  BY <1>4, ReturnReports DEF ApifyStartRejected
<1>5. CASE ApifyPolls
  BY <1>5, ReturnReports, StaysReported DEF ApifyPolls, rvars
<1>6. CASE ApifyAwaitEnds
  BY <1>6, ReturnReports, StaysReported DEF ApifyAwaitEnds, rvars
<1>7. CASE ApifyFetches
  BY <1>7, ReturnReports DEF ApifyFetches, AcceptedRunFails
<1>8. CASE BrightDataTriggers
  <2>1. CanServe
    BY <1>8 DEF BrightDataTriggers, CanServe, Batching, BrightData
  <2>2. QED
    BY <1>8, <2>1, ReturnReports, StartIsReported DEF BrightDataTriggers, rvars
<1>9. CASE BrightDataRetries
  BY <1>9 DEF BrightDataRetries, Reported, adapterVars
<1>10. CASE BrightDataTriggerRejected
  BY <1>10, ReturnReports DEF BrightDataTriggerRejected
<1>11. CASE BrightDataTriggerLost
  BY <1>11, ReturnReports DEF BrightDataTriggerLost
<1>12. CASE BrightDataPolls
  BY <1>12, ReturnReports, StaysReported DEF BrightDataPolls, rvars
<1>13. CASE BrightDataTimesOut
  BY <1>13, ReturnReports DEF BrightDataTimesOut
<1>14. CASE BrightDataFetches
  BY <1>14, ReturnReports DEF BrightDataFetches
<1>15. QED
  BY <1>1, <1>2, <1>3, <1>4, <1>5, <1>6, <1>7, <1>8, <1>9, <1>10, <1>11, <1>12,
     <1>13, <1>14 DEF ClientStep

THEOREM RunsAreReported == Spec => []Reported
<1>1. ASSUME Reported, [Next]_vars PROVE Reported'
  <2>1. CASE UNCHANGED vars
    BY <1>1, <2>1 DEF vars, clientVars, rvars, routerVars, adapterVars, Reported,
       CanServe, DriverOf
  <2>2. CASE RouterStep /\ UNCHANGED clientVars
    BY <1>1, <2>2, RouterKeepsReported
  <2>3. CASE ClientStep
    BY <1>1, <2>3, ClientKeepsReported
  <2>4. QED
    BY <1>1, <2>1, <2>2, <2>3 DEF Next
<1>2. QED
  BY ReportedAtFirst, <1>1, PTL DEF Spec

-----------------------------------------------------------------------------
LEMMA ClientStepKeepsTypes == ASSUME ClientTypeOK, ClientStep PROVE ClientTypeOK'
<1> USE ClientsAssumption DEF ClientTypeOK
<1>1. StartedForBatch \in [Accounts -> Nat]
  BY DEF StartedForBatch
<1>2. ASSUME NEW r, Return(r), started' \in [Accounts -> Nat]
      PROVE  ClientTypeOK'
  BY <1>2 DEF Return
<1> USE DEF ReturnPlain, ReturnOutcome, ReturnPosts, Calls, Go
<1>3. CASE ApifyRefuses \/ ApifyStarts \/ ApifyStartLost \/ ApifyStartRejected
  BY <1>1, <1>2, <1>3 DEF ApifyRefuses, ApifyStarts, ApifyStartLost, ApifyStartRejected
<1>4. CASE ApifyPolls
  BY <1>2, <1>4 DEF ApifyPolls
<1>5. CASE ApifyAwaitEnds
  BY <1>2, <1>5 DEF ApifyAwaitEnds
<1>6. CASE ApifyFetches
  BY <1>2, <1>6 DEF ApifyFetches, AcceptedRunFails
<1>7. CASE BrightDataTriggers
  BY <1>1, <1>2, <1>7 DEF BrightDataTriggers
<1>8. CASE BrightDataRetries
  BY <1>8 DEF BrightDataRetries
<1>9. CASE BrightDataTriggerRejected \/ BrightDataTriggerLost
  BY <1>1, <1>2, <1>9 DEF BrightDataTriggerRejected, BrightDataTriggerLost
<1>10. CASE BrightDataPolls
  BY <1>2, <1>10 DEF BrightDataPolls
<1>11. CASE BrightDataTimesOut
  BY <1>2, <1>11 DEF BrightDataTimesOut
<1>12. CASE BrightDataFetches
  BY <1>2, <1>12 DEF BrightDataFetches
<1>13. QED
  BY <1>3, <1>4, <1>5, <1>6, <1>7, <1>8, <1>9, <1>10, <1>11, <1>12 DEF ClientStep

\* The counters of polls and of repeated starts stay within their limits, for any
\* limits (providers/apify/runner.py, providers/brightdata/client.py).
THEOREM ClientTypes == Spec => []ClientTypeOK
<1>1. Init => ClientTypeOK
  BY ClientsAssumption DEF Init, ClientTypeOK
<1>2. ClientTypeOK /\ [Next]_vars => ClientTypeOK'
  <2>1. ASSUME ClientTypeOK, UNCHANGED clientVars PROVE ClientTypeOK'
    BY <2>1 DEF ClientTypeOK, clientVars
  <2>2. QED
    BY <2>1, ClientStepKeepsTypes DEF Next, vars
<1>3. QED
  BY <1>1, <1>2, PTL DEF Spec

-----------------------------------------------------------------------------
\* Any attempt that settles the batch may be returned once the run was started.
LEMMA PaidReturnIsAnswer ==
    ASSUME NEW r \in {"accepted", "schema", "completed"}, Return(r),
           pc = "call", attempt = "running", CanServe,
           started' = [a \in Accounts |-> runs[a] + (IF a \in batch THEN 1 ELSE 0)],
           answer' \in [Accounts -> Replies],
           \A a \in Accounts : a \in batch \/ answer'[a] = "none",
           r # "completed" => answer' = NoAnswer
    PROVE  Answer
  BY DEF Return, Answer

\* Any attempt may be returned when none was started.
LEMMA UnpaidReturnIsAnswer ==
    ASSUME NEW r \in Attempts, Return(r),
           pc = "call", attempt = "running", CanServe \/ r = "schema",
           started' = runs,
           answer' \in [Accounts -> Replies],
           \A a \in Accounts : a \in batch \/ answer'[a] = "none",
           r = "completed" =>
              \A a \in batch : answer'[a] \in {"invalid", "not_found"},
           r # "completed" => answer' = NoAnswer
    PROVE  Answer
  BY DEF Return, Answer

\* With no outcome and with the same outcome for all, the answer has its type.
LEMMA PlainAnswer ==
    /\ NoAnswer \in [Accounts -> Replies]
    /\ \A a \in Accounts : NoAnswer[a] = "none"
  BY DEF NoAnswer, Replies

LEMMA PlainPaid ==
    ASSUME Reported, phase \in {"await", "fetch"}, started' = started,
           NEW r \in {"accepted", "schema"}, ReturnPlain(r)
    PROVE  Answer
  BY PlainAnswer, PaidReturnIsAnswer DEF ReturnPlain, Reported

LEMMA PostsPaid ==
    ASSUME Reported, phase \in {"await", "fetch"}, started' = started, ReturnPosts
    PROVE  Answer
<1>1. answer' \in [Accounts -> Replies]
  BY DEF ReturnPosts, Replies
<1>2. QED
  BY <1>1, PaidReturnIsAnswer DEF ReturnPosts, Reported

LEMMA PlainUnpaid ==
    ASSUME Reported, phase = "start", pc = "call", attempt = "running",
           started' = started, NEW r \in Attempts \ {"completed"},
           CanServe \/ r = "schema", ReturnPlain(r)
    PROVE  Answer
  BY PlainAnswer, UnpaidReturnIsAnswer DEF ReturnPlain, Reported

LEMMA StartedNowPaid ==
    ASSUME Reported, phase = "start", pc = "call", attempt = "running", CanServe,
           started' = StartedForBatch
    PROVE  /\ ReturnPosts => Answer
           /\ \A r \in {"accepted", "schema"} : ReturnPlain(r) => Answer
           /\ ReturnOutcome("invalid") => Answer
<1>1. started' = [a \in Accounts |-> runs[a] + (IF a \in batch THEN 1 ELSE 0)]
  BY DEF StartedForBatch, Reported
<1>2. ASSUME ReturnPosts PROVE Answer
  <2>1. answer' \in [Accounts -> Replies]
    BY <1>2 DEF ReturnPosts, Replies
  <2>2. QED
    BY <1>1, <1>2, <2>1, PaidReturnIsAnswer DEF ReturnPosts
<1>3. ASSUME NEW r \in {"accepted", "schema"}, ReturnPlain(r) PROVE Answer
  BY <1>1, <1>3, PlainAnswer, PaidReturnIsAnswer DEF ReturnPlain
<1>4. ASSUME ReturnOutcome("invalid") PROVE Answer
  <2>1. answer' \in [Accounts -> Replies]
    BY <1>4 DEF ReturnOutcome, Replies
  <2>2. QED
    BY <1>1, <1>4, <2>1, PaidReturnIsAnswer DEF ReturnOutcome
<1>5. QED
  BY <1>2, <1>3, <1>4

\* Every step of a client is hidden from the router or is an answer its
\* contract allows.
LEMMA ClientStepMaps ==
    ASSUME Reported, ClientStep, HidesAcceptance \subseteq Apify,
           batch \subseteq Accounts
    PROVE  UNCHANGED rvars \/ Answer
<1> USE DEF Calls, Go, rvars
<1>1. CASE ApifyRefuses
  BY <1>1, PlainUnpaid DEF ApifyRefuses, Attempts
<1>2. CASE ApifyStarts
  BY <1>2, StartedNowPaid DEF ApifyStarts
<1>3. CASE ApifyStartLost
  <2>1. CASE started' = started
    BY <1>3, <2>1, PlainUnpaid DEF ApifyStartLost, Attempts
  <2>2. CASE started' = StartedForBatch
    BY <1>3, <2>2, StartedNowPaid DEF ApifyStartLost
  <2>3. QED
    BY <1>3, <2>1, <2>2 DEF ApifyStartLost
<1>4. CASE ApifyStartRejected
  BY <1>4, PlainUnpaid DEF ApifyStartRejected, Attempts
<1>5. CASE ApifyPolls
  BY <1>5, PlainPaid DEF ApifyPolls
<1>6. CASE ApifyAwaitEnds
  BY <1>6, PlainPaid DEF ApifyAwaitEnds
<1>7. CASE ApifyFetches
  BY <1>7, PlainPaid, PostsPaid DEF ApifyFetches, AcceptedRunFails
<1>8. CASE BrightDataTriggers
  <2>1. CanServe
    BY <1>8 DEF BrightDataTriggers, CanServe, Batching, BrightData
  <2>2. QED
    BY <1>8, <2>1, StartedNowPaid DEF BrightDataTriggers
<1>9. CASE BrightDataRetries
  BY <1>9 DEF BrightDataRetries
<1>10. CASE BrightDataTriggerRejected
  <2>1. CanServe
    BY <1>10 DEF BrightDataTriggerRejected, CanServe, Batching, BrightData
  <2>2. ASSUME NEW reply \in {"invalid", "not_found"}, ReturnOutcome(reply)
        PROVE  Answer
    <3>1. answer' \in [Accounts -> Replies]
      BY <2>2 DEF ReturnOutcome, Replies
    <3>2. started' = runs
      BY <1>10 DEF BrightDataTriggerRejected, Reported
    <3>3. /\ Return("completed")
          /\ \A a \in Accounts : a \in batch \/ answer'[a] = "none"
          /\ \A a \in batch : answer'[a] \in {"invalid", "not_found"}
      BY <2>2 DEF ReturnOutcome
    <3>4. pc = "call" /\ attempt = "running" /\ "completed" \in Attempts
      BY <1>10 DEF BrightDataTriggerRejected, Attempts
    <3>5. QED
      BY <2>1, <3>1, <3>2, <3>3, <3>4, UnpaidReturnIsAnswer
  <2>3. QED
    BY <1>10, <2>1, <2>2, PlainUnpaid DEF BrightDataTriggerRejected, Attempts
<1>11. CASE BrightDataTriggerLost
  <2>1. started' = started
    BY <1>11 DEF BrightDataTriggerLost, BrightData, Apify
  <2>2. CanServe
    BY <1>11 DEF BrightDataTriggerLost, CanServe, Batching, BrightData
  <2>3. QED
    BY <1>11, <2>1, <2>2, PlainUnpaid DEF BrightDataTriggerLost, Attempts
<1>12. CASE BrightDataPolls
  BY <1>12, PlainPaid DEF BrightDataPolls
<1>13. CASE BrightDataTimesOut
  BY <1>13, PlainPaid DEF BrightDataTimesOut
<1>14. CASE BrightDataFetches
  BY <1>14, PlainPaid, PostsPaid DEF BrightDataFetches
<1>15. QED
  BY <1>1, <1>2, <1>3, <1>4, <1>5, <1>6, <1>7, <1>8, <1>9, <1>10, <1>11, <1>12,
     <1>13, <1>14 DEF ClientStep

\* The clients implement the adapter contract: a run that has been started is
\* never reported as a failure that moves the batch to another instance.
THEOREM ClientsImplementContract ==
    ASSUME HidesAcceptance \subseteq Apify
    PROVE  Spec => ClientsHonourContract
<1>1. Init => RouterInit /\ IInv
  BY InitHolds DEF Init
<1>2. ASSUME IInv, Reported, [Next]_vars PROVE [RouterNext]_rvars
  <2>1. CASE UNCHANGED vars
    BY <2>1 DEF vars
  <2>2. CASE RouterStep /\ UNCHANGED clientVars
    BY <2>2 DEF RouterNext
  <2>3. CASE ClientStep
    <3>1. batch \subseteq Accounts
      BY <1>2 DEF IInv, TypeOK
    <3>2. QED
      BY <1>2, <2>3, <3>1, ClientStepMaps DEF RouterNext
  <2>4. QED
    BY <1>2, <2>1, <2>2, <2>3 DEF Next
<1>3. IInv /\ [RouterNext]_rvars => IInv'
  BY StepKeeps
<1>4. QED
  BY <1>1, <1>2, <1>3, RunsAreReported, PTL DEF Spec, RouterSpec, ClientsHonourContract

\* No account is really paid for twice in a call of route: the router promises
\* it of the runs reported, and only the current batch can have one unreported.
THEOREM NobodyChargedTwice ==
    ASSUME HidesAcceptance \subseteq Apify
    PROVE  Spec => []ChargedOnce
<1>1. IInv /\ Reported => ChargedOnce
  <2> SUFFICES ASSUME IInv, Reported, NEW a \in Accounts
               PROVE  started[a] <= 1
    BY DEF ChargedOnce
  <2>1. runs[a] \in Nat /\ runs[a] <= 1
    BY DEF IInv, TypeOK, Payment
  <2>2. CASE phase = "start"
    BY <2>1, <2>2 DEF Reported
  <2>3. CASE phase \in {"await", "fetch"}
    <3>1. a \in batch => runs[a] = 0
      BY <2>3 DEF IInv, Payment, Reported
    <3>2. QED
      BY <2>1, <2>3, <3>1 DEF Reported
  <2>4. QED
    BY <2>2, <2>3 DEF Reported
<1>2. QED
  BY <1>1, RunsAreReported, ClientsImplementContract, Invariance, PTL
     DEF ClientsHonourContract
=============================================================================
