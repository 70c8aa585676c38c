----------------------------- MODULE PostProofs -----------------------------
(***************************************************************************)
(* Theorems of PostIdentity for answers of any length, and of MediaSlots    *)
(* for posts with any number of media and variants.                        *)
(***************************************************************************)
EXTENDS PostIdentity, MediaSlots, WellFoundedInduction, TLAPS

\* Every set of natural numbers has a least one.
LEMMA LeastNumber ==
    ASSUME NEW S \in SUBSET Nat, S # {}
    PROVE  \E n \in S : \A m \in S : n <= m
<1> DEFINE R == {ss \in Nat \X Nat : ss[1] < ss[2]}
<1>1. IsWellFoundedOn(R, Nat)
  BY NatLessThanWellFounded, Zenon DEF OpToRel
<1>2. PICK n \in S : \A m \in S : ~(<<m, n>> \in R)
  <2> HIDE DEF R
  <2>1. S \subseteq Nat
    OBVIOUS
  <2>2. QED
    BY <1>1, <2>1, WFMin
<1>3. \A m \in S : ~(m < n)
  BY <1>2
<1>4. QED
  BY <1>3

\* Induction, of a set of numbers.
LEMMA SetInduction ==
    ASSUME NEW S, 0 \in S, \A n \in Nat : n \in S => n + 1 \in S
    PROVE  Nat \subseteq S
<1>1. SUFFICES ASSUME NEW k \in Nat, k \notin S PROVE FALSE
  OBVIOUS
<1>2. PICK n \in Nat \ S : \A m \in Nat \ S : n <= m
  BY <1>1, LeastNumber
<1>3. n # 0 /\ n - 1 \in Nat
  OBVIOUS
<1>4. n - 1 \in S
  BY <1>2, <1>3
<1>5. QED
  BY <1>2, <1>3, <1>4

-----------------------------------------------------------------------------
(***************************************************************************)
(* What an answer comes to                                                 *)
(***************************************************************************)

ProviderRecord(r) == r.id \in [number : Nat, urn : BOOLEAN] /\ r.rest \in Nat

IsPost(p) ==
    /\ p = [id |-> p.id, owner |-> p.owner, text |-> p.text, rest |-> p.rest,
            firstSeen |-> p.firstSeen]
    /\ p.id \in [number : Nat, urn : {FALSE}]
    /\ p.rest \in Nat

\* The posts of the first n records, whether these records are accepted, and
\* which of their posts are kept: of each post one with the smallest encoding.
PostsOfFirst(accounts, items, n) == UNION {PostsOf(accounts, items[i]) : i \in 1 .. n}
Agree(posts) == \A p, q \in posts : p.id = q.id => SameHash(p, q)
Smallest(posts) == {p \in posts : \A q \in posts : q.id = p.id => p.rest <= q.rest}
Accepted(accounts, items, n) ==
    /\ \A i \in 1 .. n : PostsOf(accounts, items[i]) # {}
    /\ Agree(PostsOfFirst(accounts, items, n))
Outcome(accounts, items, n) ==
    IF Accepted(accounts, items, n)
    THEN [ok |-> TRUE, posts |-> Smallest(PostsOfFirst(accounts, items, n))]
    ELSE Failed

\* A URL names one account, and a record belongs to one.
LEMMA OneOwner ==
    ASSUME NEW r, NEW a \in OwnerOf(r), NEW b \in OwnerOf(r)
    PROVE  a = b
<1>1. PICK url \in r.urls : a \in Locator(url)
  BY DEF OwnerOf
<1>2. a \in Locator(url) /\ b \in Locator(url)
  BY <1>1 DEF OwnerOf
<1>3. QED
  BY <1>2 DEF Locator

LEMMA PostsOfRecord ==
    ASSUME NEW accounts, NEW r, ProviderRecord(r), NEW p \in PostsOf(accounts, r)
    PROVE  /\ IsPost(p)
           /\ p.firstSeen = now
           /\ p.owner \in accounts
           /\ PostsOf(accounts, r) = {p}
<1>1. PICK a \in OwnerOf(r) \cap accounts :
          p = [id |-> PostId(r.id), owner |-> a, text |-> r.text,
               rest |-> r.rest, firstSeen |-> now]
  BY DEF PostsOf
<1>2. PostId(r.id) \in [number : Nat, urn : {FALSE}]
  BY DEF PostId, ProviderRecord
<1>3. IsPost(p) /\ p.firstSeen = now /\ p.owner \in accounts
  BY <1>1, <1>2 DEF IsPost, ProviderRecord
<1>4. OwnerOf(r) \cap accounts = {a}
  BY <1>1, OneOwner
<1>5. PostsOf(accounts, r) = {p}
  BY <1>1, <1>4 DEF PostsOf
<1>6. QED
  BY <1>3, <1>5

\* Some record of every post has the smallest encoding.
LEMMA SmallestExists ==
    ASSUME NEW posts, \A p \in posts : IsPost(p), NEW p \in posts
    PROVE  \E q \in Smallest(posts) : q.id = p.id
<1> DEFINE same == {q \in posts : q.id = p.id}
           sizes == {q.rest : q \in same}
<1>1. sizes \in SUBSET Nat /\ sizes # {}
  BY DEF IsPost
<1>2. PICK n \in sizes : \A m \in sizes : n <= m
  BY <1>1, LeastNumber
<1>3. PICK q \in same : q.rest = n
  OBVIOUS
<1>4. q \in Smallest(posts)
  BY <1>2, <1>3 DEF Smallest
<1>5. QED
  BY <1>3, <1>4

\* Only one, when they agree about everything else.
LEMMA SmallestIsOne ==
    ASSUME NEW posts, \A p \in posts : IsPost(p) /\ p.firstSeen = now, Agree(posts),
           NEW p \in Smallest(posts), NEW q \in Smallest(posts), p.id = q.id
    PROVE  p = q
<1>1. SameHash(p, q) /\ p.rest <= q.rest /\ q.rest <= p.rest
  BY DEF Smallest, Agree
<1>2. IsPost(p) /\ IsPost(q) /\ p.firstSeen = now /\ q.firstSeen = now
  BY DEF Smallest
<1>3. p.rest = q.rest /\ p.owner = q.owner /\ p.text = q.text
  BY <1>1, <1>2 DEF SameHash, IsPost
<1>4. QED
  BY <1>2, <1>3, Zenon DEF IsPost

\* The posts of one record more.
LEMMA OneMore ==
    ASSUME NEW accounts, NEW items, NEW n \in Nat
    PROVE  /\ PostsOfFirst(accounts, items, n + 1) =
                 PostsOfFirst(accounts, items, n) \cup PostsOf(accounts, items[n + 1])
           /\ Accepted(accounts, items, n + 1) <=>
                 /\ Accepted(accounts, items, n)
                 /\ PostsOf(accounts, items[n + 1]) # {}
                 /\ Agree(PostsOfFirst(accounts, items, n + 1))
<1>1. 1 .. n + 1 = (1 .. n) \cup {n + 1}
  OBVIOUS
<1>2. PostsOfFirst(accounts, items, n + 1) =
          PostsOfFirst(accounts, items, n) \cup PostsOf(accounts, items[n + 1])
  BY <1>1, Zenon DEF PostsOfFirst
<1>3. QED
  BY <1>1, <1>2, Zenon DEF Accepted, Agree

\* A step of the normalisation takes the outcome of n records to that of n + 1.
LEMMA OutcomeStep ==
    ASSUME NEW accounts, NEW items, NEW n \in Nat,
           \A i \in 1 .. n + 1 : ProviderRecord(items[i])
    PROVE  Normalize(accounts, Outcome(accounts, items, n), items[n + 1])
               = Outcome(accounts, items, n + 1)
<1> DEFINE old == PostsOfFirst(accounts, items, n)
           new == PostsOfFirst(accounts, items, n + 1)
           added == PostsOf(accounts, items[n + 1])
<1>1. new = old \cup added
  BY OneMore
<1>2. \A p \in new : IsPost(p) /\ p.firstSeen = now
  BY PostsOfRecord DEF PostsOfFirst
<1>3. Accepted(accounts, items, n + 1) <=>
          Accepted(accounts, items, n) /\ added # {} /\ Agree(new)
  BY OneMore
<1>4. Failed.ok = FALSE
  BY DEF Failed
<1>5. CASE ~Accepted(accounts, items, n)
  BY <1>3, <1>4, <1>5, Zenon DEF Outcome, Normalize
<1>6. CASE Accepted(accounts, items, n) /\ added = {}
  BY <1>3, <1>6, Zenon DEF Outcome, Normalize
<1>7. CASE Accepted(accounts, items, n) /\ added # {}
  <2>1. PICK post \in added : TRUE
    BY <1>7
  <2>2. added = {post} /\ (CHOOSE p \in added : TRUE) = post
    <3>1. ProviderRecord(items[n + 1])
      OBVIOUS
    <3>2. added = {post}
      BY <2>1, <3>1, PostsOfRecord
    <3>3. QED
      BY <3>2
  <2> DEFINE kept == Smallest(old)
             same == {q \in kept : q.id = post.id}
  <2>3. Outcome(accounts, items, n) = [ok |-> TRUE, posts |-> kept]
    BY <1>7, Zenon DEF Outcome
  <2>4. Normalize(accounts, Outcome(accounts, items, n), items[n + 1]) =
            IF \E q \in same : ~SameHash(q, post) THEN Failed
            ELSE IF \A q \in same : Prefer(post, q)
            THEN [ok |-> TRUE, posts |-> (kept \ same) \cup {post}]
            ELSE [ok |-> TRUE, posts |-> kept]
    <3> DEFINE sofar == Outcome(accounts, items, n)
    <3>1. sofar.ok /\ sofar.posts = kept /\ sofar = [ok |-> TRUE, posts |-> kept]
      BY <2>3
    <3> HIDE DEF kept, sofar
    <3>2. Normalize(accounts, sofar, items[n + 1]) =
            IF \E q \in same : ~SameHash(q, post) THEN Failed
            ELSE IF \A q \in same : Prefer(post, q)
            THEN [ok |-> TRUE, posts |-> (kept \ same) \cup {post}]
            ELSE sofar
      BY <1>7, <2>2, <3>1, Zenon DEF Normalize
    <3>3. QED
      BY <3>1, <3>2 DEF sofar
  <2>5. Agree(old)
    BY <1>7 DEF Accepted
  <2>6. (\E q \in same : ~SameHash(q, post)) <=> ~Agree(new)
    <3>1. ASSUME NEW q \in same, ~SameHash(q, post) PROVE ~Agree(new)
      BY <1>1, <2>2, <3>1 DEF Agree, Smallest
    <3>2. ASSUME \A q \in same : SameHash(q, post) PROVE Agree(new)
      <4>1. ASSUME NEW p \in old, p.id = post.id PROVE SameHash(p, post)
        <5>1. PICK q \in kept : q.id = p.id
          BY <1>1, <1>2, SmallestExists
        <5>2. SameHash(p, q) /\ SameHash(q, post)
          BY <2>5, <3>2, <4>1, <5>1 DEF Agree, Smallest
        <5>3. QED
          BY <5>2 DEF SameHash
      <4>2. QED
        BY <1>1, <2>2, <2>5, <4>1 DEF Agree, SameHash
    <3>3. QED
      BY <3>1, <3>2
  <2>7. ASSUME Agree(new), \A q \in same : Prefer(post, q)
        PROVE  Smallest(new) = (kept \ same) \cup {post}
    <3>1. ASSUME NEW p \in old, p.id = post.id PROVE post.rest < p.rest
      <4>1. PICK q \in kept : q.id = p.id
        BY <1>1, <1>2, SmallestExists
      <4>2. post.rest < q.rest /\ q.rest <= p.rest
        BY <2>7, <3>1, <4>1 DEF Prefer, Smallest
      <4>3. IsPost(p) /\ IsPost(q) /\ IsPost(post)
        BY <1>1, <1>2, <4>1 DEF Smallest
      <4>4. QED
        BY <4>2, <4>3 DEF IsPost
    <3>2. \A p \in new : p.rest \in Nat
      BY <1>2 DEF IsPost
    <3>3. post \in Smallest(new)
      BY <1>1, <2>2, <3>1, <3>2 DEF Smallest
    <3>4. ASSUME NEW p \in old, p.id # post.id
          PROVE  p \in Smallest(new) <=> p \in kept
      BY <1>1, <2>2, <3>4 DEF Smallest
    <3>5. ASSUME NEW p \in old, p.id = post.id
          PROVE  p \notin Smallest(new) \/ p = post
      BY <1>1, <2>2, <3>1, <3>2, <3>5 DEF Smallest
    <3>6. Smallest(new) \subseteq old \cup {post} /\ kept \subseteq old
      BY <1>1, <2>2 DEF Smallest
    <3>7. QED
      <4> HIDE DEF kept, new, old
      <4>1. QED
        BY <3>3, <3>4, <3>5, <3>6
  <2>8. ASSUME Agree(new), ~\A q \in same : Prefer(post, q)
        PROVE  Smallest(new) = kept
    <3>1. PICK q \in same : q.rest <= post.rest
      <4>1. PICK q \in same : ~(post.rest < q.rest)
        BY <2>8 DEF Prefer
      <4>2. IsPost(q) /\ IsPost(post)
        BY <1>1, <1>2 DEF Smallest
      <4>3. QED
        BY <4>1, <4>2 DEF IsPost
    <3>2. \A p \in new : p.rest \in Nat
      BY <1>2 DEF IsPost
    <3>3. q \in Smallest(new)
      BY <1>1, <2>2, <3>1, <3>2 DEF Smallest
    <3>4. post \in Smallest(new) => post = q
      BY <1>2, <2>8, <3>1, <3>3, SmallestIsOne
    <3>5. ASSUME NEW p \in old PROVE p \in Smallest(new) <=> p \in kept
      <4>1. CASE p.id # post.id
        BY <1>1, <2>2, <4>1 DEF Smallest
      <4>2. CASE p.id = post.id
        BY <1>1, <2>2, <3>1, <3>2, <4>2 DEF Smallest
      <4>3. QED
        BY <4>1, <4>2
    <3>6. Smallest(new) \subseteq old \cup {post} /\ kept \subseteq old /\ q \in kept
      BY <1>1, <2>2 DEF Smallest
    <3>7. QED
      <4> HIDE DEF kept, new, old
      <4>1. QED
        BY <3>4, <3>5, <3>6
  <2>9. Outcome(accounts, items, n + 1) =
            IF Agree(new) THEN [ok |-> TRUE, posts |-> Smallest(new)] ELSE Failed
    BY <1>3, <1>7, Zenon DEF Outcome
  <2>10. QED
    <3> HIDE DEF new, kept, same
    <3>1. CASE ~Agree(new)
      BY <2>4, <2>6, <2>9, <3>1
    <3>2. CASE Agree(new) /\ \A q \in same : Prefer(post, q)
      BY <2>4, <2>6, <2>7, <2>9, <3>2
    <3>3. CASE Agree(new) /\ ~\A q \in same : Prefer(post, q)
      BY <2>4, <2>6, <2>8, <2>9, <3>3
    <3>4. QED
      BY <3>1, <3>2, <3>3
<1>8. QED
  BY <1>5, <1>6, <1>7

\* normalize_posts is what Outcome says, whatever the number of records.
LEMMA NormalizedIsOutcome ==
    ASSUME NEW accounts, NEW items, Len(items) \in Nat,
           \A i \in 1 .. Len(items) : ProviderRecord(items[i])
    PROVE  Normalized(accounts, items) = Outcome(accounts, items, Len(items))
<1> DEFINE N == Len(items)
           After(f) == f = [n \in 0 .. N |->
                               IF n = 0 THEN [ok |-> TRUE, posts |-> {}]
                               ELSE Normalize(accounts, f[n - 1], items[n])]
           g == [n \in 0 .. N |-> Outcome(accounts, items, n)]
           after == NormalizedFirst(accounts, items)
<1>1. Outcome(accounts, items, 0) = [ok |-> TRUE, posts |-> {}]
  <2>1. 1 .. 0 = {}
    OBVIOUS
  <2>2. PostsOfFirst(accounts, items, 0) = {}
    BY <2>1, Zenon DEF PostsOfFirst
  <2>3. Accepted(accounts, items, 0) /\ Smallest(PostsOfFirst(accounts, items, 0)) = {}
    BY <2>1, <2>2, Zenon DEF Accepted, Agree, Smallest
  <2>4. QED
    BY <2>2, <2>3, Zenon DEF Outcome
<1>2. ASSUME NEW n \in 1 .. N
      PROVE  Outcome(accounts, items, n) =
                 Normalize(accounts, Outcome(accounts, items, n - 1), items[n])
  <2>1. n - 1 \in Nat /\ (n - 1) + 1 = n /\ \A i \in 1 .. n : i \in 1 .. N
    OBVIOUS
  <2>2. \A i \in 1 .. (n - 1) + 1 : ProviderRecord(items[i])
    BY <2>1
  <2>3. QED
    BY <2>1, <2>2, OutcomeStep
<1>3. After(g)
  <2> HIDE DEF N
  <2>1. N \in Nat
    BY DEF N
  <2>2. \A n \in 0 .. N : g[n] = IF n = 0 THEN [ok |-> TRUE, posts |-> {}]
                                  ELSE Normalize(accounts, g[n - 1], items[n])
    BY <1>1, <1>2, <2>1
  <2>3. QED
    BY <2>2
<1>4. After(after)
  <2>1. \E f : After(f)
    BY <1>3
  <2>2. after = CHOOSE f : After(f)
    BY DEF NormalizedFirst
  <2> HIDE DEF After, after
  <2>3. QED
    BY <2>1, <2>2
<1> DEFINE S == {n \in Nat : n <= N => after[n] = Outcome(accounts, items, n)}
<1>5. 0 \in S
  <2> HIDE DEF after
  <2>1. after[0] = [ok |-> TRUE, posts |-> {}]
    BY <1>4
  <2>2. QED
    BY <1>1, <2>1
<1>6. ASSUME NEW n \in Nat, n \in S PROVE n + 1 \in S
  <2> SUFFICES ASSUME n + 1 <= N PROVE after[n + 1] = Outcome(accounts, items, n + 1)
    OBVIOUS
  <2>1. n + 1 \in 1 .. N /\ n + 1 \in 0 .. N /\ n + 1 # 0 /\ (n + 1) - 1 = n /\ n <= N
    OBVIOUS
  <2>2. after[n] = Outcome(accounts, items, n)
    BY <1>6, <2>1
  <2> HIDE DEF after
  <2>3. after[n + 1] = Normalize(accounts, after[n], items[n + 1])
    BY <1>4, <2>1
  <2>4. QED
    BY <1>2, <2>1, <2>2, <2>3
<1>7. N \in S
  <2> HIDE DEF S
  <2>1. QED
    BY <1>5, <1>6, SetInduction
<1>8. QED
  BY <1>7 DEF Normalized

\* What an answer comes to is a matter of the set of its records.
LEMMA SetOfRecordsDecides ==
    ASSUME NEW accounts, NEW items, NEW others,
           Len(items) \in Nat, Len(others) \in Nat,
           \A i \in 1 .. Len(items) : ProviderRecord(items[i]),
           \A i \in 1 .. Len(items) : \E j \in 1 .. Len(others) : others[j] = items[i],
           \A j \in 1 .. Len(others) : \E i \in 1 .. Len(items) : items[i] = others[j]
    PROVE  Normalized(accounts, items) = Normalized(accounts, others)
<1>1. \A i \in 1 .. Len(others) : ProviderRecord(others[i])
  OBVIOUS
<1>2. PostsOfFirst(accounts, items, Len(items)) = PostsOfFirst(accounts, others, Len(others))
  BY DEF PostsOfFirst
<1>3. (\A i \in 1 .. Len(items) : PostsOf(accounts, items[i]) # {})
        <=> (\A i \in 1 .. Len(others) : PostsOf(accounts, others[i]) # {})
  BY Zenon
<1>4. Outcome(accounts, items, Len(items)) = Outcome(accounts, others, Len(others))
  BY <1>2, <1>3, Zenon DEF Outcome, Accepted
<1>5. QED
  BY <1>1, <1>4, NormalizedIsOutcome

-----------------------------------------------------------------------------
(***************************************************************************)
(* Posts keep their identity                                               *)
(***************************************************************************)

\* Posts with canonical ids, one of each id.
OneOfEach(posts) ==
    /\ \A p \in posts : IsPost(p)
    /\ \A p, q \in posts : p.id = q.id => p = q

IdentityInv ==
    /\ platform \in {"linkedin", "x"}
    /\ Len(records) \in Nat
    /\ \A i \in 1 .. Len(records) : ProviderRecord(records[i])
    /\ OneOfEach(collected)
    /\ OneOfEach(published)

\* What a step that asks for no records has to show.
LEMMA InvStays ==
    ASSUME IdentityInv, UNCHANGED platform, records' = <<>> \/ records' = records,
           OneOfEach(collected'), OneOfEach(published')
    PROVE  IdentityInv'
<1>1. Len(records') \in Nat /\ \A i \in 1 .. Len(records') : ProviderRecord(records'[i])
  BY DEF IdentityInv
<1>2. platform' \in {"linkedin", "x"}
  BY DEF IdentityInv
<1>3. QED
  BY <1>1, <1>2 DEF IdentityInv

LEMMA IdentityAsks == IdentityInv /\ AskProvider => IdentityInv'
<1> SUFFICES ASSUME IdentityInv, AskProvider PROVE IdentityInv'
  OBVIOUS
<1>1. PICK k \in Nat : records' \in [1 .. k -> Records[platform]]
  BY RecordsAssumption DEF AskProvider, Answers
<1>2. Len(records') = k /\ \A i \in 1 .. k : records'[i] \in Records[platform]
  BY <1>1
<1>3. \A i \in 1 .. k : ProviderRecord(records'[i])
  BY <1>2, RecordsAssumption DEF ProviderRecord, IdentityInv
<1>4. UNCHANGED <<platform, collected, published>>
  BY DEF AskProvider
<1>5. OneOfEach(collected') /\ OneOfEach(published')
  BY <1>4 DEF IdentityInv
<1>6. platform' \in {"linkedin", "x"}
  BY <1>4 DEF IdentityInv
<1>7. QED
  BY <1>2, <1>3, <1>5, <1>6 DEF IdentityInv

\* The posts of an answer.
LEMMA AnswerIsOneOfEach ==
    ASSUME IdentityInv, AnswerPosts.ok
    PROVE  OneOfEach(AnswerPosts.posts)
<1> DEFINE posts == PostsOfFirst(asked, records, Len(records))
<1>1. AnswerPosts = Outcome(asked, records, Len(records))
  BY NormalizedIsOutcome DEF AnswerPosts, IdentityInv
<1>2. Accepted(asked, records, Len(records))
  BY <1>1 DEF Outcome, Failed
<1>3. \A p \in posts : IsPost(p) /\ p.firstSeen = now
  BY PostsOfRecord DEF PostsOfFirst, IdentityInv
<1>4. Agree(posts)
  BY <1>2 DEF Accepted
<1>5. AnswerPosts.posts = Smallest(posts)
  BY <1>1, <1>2 DEF Outcome
<1> HIDE DEF posts
<1>6. OneOfEach(Smallest(posts))
  BY <1>3, <1>4, SmallestIsOne DEF OneOfEach, Smallest
<1>7. QED
  BY <1>5, <1>6

LEMMA IdentityTakesIn == IdentityInv /\ TakeIn => IdentityInv'
<1> SUFFICES ASSUME IdentityInv, TakeIn PROVE IdentityInv'
  OBVIOUS
<1>1. OneOfEach(AnswerPosts.posts) /\ OneOfEach(collected)
  BY AnswerIsOneOfEach DEF TakeIn, IdentityInv
<1>2. collected' = collected \cup {q \in AnswerPosts.posts : \A p \in collected : p.id # q.id}
  BY DEF TakeIn
<1>3. OneOfEach(collected')
  <2> DEFINE new == AnswerPosts.posts
  <2>1. OneOfEach(new) /\ collected' = collected \cup {q \in new : \A p \in collected : p.id # q.id}
    BY <1>1, <1>2
  <2> HIDE DEF new
  <2>2. QED
    BY <1>1, <2>1 DEF OneOfEach
<1>4. UNCHANGED <<platform, published>> /\ records' = <<>>
  BY DEF TakeIn
<1>5. OneOfEach(published')
  BY <1>4 DEF IdentityInv
<1>6. QED
  BY <1>3, <1>4, <1>5, InvStays

\* What a merge makes of a post of the run.
Merged(q) ==
    [q EXCEPT !.firstSeen =
        IF \E p \in published : p.id = q.id
        THEN (CHOOSE p \in published : p.id = q.id).firstSeen ELSE @]

LEMMA MergedIsPost ==
    ASSUME NEW q, IsPost(q)
    PROVE  /\ IsPost(Merged(q))
           /\ Merged(q).id = q.id /\ Merged(q).owner = q.owner
           /\ \A p \in published : p.id = q.id /\ OneOfEach(published) =>
                  Merged(q).firstSeen = p.firstSeen
<1>1. q = [id |-> q.id, owner |-> q.owner, text |-> q.text, rest |-> q.rest,
           firstSeen |-> q.firstSeen]
  BY DEF IsPost
<1> DEFINE t == IF \E p \in published : p.id = q.id
                THEN (CHOOSE p \in published : p.id = q.id).firstSeen ELSE q.firstSeen
<1>2. Merged(q) = [id |-> q.id, owner |-> q.owner, text |-> q.text, rest |-> q.rest,
                   firstSeen |-> t]
  BY <1>1 DEF Merged
<1>3. ASSUME NEW p \in published, p.id = q.id, OneOfEach(published)
      PROVE  t = p.firstSeen
  BY <1>3 DEF OneOfEach
<1> HIDE DEF t
<1>4. /\ Merged(q).id = q.id /\ Merged(q).owner = q.owner /\ Merged(q).text = q.text
      /\ Merged(q).rest = q.rest /\ Merged(q).firstSeen = t
  BY <1>2
<1>5. IsPost(Merged(q))
  BY <1>2, <1>4 DEF IsPost
<1>6. QED
  BY <1>3, <1>4, <1>5

LEMMA IdentityMerges ==
    ASSUME IdentityInv, Merge
    PROVE  /\ IdentityInv'
           /\ \A p \in published : \E q \in published' :
                 q.id = p.id /\ q.owner = p.owner /\ q.firstSeen = p.firstSeen
<1> DEFINE kept == {p \in published : \A q \in collected : q.id # p.id}
<1>1. published' = kept \cup {Merged(q) : q \in collected}
  BY DEF Merge, Merged
<1>2. OneOfEach(published) /\ OneOfEach(collected)
  BY DEF IdentityInv
<1>3. \A q \in collected :
          /\ IsPost(Merged(q))
          /\ Merged(q).id = q.id /\ Merged(q).owner = q.owner
          /\ \A p \in published : p.id = q.id => Merged(q).firstSeen = p.firstSeen
  BY <1>2, MergedIsPost DEF OneOfEach
<1>4. OneOfEach(published')
  BY <1>1, <1>2, <1>3 DEF OneOfEach
<1>5. UNCHANGED platform /\ records' = <<>> /\ collected' = {}
  BY DEF Merge, RunEnds
<1>6. IdentityInv'
  <2>1. OneOfEach(collected')
    BY <1>5 DEF OneOfEach
  <2>2. QED
    BY <1>4, <1>5, <2>1, InvStays
<1>7. ASSUME NEW p \in published
      PROVE  \E q \in published' :
                 q.id = p.id /\ q.owner = p.owner /\ q.firstSeen = p.firstSeen
  <2>1. CASE p \in kept
    BY <1>1, <2>1
  <2>2. ASSUME NEW q \in collected, q.id = p.id
        PROVE  \E r \in published' :
                   r.id = p.id /\ r.owner = p.owner /\ r.firstSeen = p.firstSeen
    <3>1. p.owner = q.owner
      BY <2>2 DEF Merge, OwnershipConflict
    <3>2. QED
      BY <1>1, <1>3, <2>2, <3>1
  <2>3. QED
    BY <2>1, <2>2
<1>8. QED
  BY <1>6, <1>7

LEMMA IdentityStep ==
    ASSUME IdentityInv, [IdentityNext]_identityVars
    PROVE  /\ IdentityInv'
           /\ \A p \in published : \E q \in published' :
                 q.id = p.id /\ q.owner = p.owner /\ q.firstSeen = p.firstSeen
<1>1. OneOfEach(collected) /\ OneOfEach(published)
  BY DEF IdentityInv
<1>2. OneOfEach({})
  BY DEF OneOfEach
<1>3. CASE RunBegins
  BY <1>1, <1>3, InvStays DEF RunBegins
<1>4. CASE AskProvider
  BY <1>4, IdentityAsks DEF AskProvider
<1>5. CASE TakeIn
  BY <1>5, IdentityTakesIn DEF TakeIn
<1>6. CASE SchemaAborts
  BY <1>1, <1>2, <1>6, InvStays DEF SchemaAborts, RunEnds
<1>7. CASE Merge
  BY <1>7, IdentityMerges
<1>8. CASE MergeAborts
  BY <1>1, <1>2, <1>8, InvStays DEF MergeAborts, RunEnds
<1>9. CASE UNCHANGED identityVars
  BY <1>1, <1>9, InvStays DEF identityVars
<1>10. QED
  BY <1>3, <1>4, <1>5, <1>6, <1>7, <1>8, <1>9 DEF IdentityNext

\* Every state of a service has one post of each canonical id, collected in the
\* run and published.
THEOREM IdentityInvariance == IdentitySpec => []IdentityInv
<1>1. IdentityInit => IdentityInv
  BY DEF IdentityInit, IdentityInv, OneOfEach
<1>2. IdentityInv /\ [IdentityNext]_identityVars => IdentityInv'
  BY IdentityStep
<1>3. QED
  BY <1>1, <1>2, PTL DEF IdentitySpec

\* One post is one post of the snapshot, and its owner and the time it was first
\* seen never change (storage/merge.py, platforms/).
THEOREM IdentityKept == IdentitySpec => PostsKeepTheirIdentity
<1> DEFINE One == \A p, q \in published : p.id.number = q.id.number => p = q
           Keeps == \A p \in published : \E q \in published' :
                       q.id = p.id /\ q.owner = p.owner /\ q.firstSeen = p.firstSeen
<1>1. IdentityInv => One
  <2> SUFFICES ASSUME IdentityInv, NEW p \in published, NEW q \in published,
                      p.id.number = q.id.number
               PROVE  p = q
    OBVIOUS
  <2>1. p.id \in [number : Nat, urn : {FALSE}] /\ q.id \in [number : Nat, urn : {FALSE}]
    BY DEF IdentityInv, OneOfEach, IsPost
  <2>2. p.id = [number |-> p.id.number, urn |-> FALSE]
        /\ q.id = [number |-> q.id.number, urn |-> FALSE]
    BY <2>1
  <2>3. p.id = q.id
    BY <2>2
  <2>4. QED
    BY <2>3 DEF IdentityInv, OneOfEach
<1>2. IdentityInv /\ [IdentityNext]_identityVars => [Keeps]_identityVars
  BY IdentityStep
<1> HIDE DEF One, Keeps
<1>3. IdentitySpec => []One /\ [][Keeps]_identityVars
  BY <1>1, <1>2, IdentityInvariance, PTL DEF IdentitySpec
<1>4. QED
  BY <1>3 DEF PostsKeepTheirIdentity, One, Keeps

\* An answer comes to the same whatever the order of its records (normalize_posts
\* of each provider).
THEOREM OrderIsIrrelevant == IdentitySpec => []OrderDoesNotMatter
<1>1. IdentityInv => OrderDoesNotMatter
  <2> SUFFICES ASSUME IdentityInv, NEW order \in Orders(Len(records))
               PROVE  Normalized(asked, [i \in 1 .. Len(records) |-> records[order[i]]])
                          = Normalized(asked, records)
    BY DEF OrderDoesNotMatter
  <2> DEFINE others == [i \in 1 .. Len(records) |-> records[order[i]]]
  <2>1. Len(records) \in Nat /\ \A i \in 1 .. Len(records) : ProviderRecord(records[i])
    BY DEF IdentityInv
  <2>2. Len(others) = Len(records)
    BY <2>1
  <2>3. \A i \in 1 .. Len(records) : order[i] \in 1 .. Len(records)
    BY DEF Orders
  <2>4. \A i \in 1 .. Len(records) : \E j \in 1 .. Len(records) : order[j] = i
    BY DEF Orders
  <2>5. \A i \in 1 .. Len(records) : others[i] = records[order[i]]
    OBVIOUS
  <2> HIDE DEF others
  <2>6. ASSUME NEW i \in 1 .. Len(records)
        PROVE  \E j \in 1 .. Len(others) : others[j] = records[i]
    <3>1. PICK j \in 1 .. Len(records) : order[j] = i
      BY <2>4
    <3>2. others[j] = records[i]
      BY <2>5, <3>1
    <3>3. QED
      BY <2>2, <3>2
  <2>7. \A j \in 1 .. Len(others) : \E i \in 1 .. Len(records) : records[i] = others[j]
    BY <2>2, <2>3, <2>5
  <2>8. Normalized(asked, records) = Normalized(asked, others)
    BY <2>1, <2>2, <2>6, <2>7, SetOfRecordsDecides
  <2>9. QED
    BY <2>8 DEF others
<1>2. QED
  BY <1>1, IdentityInvariance, PTL

-----------------------------------------------------------------------------
(***************************************************************************)
(* Largest and preferred elements                                          *)
(***************************************************************************)

LEMMA LargestIsLargest ==
    ASSUME NEW k \in Nat, NEW S \in SUBSET (0 .. k), S # {}
    PROVE  /\ LargestOf(S) \in S
           /\ \A n \in S : n <= LargestOf(S)
<1> DEFINE T == {k - n : n \in S}
<1>1. T \in SUBSET Nat /\ T # {}
  <2>1. \A n \in S : k - n \in Nat
    OBVIOUS
  <2>2. QED
    BY <2>1
<1>2. PICK t \in T : \A u \in T : t <= u
  BY <1>1, LeastNumber
<1>3. PICK n \in S : t = k - n
  OBVIOUS
<1>4. \A m \in S : k - m \in T
  OBVIOUS
<1>5. \A m \in S : m <= n
  <2> HIDE DEF T
  <2>1. QED
    BY <1>2, <1>3, <1>4
<1>6. QED
  BY <1>5, Zenon DEF LargestOf

\* A total and transitive relation on some of the first numbers has a best one.
LEMMA BestExists ==
    ASSUME NEW R, NEW N \in Nat,
           \A i, j \in 1 .. N : <<i, j>> \in R \/ <<j, i>> \in R,
           \A i, j, k \in 1 .. N : <<i, j>> \in R /\ <<j, k>> \in R => <<i, k>> \in R,
           NEW T \in SUBSET (1 .. N), T # {}
    PROVE  \E i \in T : \A j \in T : <<i, j>> \in R
<1> DEFINE Has(n) == \A U \in SUBSET (1 .. n) : U # {} => \E i \in U : \A j \in U : <<i, j>> \in R
           S == {n \in Nat : n <= N => Has(n)}
<1>1. 0 \in S
  <2>1. 1 .. 0 = {}
    OBVIOUS
  <2>2. Has(0)
    BY <2>1, Zenon
  <2>3. QED
    BY <2>2, Zenon
<1>2. ASSUME NEW n \in Nat, n \in S PROVE n + 1 \in S
  <2> SUFFICES ASSUME n + 1 <= N, NEW U \in SUBSET (1 .. n + 1), U # {}
               PROVE  \E i \in U : \A j \in U : <<i, j>> \in R
    <3>1. n + 1 \in Nat
      OBVIOUS
    <3>2. QED
      BY <3>1, Zenon
  <2>1. Has(n) /\ n + 1 \in 1 .. N
    BY <1>2
  <2>2. U \ {n + 1} \in SUBSET (1 .. n) /\ U \subseteq 1 .. N
    OBVIOUS
  <2>3. CASE U \ {n + 1} = {}
    BY <2>1, <2>3
  <2>4. CASE U \ {n + 1} # {}
    <3>1. PICK i \in U \ {n + 1} : \A j \in U \ {n + 1} : <<i, j>> \in R
      BY <2>1, <2>2, <2>4
    <3>2. CASE <<i, n + 1>> \in R
      BY <3>1, <3>2
    <3>3. CASE <<n + 1, i>> \in R
      <4>1. \A j \in U \ {n + 1} : <<n + 1, j>> \in R
        BY <2>1, <2>2, <3>1, <3>3
      <4>2. <<n + 1, n + 1>> \in R
        BY <2>1
      <4>3. CASE n + 1 \in U
        BY <4>1, <4>2, <4>3
      <4>4. CASE n + 1 \notin U
        BY <3>1, <4>4
      <4>5. QED
        BY <4>3, <4>4
    <3>4. QED
      BY <2>1, <2>2, <3>1, <3>2, <3>3
  <2>5. QED
    BY <2>3, <2>4
<1>3. N \in S
  <2> HIDE DEF S
  <2>1. QED
    BY <1>1, <1>2, SetInduction
<1>4. QED
  BY <1>3

-----------------------------------------------------------------------------
(***************************************************************************)
(* The media of an X post                                                  *)
(***************************************************************************)

\* What a URL of the snapshot may be, and the items it may hold.
OwnedUrls == [scope : Scopes, index : Nat]
AnyUrls == URLs \cup OwnedUrls
AnyVariants == [playable : BOOLEAN, url : AnyUrls, bitrate : Int]
AnyItems ==
    [type : {"photo", "video"}, mediaUrl : AnyUrls, variants : Seq(AnyVariants)]
      \cup {NoItem}

Choices(variants) == {i \in DOMAIN variants : variants[i].playable /\ variants[i].url # NoUrl}

LEMMA OwnedIsOwned ==
    ASSUME NEW url \in AnyUrls
    PROVE  IsOwned(url) <=> url \in OwnedUrls
  BY SlotsAssumption DEF IsOwned, AnyUrls, OwnedUrls, URLs

\* Of the variants that can be archived there is one that is preferred.
LEMMA SelectedIsPreferred ==
    ASSUME NEW variants \in Seq(AnyVariants), Choices(variants) # {}
    PROVE  LET s == SelectedVariant(variants)
           IN  /\ s \in Choices(variants)
               /\ s # 0
               /\ \A j \in Choices(variants) : Preferred(variants[s], s, variants[j], j)
<1> DEFINE N == Len(variants)
           R == {ij \in (1 .. N) \X (1 .. N) :
                    Preferred(variants[ij[1]], ij[1], variants[ij[2]], ij[2])}
<1>1. N \in Nat /\ DOMAIN variants = 1 .. N /\ \A i \in 1 .. N : variants[i].bitrate \in Int
  <2>1. N \in Nat /\ DOMAIN variants = 1 .. N /\ \A i \in 1 .. N : variants[i] \in AnyVariants
    OBVIOUS
  <2>2. \A v \in AnyVariants : v.bitrate \in Int
    BY DEF AnyVariants
  <2>3. QED
    BY <2>1, <2>2
<1>2. \A i, j \in 1 .. N : <<i, j>> \in R <=> Preferred(variants[i], i, variants[j], j)
  OBVIOUS
<1> DEFINE owned(i) == IsOwned(variants[i].url)
           rate(i) == variants[i].bitrate
<1>3. ASSUME NEW i \in 1 .. N, NEW j \in 1 .. N
      PROVE  Preferred(variants[i], i, variants[j], j) <=>
                 \/ owned(i) /\ ~owned(j)
                 \/ /\ owned(i) = owned(j)
                    /\ rate(i) > rate(j) \/ (rate(i) = rate(j) /\ i <= j)
  BY Zenon DEF Preferred
<1>4. /\ \A i, j \in 1 .. N : <<i, j>> \in R \/ <<j, i>> \in R
      /\ \A i, j, k \in 1 .. N : <<i, j>> \in R /\ <<j, k>> \in R => <<i, k>> \in R
  <2>1. N \in Nat /\ \A i \in 1 .. N : rate(i) \in Int /\ owned(i) \in BOOLEAN
    BY <1>1 DEF IsOwned
  <2> HIDE DEF R, owned, rate, N
  <2>2. ASSUME NEW i \in 1 .. N, NEW j \in 1 .. N
        PROVE  <<i, j>> \in R <=>
                   \/ owned(i) /\ ~owned(j)
                   \/ /\ owned(i) = owned(j)
                      /\ rate(i) > rate(j) \/ (rate(i) = rate(j) /\ i <= j)
    BY <1>2, <1>3
  <2>3. ASSUME NEW i \in 1 .. N, NEW j \in 1 .. N
        PROVE  <<i, j>> \in R \/ <<j, i>> \in R
    <3>1. /\ rate(i) \in Int /\ rate(j) \in Int
          /\ owned(i) \in BOOLEAN /\ owned(j) \in BOOLEAN
      BY <2>1
    <3>2. QED
      BY <2>2, <3>1
  <2>4. ASSUME NEW i \in 1 .. N, NEW j \in 1 .. N, NEW k \in 1 .. N,
               <<i, j>> \in R, <<j, k>> \in R
        PROVE  <<i, k>> \in R
    <3>1. /\ rate(i) \in Int /\ rate(j) \in Int /\ rate(k) \in Int
          /\ owned(i) \in BOOLEAN /\ owned(j) \in BOOLEAN /\ owned(k) \in BOOLEAN
      BY <2>1
    <3>2. QED
      BY <2>2, <2>4, <3>1
  <2>5. QED
    BY <2>3, <2>4
<1>5. \E i \in Choices(variants) : \A j \in Choices(variants) : <<i, j>> \in R
  <2>1. Choices(variants) \in SUBSET (1 .. N)
    BY <1>1 DEF Choices
  <2> HIDE DEF R, N
  <2>2. N \in Nat
    BY <1>1
  <2>3. QED
    BY <1>4, <2>1, <2>2, BestExists
<1>6. \E i \in Choices(variants) : \A j \in Choices(variants) :
          Preferred(variants[i], i, variants[j], j)
  BY <1>5
<1>7. SelectedVariant(variants) =
          CHOOSE i \in Choices(variants) : \A j \in Choices(variants) :
              Preferred(variants[i], i, variants[j], j)
  BY DEF SelectedVariant, Choices
<1>8. 0 \notin Choices(variants)
  BY <1>1 DEF Choices
<1>9. QED
  BY <1>6, <1>7, <1>8

LEMMA NothingSelected ==
    ASSUME NEW variants, Choices(variants) = {}
    PROVE  SelectedVariant(variants) = 0
  BY DEF SelectedVariant, Choices

\* The URL a list of variants is archived from.
SelectedUrl(variants) ==
    IF SelectedVariant(variants) = 0 THEN NoUrl
    ELSE variants[SelectedVariant(variants)].url

LEMMA PreferenceIsStrict ==
    ASSUME NEW v \in AnyVariants, NEW w \in AnyVariants, NEW i \in Nat, NEW j \in Nat,
           Preferred(v, i, w, j), Preferred(w, j, v, i)
    PROVE  i = j
  BY DEF Preferred, AnyVariants, IsOwned

LEMMA SelectedIsPresent ==
    ASSUME NEW variants \in Seq(AnyVariants), Present(SelectedUrl(variants))
    PROVE  LET s == SelectedVariant(variants)
           IN  /\ s \in Choices(variants)
               /\ s \in 1 .. Len(variants)
               /\ SelectedUrl(variants) = variants[s].url
               /\ \A j \in Choices(variants) : Preferred(variants[s], s, variants[j], j)
<1>1. SelectedVariant(variants) # 0
  BY DEF SelectedUrl, Present
<1>2. Choices(variants) # {}
  BY <1>1, NothingSelected
<1>3. Choices(variants) \subseteq 1 .. Len(variants)
  BY DEF Choices
<1>4. QED
  BY <1>1, <1>2, <1>3, SelectedIsPreferred DEF SelectedUrl

\* The shape of a restored list of variants.
LEMMA RestoredVariantsShape ==
    ASSUME NEW old \in Seq(AnyVariants), NEW new \in Seq(AnyVariants),
           Present(SelectedUrl(old)), new # <<>>
    PROVE  LET c == SelectedVariant(old)
               r == RestoreVariants(old, new)
           IN  /\ r \in Seq(AnyVariants)
               /\ Len(r) \in {Len(new), c}
               /\ Len(new) <= Len(r) /\ c <= Len(r)
               /\ \A i \in 1 .. Len(r) :
                     /\ i > Len(new) => i \in 1 .. Len(old) /\ r[i] = old[i]
                     /\ i <= Len(new) /\ i = c =>
                           /\ r[i].playable = new[i].playable
                           /\ r[i].bitrate = new[i].bitrate
                           /\ r[i].url = Restored(old[i].url, new[i].url)
                     /\ i <= Len(new) /\ i # c => r[i] = new[i]
<1> DEFINE c == SelectedVariant(old)
           L == LargestOf({Len(new), c})
           At(i) == IF i > Len(new) THEN old[i]
                    ELSE IF i = c THEN [new[i] EXCEPT !.url = Restored(old[i].url, @)]
                    ELSE new[i]
<1>1. c \in 1 .. Len(old) /\ c # 0 /\ Present(old[c].url)
  BY SelectedIsPresent
<1>2. RestoreVariants(old, new) = [i \in 1 .. L |-> At(i)]
  BY <1>1, Zenon DEF RestoreVariants
<1>3. L \in {Len(new), c} /\ Len(new) <= L /\ c <= L
  <2>1. {Len(new), c} \in SUBSET (0 .. Len(new) + c) /\ Len(new) + c \in Nat
    BY <1>1
  <2> HIDE DEF c
  <2>2. QED
    BY <2>1, LargestIsLargest
<1>4. L \in Nat
  BY <1>1, <1>3
<1>5. ASSUME NEW i \in 1 .. L
      PROVE  /\ At(i) \in AnyVariants
             /\ i > Len(new) => i \in 1 .. Len(old) /\ At(i) = old[i]
             /\ i <= Len(new) /\ i = c =>
                   /\ At(i).playable = new[i].playable
                   /\ At(i).bitrate = new[i].bitrate
                   /\ At(i).url = Restored(old[i].url, new[i].url)
             /\ i <= Len(new) /\ i # c => At(i) = new[i]
  <2>1. i > Len(new) => i \in 1 .. Len(old)
    BY <1>1, <1>3, <1>4
  <2>2. CASE i > Len(new)
    <3>1. At(i) = old[i] /\ ~(i <= Len(new))
      BY <1>4, <2>2
    <3>2. old[i] \in AnyVariants
      BY <2>1, <2>2
    <3>3. QED
      BY <2>1, <2>2, <3>1, <3>2
  <2>3. CASE i <= Len(new) /\ i = c
    <3>1. i \in 1 .. Len(new) /\ i \in 1 .. Len(old)
      BY <1>1, <1>4, <2>3
    <3>2. new[i] \in AnyVariants /\ old[i] \in AnyVariants
      BY <3>1
    <3>3. At(i) = [new[i] EXCEPT !.url = Restored(old[i].url, @)]
      BY <1>1, <2>3
    <3>4. Restored(old[i].url, new[i].url) \in AnyUrls
      BY <3>2 DEF AnyVariants, Restored
    <3> HIDE DEF At, c
    <3>5. /\ At(i) \in AnyVariants
          /\ At(i).playable = new[i].playable
          /\ At(i).bitrate = new[i].bitrate
          /\ At(i).url = Restored(old[i].url, new[i].url)
      BY <3>2, <3>3, <3>4 DEF AnyVariants
    <3>6. QED
      BY <2>3, <3>5
  <2>4. CASE i <= Len(new) /\ i # c
    <3>1. i \in 1 .. Len(new)
      BY <1>4, <2>4
    <3>2. QED
      BY <1>1, <2>4, <3>1
  <2>5. QED
    BY <1>1, <1>4, <2>2, <2>3, <2>4
<1> HIDE DEF At, c, L
<1>6. DEFINE r == RestoreVariants(old, new)
<1>7. r \in Seq(AnyVariants) /\ Len(r) = L /\ \A i \in 1 .. L : r[i] = At(i)
  BY <1>2, <1>4, <1>5
<1>8. /\ r \in Seq(AnyVariants)
      /\ Len(r) \in {Len(new), c}
      /\ Len(new) <= Len(r) /\ c <= Len(r)
  BY <1>3, <1>7
<1>9. ASSUME NEW i \in 1 .. Len(r)
      PROVE  /\ i > Len(new) => i \in 1 .. Len(old) /\ r[i] = old[i]
             /\ i <= Len(new) /\ i = c =>
                   /\ r[i].playable = new[i].playable
                   /\ r[i].bitrate = new[i].bitrate
                   /\ r[i].url = Restored(old[i].url, new[i].url)
             /\ i <= Len(new) /\ i # c => r[i] = new[i]
  <2>1. i \in 1 .. L /\ r[i] = At(i)
    BY <1>7
  <2> HIDE DEF r
  <2>2. QED
    BY <1>5, <2>1
<1> HIDE DEF r
<1>10. QED
  BY <1>8, <1>9, Zenon DEF r, c

LEMMA NothingToRestore ==
    ASSUME NEW old, NEW new, ~Present(SelectedUrl(old))
    PROVE  RestoreVariants(old, new) = new
  BY DEF RestoreVariants, SelectedUrl, Present

\* Every URL of the restored list was at its place in one of the two.
LEMMA RestoredVariantsUrls ==
    ASSUME NEW old \in Seq(AnyVariants), NEW new \in Seq(AnyVariants)
    PROVE  LET r == RestoreVariants(old, new)
           IN  /\ r \in Seq(AnyVariants)
               /\ \A i \in 1 .. Len(r) :
                     \/ i \in 1 .. Len(old) /\ r[i].url = old[i].url
                     \/ i \in 1 .. Len(new) /\ r[i].url = new[i].url
<1>1. CASE ~Present(SelectedUrl(old))
  BY <1>1, NothingToRestore
<1>2. CASE Present(SelectedUrl(old)) /\ new = <<>>
  <2>1. RestoreVariants(old, new) = old
    BY <1>2 DEF RestoreVariants, SelectedUrl, Present
  <2>2. QED
    BY <2>1
<1>3. CASE Present(SelectedUrl(old)) /\ new # <<>>
  <2> DEFINE r == RestoreVariants(old, new)
             c == SelectedVariant(old)
  <2>1. c \in 1 .. Len(old)
    BY <1>3, SelectedIsPresent
  <2>2. /\ r \in Seq(AnyVariants)
        /\ \A i \in 1 .. Len(r) :
              /\ i > Len(new) => i \in 1 .. Len(old) /\ r[i] = old[i]
              /\ i <= Len(new) /\ i = c => r[i].url = Restored(old[i].url, new[i].url)
              /\ i <= Len(new) /\ i # c => r[i] = new[i]
    BY <1>3, RestoredVariantsShape
  <2> HIDE DEF r, c
  <2>3. QED
    BY <2>1, <2>2 DEF Restored, r
<1>4. QED
  BY <1>1, <1>2, <1>3

\* If there was a URL to archive and the payload lists none or a playable one,
\* there still is one.
LEMMA StillSelected ==
    ASSUME NEW old \in Seq(AnyVariants), NEW new \in Seq(AnyVariants),
           Present(SelectedUrl(old)), new = <<>> \/ Present(SelectedUrl(new))
    PROVE  Present(SelectedUrl(RestoreVariants(old, new)))
<1> DEFINE r == RestoreVariants(old, new)
           c == SelectedVariant(old)
           s == SelectedVariant(new)
           t == SelectedVariant(r)
<1>1. CASE new = <<>>
  <2>1. RestoreVariants(old, new) = old
    BY <1>1 DEF RestoreVariants, SelectedUrl, Present
  <2>2. QED
    BY <2>1
<1>2. CASE new # <<>>
  <2>1. /\ c \in 1 .. Len(old) /\ c \in Choices(old) /\ Present(old[c].url)
        /\ \A j \in Choices(old) : Preferred(old[c], c, old[j], j)
    BY SelectedIsPresent
  <2>2. /\ s \in 1 .. Len(new) /\ s \in Choices(new) /\ Present(new[s].url)
        /\ \A j \in Choices(new) : Preferred(new[s], s, new[j], j)
    BY <1>2, SelectedIsPresent
  <2>3. /\ r \in Seq(AnyVariants)
        /\ Len(r) \in {Len(new), c}
        /\ Len(new) <= Len(r) /\ c <= Len(r)
        /\ \A i \in 1 .. Len(r) :
              /\ i > Len(new) => i \in 1 .. Len(old) /\ r[i] = old[i]
              /\ i <= Len(new) /\ i = c =>
                    /\ r[i].playable = new[i].playable
                    /\ r[i].bitrate = new[i].bitrate
                    /\ r[i].url = Restored(old[i].url, new[i].url)
              /\ i <= Len(new) /\ i # c => r[i] = new[i]
    BY <1>2, RestoredVariantsShape
  <2>4. /\ \A i \in 1 .. Len(old) : old[i] \in AnyVariants
        /\ \A i \in 1 .. Len(new) : new[i] \in AnyVariants
        /\ \A i \in 1 .. Len(r) : r[i] \in AnyVariants
        /\ Len(old) \in Nat /\ Len(new) \in Nat /\ Len(r) \in Nat
        /\ DOMAIN old = 1 .. Len(old) /\ DOMAIN new = 1 .. Len(new) /\ DOMAIN r = 1 .. Len(r)
    BY <2>3
  <2> HIDE DEF r, c, s, t
  <2>5. /\ s \in 1 .. Len(r) /\ s \in Choices(r)
        /\ r[s].url = new[s].url /\ r[s].bitrate = new[s].bitrate
    <3>1. /\ s \in 1 .. Len(r) /\ s <= Len(new)
          /\ new[s].url # NoUrl /\ new[s].playable
      <4>1. Len(r) \in Nat /\ Len(new) \in Nat /\ Len(new) <= Len(r) /\ s \in 1 .. Len(new)
        BY <2>2, <2>3, <2>4
      <4>2. new[s].url # NoUrl /\ new[s].playable
        BY <2>2, Zenon DEF Choices
      <4>3. QED
        BY <4>1, <4>2
    <3>2. /\ r[s].url = new[s].url /\ r[s].bitrate = new[s].bitrate
          /\ r[s].playable = new[s].playable
      <4>1. CASE s = c
        <5>1. /\ r[s].playable = new[s].playable
              /\ r[s].bitrate = new[s].bitrate
              /\ r[s].url = Restored(old[s].url, new[s].url)
          BY <2>3, <3>1, <4>1
        <5>2. QED
          BY <3>1, <5>1 DEF Restored
      <4>2. CASE s # c
        BY <2>3, <3>1, <4>2
      <4>3. QED
        BY <4>1, <4>2
    <3>3. QED
      BY <2>4, <3>1, <3>2 DEF Choices
  <2>6. /\ t \in Choices(r) /\ t \in 1 .. Len(r) /\ t # 0
        /\ \A j \in Choices(r) : Preferred(r[t], t, r[j], j)
    BY <2>3, <2>4, <2>5, SelectedIsPreferred DEF t, Choices
  <2>7. SUFFICES ASSUME r[t].url = EmptyUrl PROVE FALSE
    <3>1. SelectedVariant(r) = t
      BY DEF t
    <3>2. SelectedUrl(r) = r[t].url
      BY <2>6, <3>1, Zenon DEF SelectedUrl
    <3>3. r[t].url # NoUrl
      BY <2>6 DEF Choices
    <3>4. r[t].url # EmptyUrl => Present(SelectedUrl(r))
      BY <3>2, <3>3 DEF Present
    <3>5. SUFFICES Present(SelectedUrl(r))
      BY DEF r
    <3>6. QED
      BY <3>4
  <2>8. CASE t > Len(new)
    <3>1. t \in 1 .. Len(old) /\ r[t] = old[t] /\ Len(r) = c
      <4>1. t \in 1 .. Len(old) /\ r[t] = old[t]
        BY <2>3, <2>6, <2>8
      <4>2. t \in 1 .. Len(r) /\ Len(r) \in {Len(new), c} /\ Len(r) \in Nat /\ Len(new) \in Nat
        BY <2>3, <2>4, <2>6
      <4>3. QED
        BY <2>8, <4>1, <4>2
    <3>2. c \in 1 .. Len(r) /\ c > Len(new) /\ r[c] = old[c]
      BY <2>1, <2>3, <2>4, <2>6, <2>8, <3>1
    <3>3. t \in Choices(old) /\ c \in Choices(r)
      BY <2>1, <2>4, <2>6, <3>1, <3>2 DEF Choices
    <3>4. t = c
      <4>1. Preferred(old[c], c, old[t], t) /\ Preferred(old[t], t, old[c], c)
        BY <2>1, <2>6, <3>1, <3>2, <3>3
      <4>2. QED
        BY <2>1, <2>4, <3>1, <4>1, PreferenceIsStrict
    <3>5. QED
      BY <2>1, <2>7, <3>1, <3>4 DEF Present
  <2>9. CASE t <= Len(new)
    <3>1. t \in 1 .. Len(new)
      BY <2>4, <2>6, <2>9
    <3>2. /\ r[t].playable = new[t].playable /\ r[t].bitrate = new[t].bitrate
          /\ r[t].url = new[t].url
      BY <2>1, <2>3, <2>6, <2>7, <2>9, <3>1 DEF Restored, Present
    <3>3. t \in Choices(new)
      BY <2>4, <2>6, <3>1, <3>2 DEF Choices
    <3>4. Preferred(new[s], s, new[t], t)
      BY <2>2, <3>3
    <3>5. Preferred(new[t], t, new[s], s)
      BY <2>5, <2>6, <3>2 DEF Preferred
    <3>6. t = s
      BY <2>2, <2>4, <3>1, <3>4, <3>5, PreferenceIsStrict
    <3>7. QED
      BY <2>2, <2>7, <3>2, <3>6 DEF Present
  <2>10. QED
    BY <2>4, <2>6, <2>8, <2>9
<1>3. QED
  BY <1>1, <1>2

\* A variant is its three fields.
LEMMA SameVariant ==
    ASSUME NEW v \in AnyVariants, NEW w \in AnyVariants,
           v.playable = w.playable, v.url = w.url, v.bitrate = w.bitrate
    PROVE  v = w
  BY SMT DEF AnyVariants

\* A payload that drops no variant and gives each a URL is taken as it is.
LEMMA FreshVariants ==
    ASSUME NEW old \in Seq(AnyVariants), NEW new \in Seq(AnyVariants), new # <<>>,
           Len(new) >= Len(old), \A i \in 1 .. Len(new) : new[i].url # NoUrl
    PROVE  RestoreVariants(old, new) = new
<1> DEFINE r == RestoreVariants(old, new)
           c == SelectedVariant(old)
<1>1. CASE ~Present(SelectedUrl(old))
  BY <1>1, NothingToRestore
<1>2. CASE Present(SelectedUrl(old))
  <2>1. c \in 1 .. Len(old)
    BY <1>2, SelectedIsPresent
  <2>2. /\ r \in Seq(AnyVariants)
        /\ Len(r) \in {Len(new), c}
        /\ Len(new) <= Len(r)
        /\ \A i \in 1 .. Len(r) :
              /\ i <= Len(new) /\ i = c =>
                    /\ r[i].playable = new[i].playable
                    /\ r[i].bitrate = new[i].bitrate
                    /\ r[i].url = Restored(old[i].url, new[i].url)
              /\ i <= Len(new) /\ i # c => r[i] = new[i]
    BY <1>2, RestoredVariantsShape
  <2> HIDE DEF r, c
  <2>3. Len(r) = Len(new)
    BY <2>1, <2>2
  <2>4. ASSUME NEW i \in 1 .. Len(new) PROVE r[i] = new[i]
    <3>1. r[i] \in AnyVariants /\ new[i] \in AnyVariants
      BY <2>2, <2>3
    <3>2. i = c => r[i].url = new[i].url
      BY <2>2, <2>3 DEF Restored
    <3>3. CASE i = c
      <4>1. r[i].playable = new[i].playable /\ r[i].bitrate = new[i].bitrate
        BY <2>2, <2>3, <3>3
      <4>2. QED
        BY <3>1, <3>2, <3>3, <4>1, SameVariant, Zenon
    <3>4. CASE i # c
      BY <2>2, <2>3, <3>4
    <3>5. QED
      BY <3>3, <3>4
  <2>5. QED
    BY <2>2, <2>3, <2>4 DEF r
<1>3. QED
  BY <1>1, <1>2
-----------------------------------------------------------------------------
(***************************************************************************)
(* The URL at each place, and the inductive invariant                      *)
(***************************************************************************)

AllPlaces == Scopes \X Nat

\* The URL at each place of an X post, NoUrl if there is none.
MainScope(item) == IF item.type = "photo" THEN "images" ELSE "posters"
ItemUrl(item, scope) ==
    IF scope = MainScope(item) THEN item.mediaUrl
    ELSE IF scope = "videos" /\ item.type = "video" THEN SelectedUrl(item.variants)
    ELSE NoUrl
XAt(media) ==
    [p \in AllPlaces |->
        IF p[2] \in DOMAIN media THEN ItemUrl(media[p[2]], p[1]) ELSE NoUrl]

\* The URL at each place of a LinkedIn post.
PosterUrl(post, i) ==
    IF i = 1 /\ ~FirstPosterIsOwn(post) THEN post.thumbnail
    ELSE IF i \in DOMAIN post.videos THEN post.videos[i].thumbnail
    ELSE NoUrl
PostUrl(post, scope, i) ==
    IF scope = "images" THEN IF i \in DOMAIN post.images THEN post.images[i] ELSE NoUrl
    ELSE IF scope = "videos" THEN IF i \in DOMAIN post.videos THEN post.videos[i].url ELSE NoUrl
    ELSE IF scope = "posters" THEN PosterUrl(post, i)
    ELSE IF i = 1 THEN post.avatar ELSE NoUrl
LinkedInAt(post) == [p \in AllPlaces |-> PostUrl(post, p[1], p[2])]

SlotsAt(at) ==
    {Slot(p[1], p[2], at[p]) : p \in {q \in AllPlaces : Present(at[q])}}

\* An owned URL is the one of its place, and its file is archived.
Fits(url, scope, i, owned) == IsOwned(url) => url = Owned(scope, i) /\ url \in owned

\* Every owned URL fits: those that are slots, those of variants that are not
\* selected, and the thumbnail of a post that the one of its first video hides.
\* Only these could come back as a slot later, so the two invariants that speak
\* of slots are not inductive without it.
ItemFits(item, i, owned) ==
    /\ Fits(item.mediaUrl, MainScope(item), i, owned)
    /\ \A v \in DOMAIN item.variants : Fits(item.variants[v].url, "videos", i, owned)
MediaFits(media, owned) == \A i \in DOMAIN media : ItemFits(media[i], i, owned)
AnyVideos == [url : AnyUrls, thumbnail : AnyUrls]
AnyPosts ==
    [images : Seq(AnyUrls), videos : Seq(AnyVideos),
     thumbnail : AnyUrls, avatar : AnyUrls, picture : {NoUrl}]
PostFits(post, owned) ==
    /\ \A i \in DOMAIN post.images : Fits(post.images[i], "images", i, owned)
    /\ \A i \in DOMAIN post.videos :
          /\ Fits(post.videos[i].url, "videos", i, owned)
          /\ Fits(post.videos[i].thumbnail, "posters", i, owned)
    /\ Fits(post.thumbnail, "posters", 1, owned)
    /\ Fits(post.avatar, "avatars", 1, owned)

Keeps(at, owned) == \A url \in owned : at[<<url.scope, url.index>>] = url

XInv(media, owned) ==
    /\ media \in Seq(AnyItems)
    /\ MediaFits(media, owned)
    /\ Keeps(XAt(media), owned)
LinkedInInv(post, owned) ==
    /\ post \in AnyPosts
    /\ PostFits(post, owned)
    /\ Keeps(LinkedInAt(post), owned)

PostInv ==
    /\ feed \in DOMAIN Feeds
    /\ files \subseteq OwnedUrls
    /\ IF IsX THEN XInv(content, files) ELSE LinkedInInv(content, files)

-----------------------------------------------------------------------------
(***************************************************************************)
(* Places                                                                  *)
(***************************************************************************)

\* What the reuse of owned URLs does at each place, when those in "owned" are
\* reused.
After(at, owned) ==
    [p \in AllPlaces |->
        IF Present(at[p]) /\ Owned(p[1], p[2]) \in owned THEN Owned(p[1], p[2])
        ELSE at[p]]
PlacesFit(at, owned) == \A p \in AllPlaces : Fits(at[p], p[1], p[2], owned)
Reuses(older, owned) ==
    \A scope \in Scopes, i \in Nat, url \in AnyUrls :
        Reused(older, scope, i, url) =
            IF Owned(scope, i) \in owned THEN Owned(scope, i) ELSE url

LEMMA PlaceIsPair ==
    ASSUME NEW p \in AllPlaces
    PROVE  p = <<p[1], p[2]>> /\ p[1] \in Scopes /\ p[2] \in Nat
  BY DEF AllPlaces

LEMMA OwnedPlace ==
    ASSUME NEW url \in OwnedUrls
    PROVE  /\ url.scope \in Scopes /\ url.index \in Nat
           /\ url = Owned(url.scope, url.index)
           /\ <<url.scope, url.index>> \in AllPlaces
           /\ IsOwned(url) /\ Present(url)
<1>1. url.scope \in Scopes /\ url.index \in Nat /\ url = Owned(url.scope, url.index)
  BY DEF OwnedUrls, Owned
<1>2. url \notin URLs
  BY SlotsAssumption DEF OwnedUrls
<1>3. QED
  BY <1>1, <1>2 DEF AllPlaces, IsOwned, Present, URLs

LEMMA OwnedAt ==
    ASSUME NEW scope \in Scopes, NEW i \in Nat
    PROVE  /\ Owned(scope, i) \in OwnedUrls
           /\ Owned(scope, i).scope = scope /\ Owned(scope, i).index = i
           /\ IsOwned(Owned(scope, i)) /\ Present(Owned(scope, i))
<1>1. /\ Owned(scope, i) \in OwnedUrls
      /\ Owned(scope, i).scope = scope /\ Owned(scope, i).index = i
  BY DEF Owned, OwnedUrls
<1>2. QED
  BY <1>1, OwnedPlace

LEMMA OwnedIsPresent ==
    ASSUME NEW url, IsOwned(url)
    PROVE  Present(url)
  BY DEF IsOwned, Present

LEMMA SlotsAtIs ==
    ASSUME NEW at, NEW slot
    PROVE  /\ slot \in SlotsAt(at) =>
                 LET p == <<slot.scope, slot.index>>
                 IN  /\ p \in AllPlaces /\ slot.scope \in Scopes /\ slot.index \in Nat
                     /\ slot.url = at[p] /\ Present(slot.url)
                     /\ slot = Slot(slot.scope, slot.index, slot.url)
           /\ \A scope \in Scopes, i \in Nat :
                 Present(at[<<scope, i>>]) => Slot(scope, i, at[<<scope, i>>]) \in SlotsAt(at)
<1>1. ASSUME slot \in SlotsAt(at)
      PROVE  LET p == <<slot.scope, slot.index>>
             IN  /\ p \in AllPlaces /\ slot.scope \in Scopes /\ slot.index \in Nat
                 /\ slot.url = at[p] /\ Present(slot.url)
                 /\ slot = Slot(slot.scope, slot.index, slot.url)
  <2>1. PICK p \in AllPlaces : Present(at[p]) /\ slot = Slot(p[1], p[2], at[p])
    BY <1>1 DEF SlotsAt
  <2>2. slot.scope = p[1] /\ slot.index = p[2] /\ slot.url = at[p]
    BY <2>1 DEF Slot
  <2>3. QED
    BY <2>1, <2>2, PlaceIsPair
<1>2. ASSUME NEW scope \in Scopes, NEW i \in Nat, Present(at[<<scope, i>>])
      PROVE  Slot(scope, i, at[<<scope, i>>]) \in SlotsAt(at)
  <2>1. <<scope, i>> \in {q \in AllPlaces : Present(at[q])}
    BY <1>2 DEF AllPlaces
  <2>2. QED
    BY <2>1 DEF SlotsAt
<1>3. QED
  BY <1>1, <1>2

\* The slots of an older post, or of the files it has: the owned URLs that are
\* reused from them.
LEMMA ReusedIs ==
    ASSUME NEW older, NEW owned \in SUBSET OwnedUrls,
           \A slot \in older : IsOwned(slot.url) =>
               slot.url = Owned(slot.scope, slot.index) /\ slot.url \in owned,
           \A url \in owned : Slot(url.scope, url.index, url) \in older
    PROVE  Reuses(older, owned)
<1> SUFFICES ASSUME NEW scope \in Scopes, NEW i \in Nat, NEW url \in AnyUrls
             PROVE  Reused(older, scope, i, url) =
                        IF Owned(scope, i) \in owned THEN Owned(scope, i) ELSE url
  BY DEF Reuses
<1> DEFINE kept == {slot \in SamePlace(older, scope, i) : IsOwned(slot.url)}
<1>1. Reused(older, scope, i, url) =
          IF kept # {} THEN (CHOOSE slot \in kept : TRUE).url ELSE url
  BY DEF Reused
<1>2. \A slot \in kept : slot.url = Owned(scope, i) /\ Owned(scope, i) \in owned
  BY DEF SamePlace
<1>3. ASSUME Owned(scope, i) \in owned PROVE kept # {}
  <2>1. Slot(scope, i, Owned(scope, i)) \in older
    BY <1>3, OwnedAt
  <2>2. Slot(scope, i, Owned(scope, i)) \in kept
    BY <2>1, OwnedAt DEF SamePlace, Slot
  <2>3. QED
    BY <2>2
<1>4. kept # {} => (CHOOSE slot \in kept : TRUE) \in kept
  OBVIOUS
<1> HIDE DEF kept
<1>5. QED
  BY <1>1, <1>2, <1>3, <1>4

LEMMA ReusedFromSlots ==
    ASSUME NEW at, NEW owned \in SUBSET OwnedUrls, PlacesFit(at, owned), Keeps(at, owned)
    PROVE  Reuses(SlotsAt(at), owned)
<1>1. \A slot \in SlotsAt(at) : IsOwned(slot.url) =>
          slot.url = Owned(slot.scope, slot.index) /\ slot.url \in owned
  <2> TAKE slot \in SlotsAt(at)
  <2> DEFINE p == <<slot.scope, slot.index>>
  <2>1. p \in AllPlaces /\ slot.url = at[p] /\ p[1] = slot.scope /\ p[2] = slot.index
    BY SlotsAtIs
  <2> HIDE DEF p
  <2>2. QED
    BY <2>1 DEF PlacesFit, Fits
<1>2. \A url \in owned : Slot(url.scope, url.index, url) \in SlotsAt(at)
  <2> TAKE url \in owned
  <2>1. url.scope \in Scopes /\ url.index \in Nat /\ Present(url)
    BY OwnedPlace
  <2>2. at[<<url.scope, url.index>>] = url
    BY DEF Keeps
  <2>3. QED
    BY <2>1, <2>2, SlotsAtIs
<1>3. QED
  BY <1>1, <1>2, ReusedIs

\* The slots of archived files, and the files of slots.
FileSlots(owned) == {Slot(url.scope, url.index, url) : url \in owned}
FilesOf(slots) == {Owned(slot.scope, slot.index) : slot \in slots}

LEMMA ReusedFromFiles ==
    ASSUME NEW owned \in SUBSET OwnedUrls
    PROVE  Reuses(FileSlots(owned), owned)
<1> DEFINE older == {Slot(url.scope, url.index, url) : url \in owned}
<1>1. \A slot \in older : IsOwned(slot.url) =>
          slot.url = Owned(slot.scope, slot.index) /\ slot.url \in owned
  <2> TAKE slot \in older
  <2>1. PICK url \in owned : slot = Slot(url.scope, url.index, url)
    OBVIOUS
  <2>2. slot.scope = url.scope /\ slot.index = url.index /\ slot.url = url
    BY <2>1 DEF Slot
  <2>3. QED
    BY <2>2, OwnedPlace
<1>2. \A url \in owned : Slot(url.scope, url.index, url) \in older
  OBVIOUS
<1> HIDE DEF older
<1>3. Reuses(older, owned)
  BY <1>1, <1>2, ReusedIs
<1>4. QED
  BY <1>3 DEF older, FileSlots

\* A step that keeps what was at a place and then reuses owned URLs: it puts
\* those at their places and loses no slot.
LEMMA ReuseStep ==
    ASSUME NEW at, NEW mid, NEW more \in SUBSET OwnedUrls,
           \A p \in AllPlaces : Present(at[p]) => Present(mid[p]),
           \A url \in more : Present(at[<<url.scope, url.index>>])
    PROVE  /\ Keeps(After(mid, more), more)
           /\ Places(SlotsAt(at)) \subseteq Places(SlotsAt(After(mid, more)))
<1> DEFINE next == After(mid, more)
<1>1. ASSUME NEW p \in AllPlaces
      PROVE  next[p] = IF Present(mid[p]) /\ Owned(p[1], p[2]) \in more
                       THEN Owned(p[1], p[2]) ELSE mid[p]
  BY DEF After
<1> HIDE DEF next
<1>2. Keeps(next, more)
  <2> SUFFICES ASSUME NEW url \in more PROVE next[<<url.scope, url.index>>] = url
    BY DEF Keeps
  <2> DEFINE p == <<url.scope, url.index>>
  <2>1. p \in AllPlaces /\ url = Owned(p[1], p[2])
    BY OwnedPlace
  <2>2. Present(mid[p])
    BY <2>1
  <2> HIDE DEF p
  <2>3. next[p] = url
    BY <1>1, <2>1, <2>2
  <2>4. QED
    BY <2>3 DEF p
<1>3. ASSUME NEW pair \in Places(SlotsAt(at))
      PROVE  pair \in Places(SlotsAt(next))
  <2>1. PICK slot \in SlotsAt(at) : pair = <<slot.scope, slot.index>>
    BY DEF Places
  <2>2. /\ pair \in AllPlaces /\ slot.scope \in Scopes /\ slot.index \in Nat
        /\ Present(at[pair]) /\ pair[1] = slot.scope /\ pair[2] = slot.index
    BY <2>1, SlotsAtIs
  <2>3. Present(next[pair])
    BY <1>1, <2>2, OwnedAt
  <2>4. Slot(slot.scope, slot.index, next[pair]) \in SlotsAt(next)
    BY <2>1, <2>2, <2>3, SlotsAtIs
  <2>5. QED
    BY <2>1, <2>4 DEF Places, Slot
<1>4. QED
  BY <1>2, <1>3 DEF next

\* What the invariant says of the slots.
LEMMA PlacesGiveSlots ==
    ASSUME NEW at, NEW owned \in SUBSET OwnedUrls, PlacesFit(at, owned), Keeps(at, owned)
    PROVE  /\ \A url \in owned : Slot(url.scope, url.index, url) \in SlotsAt(at)
           /\ ValidInventory(SlotsAt(at), owned)
<1>1. ASSUME NEW url \in owned PROVE Slot(url.scope, url.index, url) \in SlotsAt(at)
  <2>1. url.scope \in Scopes /\ url.index \in Nat /\ Present(url)
    BY OwnedPlace
  <2>2. at[<<url.scope, url.index>>] = url
    BY DEF Keeps
  <2>3. QED
    BY <2>1, <2>2, SlotsAtIs
<1>2. ASSUME NEW slot \in SlotsAt(at), IsOwned(slot.url)
      PROVE  slot.url = Owned(slot.scope, slot.index) /\ slot.url \in owned
  <2> DEFINE p == <<slot.scope, slot.index>>
  <2>1. p \in AllPlaces /\ slot.url = at[p] /\ p[1] = slot.scope /\ p[2] = slot.index
    BY SlotsAtIs
  <2> HIDE DEF p
  <2>2. QED
    BY <1>2, <2>1 DEF PlacesFit, Fits
<1>3. QED
  BY <1>1, <1>2 DEF ValidInventory

\* What a payload gives is in the next slots, but where a file is archived.
LEMMA FreshStep ==
    ASSUME NEW at, NEW mid, NEW given, NEW owned \in SUBSET OwnedUrls,
           Keeps(at, owned),
           \A p \in AllPlaces : Present(given[p]) => mid[p] = given[p]
    PROVE  \A slot \in SlotsAt(given) :
               \/ slot \in SlotsAt(After(mid, owned))
               \/ <<slot.scope, slot.index>> \in Places(OwnedIn(SlotsAt(at)))
<1> TAKE slot \in SlotsAt(given)
<1> DEFINE p == <<slot.scope, slot.index>>
           next == After(mid, owned)
<1>1. /\ p \in AllPlaces /\ slot.scope \in Scopes /\ slot.index \in Nat
      /\ slot.url = given[p] /\ Present(slot.url)
      /\ slot = Slot(slot.scope, slot.index, slot.url)
  BY SlotsAtIs
<1>2. mid[p] = slot.url
  BY <1>1
<1>3. CASE Owned(slot.scope, slot.index) \in owned
  <2> DEFINE url == Owned(slot.scope, slot.index)
  <2>1. url.scope = slot.scope /\ url.index = slot.index /\ IsOwned(url) /\ Present(url)
    BY <1>1, OwnedAt
  <2>2. at[p] = url
    BY <1>3, <2>1 DEF Keeps
  <2>3. Slot(slot.scope, slot.index, url) \in SlotsAt(at)
    BY <1>1, <2>1, <2>2, SlotsAtIs
  <2> HIDE DEF url
  <2>4. Slot(slot.scope, slot.index, url) \in OwnedIn(SlotsAt(at))
    BY <2>1, <2>3 DEF OwnedIn, Slot
  <2>5. p \in Places(OwnedIn(SlotsAt(at)))
    BY <2>4 DEF Places, Slot
  <2>6. QED
    BY <2>5
<1>4. CASE Owned(slot.scope, slot.index) \notin owned
  <2>1. next[p] = slot.url
    BY <1>1, <1>2, <1>4 DEF After
  <2> HIDE DEF next
  <2>2. slot \in SlotsAt(next)
    BY <1>1, <2>1, SlotsAtIs
  <2>3. QED
    BY <2>2 DEF next
<1>5. QED
  BY <1>3, <1>4
-----------------------------------------------------------------------------
(***************************************************************************)
(* The slots of an X post, item by item                                    *)
(***************************************************************************)

LEMMA ItemShape ==
    ASSUME NEW item \in AnyItems
    PROVE  /\ item.mediaUrl \in AnyUrls /\ item.variants \in Seq(AnyVariants)
           /\ item = NoItem => item.type = "none" /\ item.mediaUrl = NoUrl /\ item.variants = <<>>
           /\ item # NoItem =>
                 /\ item.type \in {"photo", "video"}
                 /\ item \in [type : {"photo", "video"}, mediaUrl : AnyUrls,
                              variants : Seq(AnyVariants)]
<1>1. CASE item = NoItem
  <2>1. NoUrl \in AnyUrls /\ <<>> \in Seq(AnyVariants)
    BY DEF AnyUrls, URLs
  <2>2. QED
    BY <1>1, <2>1 DEF NoItem, Item
<1>2. CASE item # NoItem
  BY <1>2 DEF AnyItems
<1>3. QED
  BY <1>1, <1>2

LEMMA ItemUrls ==
    ASSUME NEW item \in AnyItems
    PROVE  /\ item.type = "photo" =>
                 /\ MainScope(item) = "images"
                 /\ ItemUrl(item, "images") = item.mediaUrl
                 /\ ItemUrl(item, "posters") = NoUrl
                 /\ ItemUrl(item, "videos") = NoUrl
           /\ item.type = "video" =>
                 /\ MainScope(item) = "posters"
                 /\ ItemUrl(item, "images") = NoUrl
                 /\ ItemUrl(item, "posters") = item.mediaUrl
                 /\ ItemUrl(item, "videos") = SelectedUrl(item.variants)
           /\ ItemUrl(item, "avatars") = NoUrl
           /\ item = NoItem => \A scope \in Scopes : ItemUrl(item, scope) = NoUrl
<1>1. /\ item.type = "photo" =>
            /\ MainScope(item) = "images"
            /\ ItemUrl(item, "images") = item.mediaUrl
            /\ ItemUrl(item, "posters") = NoUrl
            /\ ItemUrl(item, "videos") = NoUrl
      /\ item.type = "video" =>
            /\ MainScope(item) = "posters"
            /\ ItemUrl(item, "images") = NoUrl
            /\ ItemUrl(item, "posters") = item.mediaUrl
            /\ ItemUrl(item, "videos") = SelectedUrl(item.variants)
      /\ ItemUrl(item, "avatars") = NoUrl
  BY DEF ItemUrl, MainScope
<1>2. ASSUME item = NoItem, NEW scope \in Scopes PROVE ItemUrl(item, scope) = NoUrl
  BY <1>2, ItemShape DEF ItemUrl, MainScope
<1>3. QED
  BY <1>1, <1>2

ItemSlots(item, i) ==
    CASE item.type = "photo" -> {Slot("images", i, item.mediaUrl)}
      [] item.type = "video" ->
            {Slot("posters", i, item.mediaUrl), Slot("videos", i, VideoUrl(item))}
      [] OTHER -> {}

LEMMA ItemSlotsAre ==
    ASSUME NEW item \in AnyItems, NEW i \in Nat, NEW slot
    PROVE  slot \in ItemSlots(item, i) /\ Present(slot.url) <=>
               \E scope \in Scopes :
                   /\ Present(ItemUrl(item, scope))
                   /\ slot = Slot(scope, i, ItemUrl(item, scope))
<1>1. /\ ~Present(NoUrl)
      /\ \A scope, url : Slot(scope, i, url).url = url
      /\ VideoUrl(item) = SelectedUrl(item.variants)
      /\ Scopes = {"images", "videos", "posters", "avatars"}
  BY DEF Present, Slot, VideoUrl, SelectedUrl, Scopes
<1>2. CASE item.type = "photo"
  <2>1. ItemSlots(item, i) = {Slot("images", i, item.mediaUrl)}
    BY <1>2 DEF ItemSlots
  <2>2. QED
    BY <1>1, <1>2, <2>1, ItemUrls
<1>3. CASE item.type = "video"
  <2>1. ItemSlots(item, i) =
            {Slot("posters", i, item.mediaUrl), Slot("videos", i, SelectedUrl(item.variants))}
    BY <1>1, <1>3 DEF ItemSlots
  <2>2. QED
    BY <1>1, <1>3, <2>1, ItemUrls
<1>4. CASE item = NoItem
  <2>1. ItemSlots(item, i) = {}
    BY <1>4, ItemShape DEF ItemSlots
  <2>2. QED
    BY <1>1, <1>4, <2>1, ItemUrls
<1>5. QED
  BY <1>2, <1>3, <1>4, ItemShape

LEMMA XSlotsAre ==
    ASSUME NEW media \in Seq(AnyItems)
    PROVE  XSlots(media) = SlotsAt(XAt(media))
<1> DEFINE at == XAt(media)
<1>1. /\ DOMAIN media \subseteq Nat
      /\ \A i \in DOMAIN media : media[i] \in AnyItems
  OBVIOUS
<1>2. XSlots(media) = SlotsOf(UNION {ItemSlots(media[i], i) : i \in DOMAIN media})
  BY DEF XSlots, ItemSlots
<1>3. ASSUME NEW scope \in Scopes, NEW i \in Nat
      PROVE  at[<<scope, i>>] = IF i \in DOMAIN media THEN ItemUrl(media[i], scope) ELSE NoUrl
  BY DEF XAt, AllPlaces
<1>4. ~Present(NoUrl)
  BY DEF Present
<1> HIDE DEF at
<1>5. ASSUME NEW slot \in XSlots(media) PROVE slot \in SlotsAt(at)
  <2>1. PICK i \in DOMAIN media : slot \in ItemSlots(media[i], i) /\ Present(slot.url)
    BY <1>2 DEF SlotsOf
  <2>2. PICK scope \in Scopes : /\ Present(ItemUrl(media[i], scope))
                                /\ slot = Slot(scope, i, ItemUrl(media[i], scope))
    BY <1>1, <2>1, ItemSlotsAre
  <2>3. at[<<scope, i>>] = ItemUrl(media[i], scope)
    BY <1>1, <1>3
  <2>4. QED
    BY <1>1, <2>2, <2>3, SlotsAtIs
<1>6. ASSUME NEW slot \in SlotsAt(at) PROVE slot \in XSlots(media)
  <2>1. PICK scope \in Scopes, i \in Nat :
            Present(at[<<scope, i>>]) /\ slot = Slot(scope, i, at[<<scope, i>>])
    <3>1. /\ slot.scope \in Scopes /\ slot.index \in Nat
          /\ slot.url = at[<<slot.scope, slot.index>>] /\ Present(slot.url)
          /\ slot = Slot(slot.scope, slot.index, slot.url)
      BY <1>6, SlotsAtIs
    <3>2. QED
      BY <3>1
  <2>2. i \in DOMAIN media /\ at[<<scope, i>>] = ItemUrl(media[i], scope)
    BY <1>3, <1>4, <2>1
  <2>3. slot \in ItemSlots(media[i], i) /\ Present(slot.url)
    BY <1>1, <2>1, <2>2, ItemSlotsAre
  <2>4. QED
    BY <1>2, <2>2, <2>3 DEF SlotsOf
<1>7. QED
  BY <1>5, <1>6 DEF at

LEMMA HasXSlotIs ==
    ASSUME NEW item \in AnyItems
    PROVE  HasXSlot(item) <=> \E scope \in Scopes : Present(ItemUrl(item, scope))
<1> DEFINE media == <<item>>
<1>1. media \in Seq(AnyItems) /\ DOMAIN media = {1} /\ media[1] = item
  OBVIOUS
<1>2. XSlots(media) = SlotsOf(ItemSlots(item, 1))
  <2>1. XSlots(media) = SlotsOf(UNION {ItemSlots(media[i], i) : i \in DOMAIN media})
    BY DEF XSlots, ItemSlots
  <2> HIDE DEF media
  <2>2. UNION {ItemSlots(media[i], i) : i \in DOMAIN media} = ItemSlots(item, 1)
    BY <1>1
  <2>3. QED
    BY <2>1, <2>2
<1>3. HasXSlot(item) <=> \E slot : slot \in ItemSlots(item, 1) /\ Present(slot.url)
  BY <1>2 DEF HasXSlot, SlotsOf
<1>4. QED
  BY <1>3, ItemSlotsAre

\* A restored item: each owned URL was at its place in the old item, no slot is
\* lost, and a payload that drops no variant is taken as it is.
LEMMA RestoredItem ==
    ASSUME NEW o \in AnyItems, NEW n \in AnyItems,
           \/ n = NoItem
           \/ o = NoItem
           \/ /\ n.type = o.type
              /\ n.mediaUrl # EmptyUrl
              /\ n.variants # <<>> => Present(VideoUrl(n))
    PROVE  LET q == RestoreItem(o, n)
           IN  /\ q \in AnyItems
               /\ \/ q.mediaUrl = n.mediaUrl /\ q.type = n.type
                  \/ q.mediaUrl = o.mediaUrl /\ q.type = o.type
               /\ \A v \in DOMAIN q.variants :
                     \/ v \in DOMAIN o.variants /\ q.variants[v].url = o.variants[v].url
                     \/ v \in DOMAIN n.variants /\ q.variants[v].url = n.variants[v].url
               /\ \A scope \in Scopes : Present(ItemUrl(o, scope)) => Present(ItemUrl(q, scope))
               /\ \/ n.variants = <<>>
                  \/ /\ Len(n.variants) >= Len(o.variants)
                     /\ \A v \in DOMAIN n.variants : n.variants[v].url # NoUrl
                  => \A scope \in Scopes :
                        Present(ItemUrl(n, scope)) => ItemUrl(q, scope) = ItemUrl(n, scope)
<1> DEFINE q == RestoreItem(o, n)
<1>1. CASE ~HasXSlot(o)
  <2>1. q = n /\ \A scope \in Scopes : ~Present(ItemUrl(o, scope))
    BY <1>1, HasXSlotIs DEF RestoreItem
  <2> HIDE DEF q
  <2>2. QED
    BY <2>1 DEF q
<1>2. CASE HasXSlot(o) /\ n = NoItem
  <2>1. q = o /\ \A scope \in Scopes : ~Present(ItemUrl(n, scope))
    BY <1>2, ItemUrls DEF RestoreItem, Present
  <2> HIDE DEF q
  <2>2. QED
    BY <2>1 DEF q
<1>3. CASE HasXSlot(o) /\ n # NoItem
  <2> DEFINE variants == IF o.type = "photo" THEN n.variants
                         ELSE RestoreVariants(o.variants, n.variants)
  <2>1. o # NoItem
    BY <1>3, HasXSlotIs, ItemUrls DEF Present
  <2>2. /\ o.type \in {"photo", "video"} /\ n.type = o.type
        /\ o.mediaUrl \in AnyUrls /\ n.mediaUrl \in AnyUrls
        /\ o.variants \in Seq(AnyVariants) /\ n.variants \in Seq(AnyVariants)
        /\ n \in [type : {"photo", "video"}, mediaUrl : AnyUrls, variants : Seq(AnyVariants)]
    BY <1>3, <2>1, ItemShape
  <2>3. q = [n EXCEPT !.mediaUrl = Restored(o.mediaUrl, @), !.variants = variants]
    BY <1>3, Zenon DEF RestoreItem
  <2>4. variants \in Seq(AnyVariants)
    BY <2>2, RestoredVariantsUrls
  <2>5. Restored(o.mediaUrl, n.mediaUrl) \in {o.mediaUrl, n.mediaUrl}
    BY DEF Restored
  <2>6. /\ q \in AnyItems /\ q.type = o.type /\ q.variants = variants
        /\ q.mediaUrl = Restored(o.mediaUrl, n.mediaUrl)
    <3> HIDE DEF q, variants
    <3>1. QED
      BY <2>2, <2>3, <2>4, <2>5 DEF AnyItems
  <2>7. ASSUME NEW v \in DOMAIN variants
        PROVE  \/ v \in DOMAIN o.variants /\ variants[v].url = o.variants[v].url
               \/ v \in DOMAIN n.variants /\ variants[v].url = n.variants[v].url
    <3>1. CASE o.type = "photo"
      BY <3>1
    <3>2. CASE o.type # "photo"
      <4>1. variants = RestoreVariants(o.variants, n.variants)
        BY <3>2
      <4> HIDE DEF variants
      <4>2. \A i \in 1 .. Len(variants) :
                \/ i \in 1 .. Len(o.variants) /\ variants[i].url = o.variants[i].url
                \/ i \in 1 .. Len(n.variants) /\ variants[i].url = n.variants[i].url
        BY <2>2, <4>1, RestoredVariantsUrls, SMTT(30)
      <4>3. QED
        BY <2>2, <2>4, <4>2
    <3>3. QED
      BY <3>1, <3>2
  <2>8. /\ n.mediaUrl # EmptyUrl
        /\ n.variants = <<>> \/ Present(SelectedUrl(n.variants))
    BY <1>3, <2>1 DEF VideoUrl, SelectedUrl
  <2>9. /\ Present(o.mediaUrl) => Present(q.mediaUrl)
        /\ Present(n.mediaUrl) => q.mediaUrl = n.mediaUrl
    BY <2>6, <2>8 DEF Restored, Present
  <2>10. o.type # "photo" /\ Present(SelectedUrl(o.variants)) => Present(SelectedUrl(variants))
    BY <2>2, <2>8, StillSelected
  <2>11. ASSUME n.variants # <<>>, Len(n.variants) >= Len(o.variants),
                \A v \in DOMAIN n.variants : n.variants[v].url # NoUrl
         PROVE  variants = n.variants
    <3>1. \A v \in 1 .. Len(n.variants) : n.variants[v].url # NoUrl
      BY <2>2, <2>11
    <3>2. QED
      BY <2>2, <2>11, <3>1, FreshVariants
  <2>12. ~Present(NoUrl) /\ SelectedUrl(<<>>) = NoUrl
    BY NothingSelected DEF Present, SelectedUrl, Choices
  <2> HIDE DEF q, variants
  <2>13. ASSUME NEW scope \in Scopes, Present(ItemUrl(o, scope))
         PROVE  Present(ItemUrl(q, scope))
    BY <2>2, <2>6, <2>9, <2>10, <2>12, <2>13, ItemUrls DEF Scopes
  <2>14. ASSUME \/ n.variants = <<>>
                \/ /\ Len(n.variants) >= Len(o.variants)
                   /\ \A v \in DOMAIN n.variants : n.variants[v].url # NoUrl,
                NEW scope \in Scopes, Present(ItemUrl(n, scope))
         PROVE  ItemUrl(q, scope) = ItemUrl(n, scope)
    <3>1. n.variants # <<>> => variants = n.variants
      BY <2>11, <2>14
    <3>2. QED
      BY <2>2, <2>6, <2>9, <2>12, <2>14, <3>1, ItemUrls DEF Scopes
  <2>15. \A v \in DOMAIN q.variants :
             \/ v \in DOMAIN o.variants /\ q.variants[v].url = o.variants[v].url
             \/ v \in DOMAIN n.variants /\ q.variants[v].url = n.variants[v].url
    BY <2>6, <2>7
  <2>16. \/ q.mediaUrl = n.mediaUrl /\ q.type = n.type
         \/ q.mediaUrl = o.mediaUrl /\ q.type = o.type
    BY <2>2, <2>5, <2>6
  <2>17. QED
    BY <2>6, <2>13, <2>14, <2>15, <2>16 DEF q
<1>4. QED
  BY <1>1, <1>2, <1>3

\* The positions of a restored list.
LEMMA RestoredLength ==
    ASSUME NEW n \in Nat, NEW k \in Nat, NEW Slotted \in SUBSET (1 .. k)
    PROVE  LET length == LargestOf({n} \cup Slotted)
           IN  /\ length \in Nat
               /\ 1 .. n \subseteq 1 .. length
               /\ Slotted \subseteq 1 .. length
               /\ \A i \in 1 .. length :
                     /\ i > n => i \in 1 .. k /\ i \notin 1 .. n /\ ~(i > k)
                     /\ ~(i > n) => i \in 1 .. n
                     /\ i > k => i \notin 1 .. k
                     /\ ~(i > k) => i \in 1 .. k
<1> DEFINE S == {n} \cup Slotted
           length == LargestOf(S)
<1>1. length \in S /\ \A m \in S : m <= length
  <2>1. n + k \in Nat /\ S \in SUBSET (0 .. n + k) /\ S # {}
    OBVIOUS
  <2> HIDE DEF S
  <2>2. QED
    BY <2>1, LargestIsLargest
<1> HIDE DEF length
<1>2. /\ length \in Nat /\ n <= length
      /\ length = n \/ length \in 1 .. k
      /\ \A i \in Slotted : i \in Nat /\ 1 <= i /\ i <= length
  BY <1>1
<1>3. 1 .. n \subseteq 1 .. length /\ Slotted \subseteq 1 .. length
  BY <1>2
<1>4. ASSUME NEW i \in 1 .. length
      PROVE  /\ i > n => i \in 1 .. k /\ i \notin 1 .. n /\ ~(i > k)
             /\ ~(i > n) => i \in 1 .. n
             /\ i > k => i \notin 1 .. k
             /\ ~(i > k) => i \in 1 .. k
  BY <1>2
<1>5. QED
  BY <1>2, <1>3, <1>4 DEF length

\* RestoreList for the entries that have a slot and those that both lists have.
RestoredFrom(old, new, Slotted, R) ==
    [i \in 1 .. LargestOf({Len(new)} \cup Slotted) |->
        CASE i > Len(new) -> old[i]
          [] i > Len(old) -> new[i]
          [] OTHER        -> R[i]]

\* Entries that only one of the two has are taken as they are.
LEMMA RestoredList ==
    ASSUME NEW T, NEW old \in Seq(T), NEW new \in Seq(T), NEW Slotted, NEW R,
           \A i \in Slotted : i \in DOMAIN old,
           \A i \in DOMAIN old \cap DOMAIN new : R[i] \in T
    PROVE  LET r == RestoredFrom(old, new, Slotted, R)
           IN  /\ r \in Seq(T)
               /\ DOMAIN new \subseteq DOMAIN r
               /\ Slotted \subseteq DOMAIN r
               /\ \A i \in DOMAIN r :
                     /\ i \notin DOMAIN new => i \in DOMAIN old /\ r[i] = old[i]
                     /\ i \notin DOMAIN old => i \in DOMAIN new /\ r[i] = new[i]
                     /\ i \in DOMAIN old /\ i \in DOMAIN new => r[i] = R[i]
<1> DEFINE length == LargestOf({Len(new)} \cup Slotted)
           E(i) == CASE i > Len(new) -> old[i]
                     [] i > Len(old) -> new[i]
                     [] OTHER        -> R[i]
           r == [i \in 1 .. length |-> E(i)]
<1>1. /\ Len(new) \in Nat /\ Len(old) \in Nat
      /\ DOMAIN old = 1 .. Len(old) /\ DOMAIN new = 1 .. Len(new)
      /\ Slotted \in SUBSET (1 .. Len(old))
  OBVIOUS
<1>2. /\ length \in Nat
      /\ DOMAIN new \subseteq 1 .. length
      /\ Slotted \subseteq 1 .. length
      /\ \A i \in 1 .. length :
            /\ i > Len(new) => i \in DOMAIN old /\ i \notin DOMAIN new /\ ~(i > Len(old))
            /\ ~(i > Len(new)) => i \in DOMAIN new
            /\ i > Len(old) => i \notin DOMAIN old
            /\ ~(i > Len(old)) => i \in DOMAIN old
  <2>1. /\ length \in Nat
        /\ 1 .. Len(new) \subseteq 1 .. length
        /\ Slotted \subseteq 1 .. length
        /\ \A i \in 1 .. length :
              /\ i > Len(new) => i \in 1 .. Len(old) /\ i \notin 1 .. Len(new) /\ ~(i > Len(old))
              /\ ~(i > Len(new)) => i \in 1 .. Len(new)
              /\ i > Len(old) => i \notin 1 .. Len(old)
              /\ ~(i > Len(old)) => i \in 1 .. Len(old)
    BY <1>1, RestoredLength, Zenon
  <2>2. QED
    BY <1>1, <2>1, Zenon
<1> HIDE DEF length
<1>3. ASSUME NEW i \in 1 .. length
      PROVE  /\ E(i) \in T
             /\ i \notin DOMAIN new => i \in DOMAIN old /\ E(i) = old[i]
             /\ i \notin DOMAIN old => i \in DOMAIN new /\ E(i) = new[i]
             /\ i \in DOMAIN old /\ i \in DOMAIN new => E(i) = R[i]
  <2>1. CASE i > Len(new)
    <3>1. i \in DOMAIN old /\ i \notin DOMAIN new /\ E(i) = old[i]
      BY <1>2, <2>1
    <3> HIDE DEF E
    <3>2. QED
      BY <3>1
  <2>2. CASE ~(i > Len(new)) /\ i > Len(old)
    <3>1. i \in DOMAIN new /\ i \notin DOMAIN old /\ E(i) = new[i]
      BY <1>2, <2>2
    <3> HIDE DEF E
    <3>2. QED
      BY <3>1
  <2>3. CASE ~(i > Len(new)) /\ ~(i > Len(old))
    <3>1. i \in DOMAIN new /\ i \in DOMAIN old /\ E(i) = R[i]
      BY <1>2, <2>3
    <3> HIDE DEF E
    <3>2. QED
      BY <3>1
  <2>4. QED
    BY <2>1, <2>2, <2>3
<1> HIDE DEF E
<1>4. r \in Seq(T) /\ DOMAIN r = 1 .. length /\ \A i \in 1 .. length : r[i] = E(i)
  BY <1>2, <1>3
<1> HIDE DEF r
<1>5. /\ r \in Seq(T)
      /\ DOMAIN new \subseteq DOMAIN r
      /\ Slotted \subseteq DOMAIN r
      /\ \A i \in DOMAIN r :
            /\ i \notin DOMAIN new => i \in DOMAIN old /\ r[i] = old[i]
            /\ i \notin DOMAIN old => i \in DOMAIN new /\ r[i] = new[i]
            /\ i \in DOMAIN old /\ i \in DOMAIN new => r[i] = R[i]
  BY <1>2, <1>3, <1>4
<1>6. QED
  BY <1>5 DEF r, E, length, RestoredFrom

LEMMA RestoredMedia ==
    ASSUME NEW old \in Seq(AnyItems), NEW new \in Seq(AnyItems), SameItems(old, new)
    PROVE  LET r == RestoreMedia(old, new)
           IN  /\ r \in Seq(AnyItems)
               /\ \A i \in DOMAIN r :
                     \/ i \in DOMAIN old /\ r[i] = old[i]
                     \/ i \in DOMAIN new /\ r[i] = new[i]
                     \/ i \in DOMAIN old \cap DOMAIN new /\ r[i] = RestoreItem(old[i], new[i])
               /\ \A p \in AllPlaces : Present(XAt(old)[p]) => Present(XAt(r)[p])
               /\ SameVariants(old, new) =>
                     \A p \in AllPlaces : Present(XAt(new)[p]) => XAt(r)[p] = XAt(new)[p]
<1> DEFINE r == RestoreMedia(old, new)
           Slotted == {i \in DOMAIN old : HasXSlot(old[i])}
           length == LargestOf({Len(new)} \cup Slotted)
<1>1. /\ DOMAIN old = 1 .. Len(old) /\ DOMAIN new = 1 .. Len(new)
      /\ \A i \in DOMAIN old : old[i] \in AnyItems
      /\ \A i \in DOMAIN new : new[i] \in AnyItems
      /\ Slotted \in SUBSET (1 .. Len(old))
  OBVIOUS
<1>2. ASSUME NEW i \in DOMAIN old, i \in DOMAIN new
      PROVE  LET q == RestoreItem(old[i], new[i])
             IN  /\ q \in AnyItems
                 /\ \A scope \in Scopes :
                       Present(ItemUrl(old[i], scope)) => Present(ItemUrl(q, scope))
                 /\ SameVariants(old, new) => \A scope \in Scopes :
                       Present(ItemUrl(new[i], scope)) => ItemUrl(q, scope) = ItemUrl(new[i], scope)
  <2>1. /\ old[i] \in AnyItems /\ new[i] \in AnyItems
        /\ \/ new[i] = NoItem
           \/ old[i] = NoItem
           \/ /\ new[i].type = old[i].type
              /\ new[i].mediaUrl # EmptyUrl
              /\ new[i].variants # <<>> => Present(VideoUrl(new[i]))
    BY <1>1, <1>2 DEF SameItems
  <2>2. SameVariants(old, new) =>
            \/ new[i].variants = <<>>
            \/ /\ Len(new[i].variants) >= Len(old[i].variants)
               /\ \A v \in DOMAIN new[i].variants : new[i].variants[v].url # NoUrl
    BY <1>2 DEF SameVariants
  <2>3. LET q == RestoreItem(old[i], new[i])
        IN  /\ q \in AnyItems
            /\ \A scope \in Scopes :
                  Present(ItemUrl(old[i], scope)) => Present(ItemUrl(q, scope))
            /\ \/ new[i].variants = <<>>
               \/ /\ Len(new[i].variants) >= Len(old[i].variants)
                  /\ \A v \in DOMAIN new[i].variants : new[i].variants[v].url # NoUrl
               => \A scope \in Scopes :
                     Present(ItemUrl(new[i], scope)) => ItemUrl(q, scope) = ItemUrl(new[i], scope)
    BY <2>1, RestoredItem
  <2>4. QED
    BY <2>2, <2>3
<1> DEFINE R == [i \in Nat |-> RestoreItem(old[i], new[i])]
<1>3. r = RestoredFrom(old, new, Slotted, R)
  <2>1. r = [i \in 1 .. length |->
                CASE i > Len(new) -> old[i]
                  [] i > Len(old) -> new[i]
                  [] OTHER        -> RestoreItem(old[i], new[i])]
    BY DEF RestoreMedia, RestoreList
  <2>2. length \in Nat
    <3>1. Len(old) \in Nat /\ Len(new) \in Nat
      OBVIOUS
    <3> HIDE DEF Slotted
    <3>2. QED
      BY <1>1, <3>1, RestoredLength
  <2>3. \A i \in 1 .. length : R[i] = RestoreItem(old[i], new[i])
    <3> HIDE DEF length
    <3>1. QED
      BY <2>2
  <2> HIDE DEF r, R, length
  <2>4. r = [i \in 1 .. length |->
                CASE i > Len(new) -> old[i]
                  [] i > Len(old) -> new[i]
                  [] OTHER        -> R[i]]
    BY <2>1, <2>3
  <2>5. QED
    BY <2>4 DEF RestoredFrom, length
<1>4. \A i \in DOMAIN old \cap DOMAIN new : R[i] = RestoreItem(old[i], new[i])
  BY <1>1
<1> HIDE DEF r, R
<1>5. /\ r \in Seq(AnyItems)
      /\ DOMAIN new \subseteq DOMAIN r
      /\ Slotted \subseteq DOMAIN r
      /\ \A i \in DOMAIN r :
            /\ i \notin DOMAIN new => i \in DOMAIN old /\ r[i] = old[i]
            /\ i \notin DOMAIN old => i \in DOMAIN new /\ r[i] = new[i]
            /\ i \in DOMAIN old /\ i \in DOMAIN new => r[i] = R[i]
  <2>1. \A i \in DOMAIN old \cap DOMAIN new : R[i] \in AnyItems
    BY <1>2, <1>4
  <2>2. \A i \in Slotted : i \in DOMAIN old
    OBVIOUS
  <2> HIDE DEF Slotted
  <2>3. LET full == RestoredFrom(old, new, Slotted, R)
        IN  /\ full \in Seq(AnyItems)
            /\ DOMAIN new \subseteq DOMAIN full
            /\ Slotted \subseteq DOMAIN full
            /\ \A i \in DOMAIN full :
                  /\ i \notin DOMAIN new => i \in DOMAIN old /\ full[i] = old[i]
                  /\ i \notin DOMAIN old => i \in DOMAIN new /\ full[i] = new[i]
                  /\ i \in DOMAIN old /\ i \in DOMAIN new => full[i] = R[i]
    BY <2>1, <2>2, RestoredList
  <2>4. QED
    BY <1>3, <2>3
<1>6. ASSUME NEW i \in DOMAIN r
      PROVE  /\ \/ i \in DOMAIN old /\ r[i] = old[i]
                \/ i \in DOMAIN new /\ r[i] = new[i]
                \/ i \in DOMAIN old \cap DOMAIN new /\ r[i] = RestoreItem(old[i], new[i])
             /\ \A scope \in Scopes : i \in DOMAIN old /\ Present(ItemUrl(old[i], scope)) =>
                   Present(ItemUrl(r[i], scope))
             /\ SameVariants(old, new) => \A scope \in Scopes :
                   i \in DOMAIN new /\ Present(ItemUrl(new[i], scope)) =>
                       ItemUrl(r[i], scope) = ItemUrl(new[i], scope)
  BY <1>2, <1>4, <1>5
<1>7. \A media \in Seq(AnyItems), p \in AllPlaces :
          XAt(media)[p] = IF p[2] \in DOMAIN media THEN ItemUrl(media[p[2]], p[1]) ELSE NoUrl
  BY DEF XAt
<1>8. ~Present(NoUrl) /\ \A p \in AllPlaces : p[1] \in Scopes
  BY PlaceIsPair DEF Present
<1>9. ASSUME NEW p \in AllPlaces, Present(XAt(old)[p]) PROVE Present(XAt(r)[p])
  <2>1. p[2] \in DOMAIN old /\ Present(ItemUrl(old[p[2]], p[1]))
    BY <1>7, <1>8, <1>9
  <2>2. p[2] \in Slotted
    BY <1>1, <1>8, <2>1, HasXSlotIs DEF Slotted
  <2>3. p[2] \in DOMAIN r
    BY <1>5, <2>2
  <2>4. Present(ItemUrl(r[p[2]], p[1]))
    BY <1>6, <1>8, <2>1, <2>3
  <2>5. QED
    BY <1>5, <1>7, <2>3, <2>4
<1>10. ASSUME SameVariants(old, new), NEW p \in AllPlaces, Present(XAt(new)[p])
       PROVE  XAt(r)[p] = XAt(new)[p]
  <2>1. p[2] \in DOMAIN new /\ Present(ItemUrl(new[p[2]], p[1]))
    BY <1>7, <1>8, <1>10
  <2>2. p[2] \in DOMAIN r
    BY <1>5, <2>1
  <2>3. ItemUrl(r[p[2]], p[1]) = ItemUrl(new[p[2]], p[1])
    BY <1>6, <1>8, <1>10, <2>1, <2>2
  <2>4. QED
    BY <1>5, <1>7, <2>1, <2>2, <2>3
<1>11. QED
  BY <1>5, <1>6, <1>9, <1>10 DEF r

-----------------------------------------------------------------------------
(***************************************************************************)
(* Owned URLs that are put into an X post                                  *)
(***************************************************************************)

\* The video URL of an item is set in the variant that is selected.  If it is an
\* owned URL, a variant with this URL is selected afterwards, maybe another.
LEMMA VariantIsSet ==
    ASSUME NEW variants \in Seq(AnyVariants), NEW url \in AnyUrls,
           Present(SelectedUrl(variants)),
           NEW mine, \A v \in DOMAIN variants : IsOwned(variants[v].url) => variants[v].url = mine,
           url = SelectedUrl(variants) \/ (url = mine /\ IsOwned(mine))
    PROVE  LET r == [variants EXCEPT ![SelectedVariant(variants)].url = url]
           IN  /\ r \in Seq(AnyVariants)
               /\ DOMAIN r = DOMAIN variants
               /\ \A v \in DOMAIN r : r[v].url = variants[v].url \/ r[v].url = url
               /\ SelectedUrl(r) = url
<1> DEFINE c == SelectedVariant(variants)
           r == [variants EXCEPT ![c].url = url]
           t == SelectedVariant(r)
<1>1. /\ c \in Choices(variants) /\ c \in 1 .. Len(variants)
      /\ SelectedUrl(variants) = variants[c].url
  BY SelectedIsPresent
<1>2. \A v \in DOMAIN variants : variants[v] \in AnyVariants
  OBVIOUS
<1> HIDE DEF c
<1>3. r = [variants EXCEPT ![c] = [variants[c] EXCEPT !.url = url]]
  BY <1>1
<1>4. /\ [variants[c] EXCEPT !.url = url] \in AnyVariants
      /\ [variants[c] EXCEPT !.url = url].url = url
      /\ [variants[c] EXCEPT !.url = url].playable = variants[c].playable
  BY <1>1, <1>2 DEF AnyVariants
<1>5. /\ r \in Seq(AnyVariants) /\ DOMAIN r = DOMAIN variants
      /\ r[c].url = url /\ r[c].playable = variants[c].playable
      /\ \A v \in DOMAIN r : v # c => r[v] = variants[v]
  BY <1>1, <1>3, <1>4
<1> HIDE DEF r
<1>6. \A v \in DOMAIN r : r[v].url = variants[v].url \/ r[v].url = url
  BY <1>5
<1>7. SelectedUrl(r) = url
  <2>1. CASE url = SelectedUrl(variants)
    <3>1. variants[c] = [variants[c] EXCEPT !.url = url]
      BY <1>1, <1>2, <2>1 DEF AnyVariants
    <3>2. r = variants
      BY <1>1, <1>3, <3>1
    <3>3. QED
      BY <2>1, <3>2
  <2>2. CASE url = mine /\ IsOwned(mine)
    <3>1. url # NoUrl
      BY <2>2 DEF IsOwned
    <3>2. c \in Choices(r)
      BY <1>1, <1>5, <3>1 DEF Choices
    <3>3. /\ t \in Choices(r) /\ t # 0
          /\ Preferred(r[t], t, r[c], c)
      BY <1>5, <3>2, SelectedIsPreferred
    <3>4. IsOwned(r[t].url)
      BY <1>5, <2>2, <3>3 DEF Preferred
    <3>5. t \in DOMAIN r
      BY <3>3 DEF Choices
    <3>6. r[t].url = url
      BY <1>5, <1>6, <2>2, <3>4, <3>5
    <3>7. QED
      BY <3>3, <3>6, Zenon DEF SelectedUrl
  <2>3. QED
    BY <2>1, <2>2
<1>8. QED
  BY <1>5, <1>6, <1>7 DEF r, c

\* What ReuseMedia makes of an item.
ReusedItem(older, item, i) ==
    CASE item.type = "photo" ->
           SetImage(item, Reused(older, "images", i, item.mediaUrl))
      [] item.type = "video" ->
           SetVideo(SetImage(item, Reused(older, "posters", i, item.mediaUrl)),
                    Reused(older, "videos", i, VideoUrl(item)))
      [] OTHER -> item

LEMMA ItemIsReused ==
    ASSUME NEW owned \in SUBSET OwnedUrls, NEW older, Reuses(older, owned),
           NEW item \in AnyItems, NEW i \in Nat, ItemFits(item, i, owned)
    PROVE  LET q == ReusedItem(older, item, i)
           IN  /\ q \in AnyItems
               /\ ItemFits(q, i, owned)
               /\ \A scope \in Scopes :
                     ItemUrl(q, scope) =
                         IF Present(ItemUrl(item, scope)) /\ Owned(scope, i) \in owned
                         THEN Owned(scope, i) ELSE ItemUrl(item, scope)
<1> DEFINE q == ReusedItem(older, item, i)
           main == MainScope(item)
           image == IF Owned(main, i) \in owned THEN Owned(main, i) ELSE item.mediaUrl
           shown == SetImage(item, image)
<1>1. /\ item.mediaUrl \in AnyUrls /\ item.variants \in Seq(AnyVariants)
      /\ Scopes = {"images", "videos", "posters", "avatars"}
      /\ ~Present(NoUrl)
      /\ OwnedUrls \subseteq AnyUrls
      /\ main \in Scopes
  BY ItemShape DEF Scopes, Present, MainScope, AnyUrls
<1>2. CASE item = NoItem
  <2>1. q = item
    BY <1>2, ItemShape DEF ReusedItem
  <2>2. \A scope \in Scopes : ItemUrl(item, scope) = NoUrl
    BY <1>2, ItemUrls
  <2> HIDE DEF q
  <2>3. QED
    BY <1>1, <2>1, <2>2 DEF q
<1>3. ASSUME item # NoItem
      PROVE  /\ shown \in [type : {"photo", "video"}, mediaUrl : AnyUrls,
                           variants : Seq(AnyVariants)]
             /\ shown.type = item.type /\ shown.variants = item.variants
             /\ shown.mediaUrl = IF Present(item.mediaUrl) THEN image ELSE item.mediaUrl
             /\ Fits(shown.mediaUrl, main, i, owned)
  <2>1. item \in [type : {"photo", "video"}, mediaUrl : AnyUrls, variants : Seq(AnyVariants)]
    BY <1>3, ItemShape
  <2>2. image \in AnyUrls
    BY <1>1
  <2>3. Fits(item.mediaUrl, main, i, owned)
    BY DEF ItemFits
  <2>4. Fits(image, main, i, owned)
    BY <2>3 DEF Fits
  <2> HIDE DEF image, main
  <2>5. QED
    BY <2>1, <2>2, <2>3, <2>4 DEF SetImage
<1>4. Reused(older, main, i, item.mediaUrl) = image
  BY <1>1 DEF Reuses
<1>5. CASE item.type = "photo"
  <2>1. item # NoItem /\ main = "images"
    BY <1>5, ItemShape, ItemUrls
  <2>2. q = shown
    BY <1>4, <1>5, <2>1 DEF ReusedItem
  <2>3. q \in AnyItems /\ q.type = "photo" /\ MainScope(q) = main /\ q.variants = item.variants
    BY <1>3, <1>5, <2>1, <2>2 DEF AnyItems, MainScope
  <2>4. q.mediaUrl = IF Present(item.mediaUrl) THEN image ELSE item.mediaUrl
    BY <1>3, <2>1, <2>2
  <2>5. ItemFits(q, i, owned)
    BY <1>3, <2>1, <2>2, <2>3 DEF ItemFits
  <2> HIDE DEF q, shown
  <2>6. ASSUME NEW scope \in Scopes
        PROVE  ItemUrl(q, scope) =
                   IF Present(ItemUrl(item, scope)) /\ Owned(scope, i) \in owned
                   THEN Owned(scope, i) ELSE ItemUrl(item, scope)
    BY <1>1, <1>5, <2>1, <2>3, <2>4, ItemUrls
  <2>7. QED
    BY <2>3, <2>5, <2>6 DEF q
<1>6. CASE item.type = "video"
  <2> DEFINE url == IF Owned("videos", i) \in owned THEN Owned("videos", i) ELSE VideoUrl(item)
  <2>1. item # NoItem /\ main = "posters"
    BY <1>6, ItemShape, ItemUrls
  <2>2. /\ VideoUrl(item) = SelectedUrl(item.variants)
        /\ VideoUrl(shown) = SelectedUrl(item.variants)
    BY <1>3, <2>1 DEF VideoUrl, SelectedUrl
  <2>3. VideoUrl(item) \in AnyUrls
    <3>1. CASE Present(SelectedUrl(item.variants))
      <4>1. /\ SelectedVariant(item.variants) \in 1 .. Len(item.variants)
            /\ SelectedUrl(item.variants) = item.variants[SelectedVariant(item.variants)].url
        BY <1>1, <3>1, SelectedIsPresent
      <4>2. item.variants[SelectedVariant(item.variants)] \in AnyVariants
        BY <1>1, <4>1
      <4>3. QED
        BY <2>2, <4>1, <4>2 DEF AnyVariants
    <3>2. CASE ~Present(SelectedUrl(item.variants))
      BY <2>2, <3>2 DEF Present, AnyUrls, URLs
    <3>3. QED
      BY <3>1, <3>2
  <2>4. Reused(older, "videos", i, VideoUrl(item)) = url
    BY <1>1, <2>3 DEF Reuses
  <2>5. q = SetVideo(shown, url)
    BY <1>4, <1>6, <2>1, <2>4 DEF ReusedItem
  <2>6. url \in AnyUrls
    BY <1>1, <2>3
  <2>7. \A v \in DOMAIN item.variants : Fits(item.variants[v].url, "videos", i, owned)
    BY DEF ItemFits
  <2>8. /\ q \in AnyItems /\ q.type = "video" /\ q.mediaUrl = shown.mediaUrl
        /\ q.variants \in Seq(AnyVariants)
        /\ \A v \in DOMAIN q.variants : Fits(q.variants[v].url, "videos", i, owned)
        /\ SelectedUrl(q.variants) =
              IF Present(SelectedUrl(item.variants)) THEN url ELSE SelectedUrl(item.variants)
    <3>1. CASE ~Present(SelectedUrl(item.variants))
      <4>1. q = shown
        BY <2>2, <2>5, <3>1 DEF SetVideo, SelectedUrl, VideoUrl, Present
      <4>2. q \in AnyItems /\ q.type = "video"
        BY <1>3, <1>6, <2>1, <4>1 DEF AnyItems
      <4>3. q.variants = item.variants
        BY <1>3, <2>1, <4>1
      <4> HIDE DEF q, shown
      <4>4. QED
        BY <1>1, <2>7, <3>1, <4>1, <4>2, <4>3
    <3>2. CASE Present(SelectedUrl(item.variants))
      <4> DEFINE c == SelectedVariant(item.variants)
                 set == [item.variants EXCEPT ![c].url = url]
      <4>1. c # 0 /\ Present(item.variants[c].url)
        BY <3>2 DEF SelectedUrl, Present
      <4>2. q = [shown EXCEPT !.variants[c].url = url]
        <5>1. shown.variants = item.variants
          BY <1>3, <2>1
        <5> HIDE DEF shown, url, q
        <5>2. QED
          BY <2>5, <4>1, <5>1 DEF SetVideo
      <4>3. \A v \in DOMAIN item.variants :
                IsOwned(item.variants[v].url) => item.variants[v].url = Owned("videos", i)
        BY <2>7 DEF Fits
      <4>4. url = SelectedUrl(item.variants) \/ (url = Owned("videos", i) /\ IsOwned(Owned("videos", i)))
        BY <1>1, <2>2, OwnedAt
      <4> HIDE DEF url
      <4>5. /\ set \in Seq(AnyVariants)
            /\ DOMAIN set = DOMAIN item.variants
            /\ \A v \in DOMAIN set : set[v].url = item.variants[v].url \/ set[v].url = url
            /\ SelectedUrl(set) = url
        BY <1>1, <2>6, <3>2, <4>3, <4>4, VariantIsSet
      <4>6. Fits(url, "videos", i, owned)
        <5>1. CASE Owned("videos", i) \in owned
          BY <5>1 DEF Fits, url
        <5>2. CASE Owned("videos", i) \notin owned
          <6>1. url = item.variants[c].url
            BY <2>2, <4>1, <5>2 DEF url, SelectedUrl
          <6>2. c \in DOMAIN item.variants
            BY <1>1, <3>2, SelectedIsPresent
          <6>3. QED
            BY <2>7, <6>1, <6>2
        <5>3. QED
          BY <5>1, <5>2
      <4>7. /\ q.variants = set /\ q.type = "video" /\ q.mediaUrl = shown.mediaUrl
            /\ q \in [type : {"photo", "video"}, mediaUrl : AnyUrls, variants : Seq(AnyVariants)]
        <5>1. shown \in [type : {"photo", "video"}, mediaUrl : AnyUrls, variants : Seq(AnyVariants)]
          BY <1>3, <2>1
        <5>2. shown.type = "video" /\ shown.variants = item.variants
          BY <1>3, <1>6, <2>1
        <5>3. q = [shown EXCEPT !.variants = set]
          BY <4>2, <5>1, <5>2
        <5> HIDE DEF q, shown, set
        <5>4. QED
          BY <4>5, <5>1, <5>2, <5>3
      <4>8. \A v \in DOMAIN q.variants : Fits(q.variants[v].url, "videos", i, owned)
        <5> HIDE DEF q, set
        <5>1. QED
          BY <2>7, <4>5, <4>6, <4>7
      <4> HIDE DEF q, set, shown
      <4>9. QED
        BY <3>2, <4>5, <4>7, <4>8 DEF AnyItems
    <3>3. QED
      BY <3>1, <3>2
  <2>9. q.mediaUrl = IF Present(item.mediaUrl) THEN image ELSE item.mediaUrl
    BY <1>3, <2>1, <2>8
  <2>10. ItemFits(q, i, owned)
    <3>1. MainScope(q) = main
      BY <1>6, <2>8 DEF MainScope
    <3>2. Fits(q.mediaUrl, main, i, owned)
      BY <1>3, <2>1, <2>8
    <3> HIDE DEF q, shown, main
    <3>3. QED
      BY <2>8, <3>1, <3>2 DEF ItemFits
  <2> HIDE DEF q, shown
  <2>11. ASSUME NEW scope \in Scopes
         PROVE  ItemUrl(q, scope) =
                    IF Present(ItemUrl(item, scope)) /\ Owned(scope, i) \in owned
                    THEN Owned(scope, i) ELSE ItemUrl(item, scope)
    BY <1>1, <1>6, <2>1, <2>2, <2>8, <2>9, ItemUrls
  <2>12. QED
    BY <2>8, <2>10, <2>11 DEF q
<1>7. QED
  BY <1>2, <1>5, <1>6, ItemShape

LEMMA MediaIsReused ==
    ASSUME NEW owned \in SUBSET OwnedUrls, NEW older, Reuses(older, owned),
           NEW media \in Seq(AnyItems), MediaFits(media, owned)
    PROVE  LET r == ReuseMedia(older, media)
           IN  /\ r \in Seq(AnyItems)
               /\ MediaFits(r, owned)
               /\ XAt(r) = After(XAt(media), owned)
<1> DEFINE r == ReuseMedia(older, media)
<1>1. /\ DOMAIN media = 1 .. Len(media) /\ Len(media) \in Nat
      /\ \A i \in DOMAIN media : i \in Nat /\ media[i] \in AnyItems
  OBVIOUS
<1>2. r = [i \in DOMAIN media |-> ReusedItem(older, media[i], i)]
  BY DEF ReuseMedia, ReusedItem
<1>3. ASSUME NEW i \in DOMAIN media
      PROVE  LET q == ReusedItem(older, media[i], i)
             IN  /\ q \in AnyItems
                 /\ ItemFits(q, i, owned)
                 /\ \A scope \in Scopes :
                       ItemUrl(q, scope) =
                           IF Present(ItemUrl(media[i], scope)) /\ Owned(scope, i) \in owned
                           THEN Owned(scope, i) ELSE ItemUrl(media[i], scope)
  <2>1. ItemFits(media[i], i, owned)
    BY DEF MediaFits
  <2>2. QED
    BY <1>1, <2>1, ItemIsReused
<1> HIDE DEF r
<1>4. /\ DOMAIN r = DOMAIN media
      /\ \A i \in DOMAIN r : r[i] = ReusedItem(older, media[i], i)
  BY <1>2
<1>5. r \in Seq(AnyItems)
  BY <1>1, <1>2, <1>3
<1>6. MediaFits(r, owned)
  BY <1>3, <1>4 DEF MediaFits
<1>7. XAt(r) = After(XAt(media), owned)
  <2> DEFINE at == XAt(media)
             next == XAt(r)
  <2>1. /\ at = [p \in AllPlaces |-> at[p]]
        /\ \A p \in AllPlaces :
              at[p] = IF p[2] \in DOMAIN media THEN ItemUrl(media[p[2]], p[1]) ELSE NoUrl
    BY DEF XAt
  <2>2. /\ next = [p \in AllPlaces |-> next[p]]
        /\ \A p \in AllPlaces :
              next[p] = IF p[2] \in DOMAIN r THEN ItemUrl(r[p[2]], p[1]) ELSE NoUrl
    BY DEF XAt
  <2> HIDE DEF at, next
  <2>3. ASSUME NEW p \in AllPlaces
        PROVE  next[p] = IF Present(at[p]) /\ Owned(p[1], p[2]) \in owned
                         THEN Owned(p[1], p[2]) ELSE at[p]
    <3>1. CASE p[2] \in DOMAIN media
      BY <1>3, <1>4, <2>1, <2>2, <3>1, PlaceIsPair
    <3>2. CASE p[2] \notin DOMAIN media
      BY <1>4, <2>1, <2>2, <3>2 DEF Present
    <3>3. QED
      BY <3>1, <3>2
  <2>4. next = After(at, owned)
    BY <2>2, <2>3 DEF After
  <2>5. QED
    BY <2>4 DEF at, next
<1>8. QED
  BY <1>5, <1>6, <1>7 DEF r

LEMMA XPlacesFit ==
    ASSUME NEW owned \in SUBSET OwnedUrls, NEW media \in Seq(AnyItems), MediaFits(media, owned)
    PROVE  PlacesFit(XAt(media), owned)
<1> SUFFICES ASSUME NEW p \in AllPlaces, IsOwned(XAt(media)[p])
             PROVE  XAt(media)[p] = Owned(p[1], p[2]) /\ XAt(media)[p] \in owned
  BY DEF PlacesFit, Fits
<1> DEFINE i == p[2]
           item == media[i]
<1>1. i \in DOMAIN media /\ XAt(media)[p] = ItemUrl(item, p[1])
  BY DEF XAt, IsOwned
<1>2. item \in AnyItems /\ ItemFits(item, i, owned) /\ item.variants \in Seq(AnyVariants)
  BY <1>1, ItemShape DEF MediaFits
<1> HIDE DEF i, item
<1>3. CASE p[1] = MainScope(item)
  BY <1>1, <1>2, <1>3 DEF ItemUrl, ItemFits, Fits, i
<1>4. CASE p[1] # MainScope(item)
  <2>1. p[1] = "videos" /\ ItemUrl(item, p[1]) = SelectedUrl(item.variants)
    BY <1>1, <1>4 DEF ItemUrl, IsOwned
  <2> DEFINE s == SelectedVariant(item.variants)
  <2>2. Present(SelectedUrl(item.variants))
    BY <1>1, <2>1, OwnedIsPresent
  <2>3. s \in DOMAIN item.variants /\ SelectedUrl(item.variants) = item.variants[s].url
    BY <1>2, <2>2, SelectedIsPresent
  <2> HIDE DEF s
  <2>4. QED
    BY <1>1, <1>2, <2>1, <2>3 DEF ItemFits, Fits, i
<1>5. QED
  BY <1>3, <1>4

LEMMA PayloadItems ==
    ASSUME NEW new \in Seq(Items), NEW owned
    PROVE  new \in Seq(AnyItems) /\ MediaFits(new, owned)
<1>1. ASSUME NEW url \in URLs PROVE url \in AnyUrls /\ ~IsOwned(url)
  BY DEF AnyUrls, URLs, IsOwned
<1>2. ASSUME NEW variants \in Seq(Variants)
      PROVE  /\ variants \in Seq(AnyVariants)
             /\ \A v \in DOMAIN variants : ~IsOwned(variants[v].url)
  <2>1. Variants \subseteq AnyVariants /\ \A v \in Variants : v.url \in URLs
    BY <1>1 DEF Variants, AnyVariants
  <2>2. QED
    BY <1>1, <2>1
<1>3. ASSUME NEW item \in Items, NEW i
      PROVE  item \in AnyItems /\ ItemFits(item, i, owned)
  <2>1. CASE item = NoItem
    <3>1. item.mediaUrl = NoUrl /\ item.variants = <<>>
      BY <2>1 DEF NoItem, Item
    <3>2. QED
      BY <2>1, <3>1 DEF AnyItems, ItemFits, Fits, IsOwned
  <2>2. CASE item # NoItem
    <3>1. item \in [type : {"photo", "video"}, mediaUrl : URLs, variants : Seq(Variants)]
      BY <2>2 DEF Items
    <3>2. /\ item.type \in {"photo", "video"} /\ item.mediaUrl \in URLs
          /\ item.variants \in Seq(Variants)
          /\ item = [type |-> item.type, mediaUrl |-> item.mediaUrl, variants |-> item.variants]
      BY <3>1
    <3>3. item.mediaUrl \in AnyUrls /\ ~IsOwned(item.mediaUrl) /\ item.variants \in Seq(AnyVariants)
      BY <1>1, <1>2, <3>2
    <3>4. item \in AnyItems
      BY <3>2, <3>3 DEF AnyItems
    <3>5. ItemFits(item, i, owned)
      BY <1>2, <3>2, <3>3 DEF ItemFits, Fits
    <3>6. QED
      BY <3>4, <3>5
  <2>3. QED
    BY <2>1, <2>2
<1>4. new \in Seq(AnyItems)
  <2>1. Items \subseteq AnyItems
    BY <1>3
  <2>2. QED
    BY <2>1
<1>5. \A i \in DOMAIN new : new[i] \in Items
  OBVIOUS
<1>6. \A i \in DOMAIN new : ItemFits(new[i], i, owned)
  BY <1>3, <1>5, Zenon
<1>7. QED
  BY <1>4, <1>6 DEF MediaFits

LEMMA RestoredMediaFits ==
    ASSUME NEW owned, NEW old \in Seq(AnyItems), MediaFits(old, owned),
           NEW new \in Seq(Items), SameItems(old, new)
    PROVE  MediaFits(RestoreMedia(old, new), owned)
<1> DEFINE r == RestoreMedia(old, new)
<1>1. new \in Seq(AnyItems) /\ MediaFits(new, owned) /\ MediaFits(new, {})
  BY PayloadItems
<1>2. \A i \in DOMAIN r :
          \/ i \in DOMAIN old /\ r[i] = old[i]
          \/ i \in DOMAIN new /\ r[i] = new[i]
          \/ i \in DOMAIN old \cap DOMAIN new /\ r[i] = RestoreItem(old[i], new[i])
  BY <1>1, RestoredMedia
<1>3. ASSUME NEW i \in DOMAIN old \cap DOMAIN new
      PROVE  ItemFits(RestoreItem(old[i], new[i]), i, owned)
  <2> DEFINE q == RestoreItem(old[i], new[i])
  <2>1. /\ old[i] \in AnyItems /\ new[i] \in AnyItems
        /\ \/ new[i] = NoItem
           \/ old[i] = NoItem
           \/ /\ new[i].type = old[i].type
              /\ new[i].mediaUrl # EmptyUrl
              /\ new[i].variants # <<>> => Present(VideoUrl(new[i]))
    BY <1>1 DEF SameItems
  <2>2. /\ \/ q.mediaUrl = new[i].mediaUrl /\ q.type = new[i].type
           \/ q.mediaUrl = old[i].mediaUrl /\ q.type = old[i].type
        /\ \A v \in DOMAIN q.variants :
              \/ v \in DOMAIN old[i].variants /\ q.variants[v].url = old[i].variants[v].url
              \/ v \in DOMAIN new[i].variants /\ q.variants[v].url = new[i].variants[v].url
    BY <2>1, RestoredItem
  <2>3. ItemFits(old[i], i, owned) /\ ItemFits(new[i], i, owned)
    BY <1>1 DEF MediaFits
  <2> HIDE DEF q
  <2>4. Fits(q.mediaUrl, MainScope(q), i, owned)
    BY <2>2, <2>3 DEF ItemFits, MainScope
  <2>5. \A v \in DOMAIN q.variants : Fits(q.variants[v].url, "videos", i, owned)
    BY <2>2, <2>3 DEF ItemFits
  <2>6. QED
    BY <2>4, <2>5 DEF ItemFits, q
<1> HIDE DEF r
<1>4. MediaFits(r, owned)
  BY <1>1, <1>2, <1>3 DEF MediaFits
<1>5. QED
  BY <1>4 DEF r

LEMMA XRefreshes ==
    ASSUME NEW owned \in SUBSET OwnedUrls, NEW media, XInv(media, owned),
           NEW new \in Seq(Items), SameItems(media, new)
    PROVE  LET next == XReconcile(media, new)
           IN  /\ XInv(next, owned)
               /\ Places(XSlots(media)) \subseteq Places(XSlots(next))
               /\ SameVariants(media, new) =>
                     \A slot \in XSlots(new) :
                         \/ slot \in XSlots(next)
                         \/ <<slot.scope, slot.index>> \in Places(OwnedIn(XSlots(media)))
<1> DEFINE mid == RestoreMedia(media, new)
           next == XReconcile(media, new)
<1>1. /\ media \in Seq(AnyItems) /\ MediaFits(media, owned) /\ Keeps(XAt(media), owned)
      /\ new \in Seq(AnyItems)
  BY PayloadItems DEF XInv
<1>2. /\ mid \in Seq(AnyItems)
      /\ \A p \in AllPlaces : Present(XAt(media)[p]) => Present(XAt(mid)[p])
      /\ SameVariants(media, new) =>
            \A p \in AllPlaces : Present(XAt(new)[p]) => XAt(mid)[p] = XAt(new)[p]
  BY <1>1, RestoredMedia
<1>3. MediaFits(mid, owned)
  BY <1>1, RestoredMediaFits
<1>4. /\ XSlots(media) = SlotsAt(XAt(media))
      /\ XSlots(new) = SlotsAt(XAt(new))
  BY <1>1, XSlotsAre
<1>5. Reuses(XSlots(media), owned)
  BY <1>1, <1>4, XPlacesFit, ReusedFromSlots
<1>6. next = ReuseMedia(XSlots(media), mid)
  BY DEF XReconcile
<1> HIDE DEF mid, next
<1>7. next \in Seq(AnyItems) /\ MediaFits(next, owned) /\ XAt(next) = After(XAt(mid), owned)
  BY <1>2, <1>3, <1>5, <1>6, MediaIsReused
<1>8. XSlots(next) = SlotsAt(After(XAt(mid), owned))
  BY <1>7, XSlotsAre
<1>9. \A url \in owned : Present(XAt(media)[<<url.scope, url.index>>])
  BY <1>1, OwnedPlace DEF Keeps
<1>10. /\ Keeps(After(XAt(mid), owned), owned)
       /\ Places(SlotsAt(XAt(media))) \subseteq Places(SlotsAt(After(XAt(mid), owned)))
  BY <1>2, <1>9, ReuseStep
<1>11. ASSUME SameVariants(media, new)
       PROVE  \A slot \in SlotsAt(XAt(new)) :
                  \/ slot \in SlotsAt(After(XAt(mid), owned))
                  \/ <<slot.scope, slot.index>> \in Places(OwnedIn(SlotsAt(XAt(media))))
  BY <1>1, <1>2, <1>11, FreshStep
<1>12. XInv(next, owned)
  BY <1>7, <1>10 DEF XInv
<1>13. QED
  BY <1>4, <1>8, <1>10, <1>11, <1>12 DEF next

LEMMA XArchives ==
    ASSUME NEW owned \in SUBSET OwnedUrls, NEW media, XInv(media, owned),
           NEW done \in SUBSET XSlots(media), NEW more,
           more = owned \cup FilesOf(done)
    PROVE  LET next == ReuseMedia(FileSlots(more), media)
           IN  /\ more \in SUBSET OwnedUrls
               /\ XInv(next, more)
               /\ Places(XSlots(media)) \subseteq Places(XSlots(next))
<1> DEFINE archived == FileSlots(more)
           next == ReuseMedia(archived, media)
<1>1. media \in Seq(AnyItems) /\ MediaFits(media, owned) /\ Keeps(XAt(media), owned)
  BY DEF XInv
<1>2. XSlots(media) = SlotsAt(XAt(media))
  BY <1>1, XSlotsAre
<1>3. ASSUME NEW slot \in done
      PROVE  /\ Owned(slot.scope, slot.index) \in OwnedUrls
             /\ LET url == Owned(slot.scope, slot.index)
                IN  Present(XAt(media)[<<url.scope, url.index>>])
  <2>1. slot \in SlotsAt(XAt(media))
    BY <1>2
  <2>2. /\ slot.scope \in Scopes /\ slot.index \in Nat
        /\ Present(XAt(media)[<<slot.scope, slot.index>>])
    BY <2>1, SlotsAtIs
  <2>3. QED
    BY <2>2, OwnedAt
<1>4. /\ more \in SUBSET OwnedUrls
      /\ \A url \in more : Present(XAt(media)[<<url.scope, url.index>>])
  BY <1>1, <1>3, OwnedPlace DEF Keeps, FilesOf
<1>5. MediaFits(media, more)
  BY <1>1 DEF MediaFits, ItemFits, Fits
<1>6. Reuses(archived, more)
  BY <1>4, ReusedFromFiles
<1> HIDE DEF archived, next
<1>7. next \in Seq(AnyItems) /\ MediaFits(next, more) /\ XAt(next) = After(XAt(media), more)
  BY <1>1, <1>4, <1>5, <1>6, MediaIsReused DEF next
<1>8. /\ Keeps(After(XAt(media), more), more)
      /\ Places(SlotsAt(XAt(media))) \subseteq Places(SlotsAt(After(XAt(media), more)))
  BY <1>4, ReuseStep
<1>9. XInv(next, more)
  BY <1>7, <1>8 DEF XInv
<1>10. Places(XSlots(media)) \subseteq Places(XSlots(next))
  BY <1>2, <1>7, <1>8, XSlotsAre
<1>11. QED
  BY <1>4, <1>9, <1>10 DEF next, archived

-----------------------------------------------------------------------------
(***************************************************************************)
(* The slots of a LinkedIn post                                            *)
(***************************************************************************)

LEMMA PostShape ==
    ASSUME NEW post \in AnyPosts
    PROVE  /\ post.images \in Seq(AnyUrls) /\ post.videos \in Seq(AnyVideos)
           /\ post.thumbnail \in AnyUrls /\ post.avatar \in AnyUrls /\ post.picture = NoUrl
           /\ DOMAIN post.images = 1 .. Len(post.images)
           /\ DOMAIN post.videos = 1 .. Len(post.videos)
           /\ Len(post.images) \in Nat /\ Len(post.videos) \in Nat
           /\ \A i \in DOMAIN post.images : i \in Nat /\ post.images[i] \in AnyUrls
           /\ \A i \in DOMAIN post.videos :
                 /\ i \in Nat /\ post.videos[i] \in AnyVideos
                 /\ post.videos[i].url \in AnyUrls /\ post.videos[i].thumbnail \in AnyUrls
<1>1. /\ post.images \in Seq(AnyUrls) /\ post.videos \in Seq(AnyVideos)
      /\ post.thumbnail \in AnyUrls /\ post.avatar \in AnyUrls /\ post.picture = NoUrl
  BY DEF AnyPosts
<1>2. \A v \in AnyVideos : v.url \in AnyUrls /\ v.thumbnail \in AnyUrls
  BY DEF AnyVideos
<1>3. QED
  BY <1>1, <1>2

LEMMA PostUrls ==
    ASSUME NEW post, NEW i
    PROVE  /\ PostUrl(post, "images", i) =
                 IF i \in DOMAIN post.images THEN post.images[i] ELSE NoUrl
           /\ PostUrl(post, "videos", i) =
                 IF i \in DOMAIN post.videos THEN post.videos[i].url ELSE NoUrl
           /\ PostUrl(post, "posters", i) = PosterUrl(post, i)
           /\ PostUrl(post, "avatars", i) = IF i = 1 THEN post.avatar ELSE NoUrl
  BY DEF PostUrl

\* The poster at a place is the thumbnail of the video there, or the one of the
\* post if the first video has none.
LEMMA PosterUrls ==
    ASSUME NEW post \in AnyPosts, NEW i \in Nat
    PROVE  /\ FirstPosterIsOwn(post) <=>
                 1 \in DOMAIN post.videos /\ Present(post.videos[1].thumbnail)
           /\ i \in DOMAIN post.videos /\ Present(post.videos[i].thumbnail) =>
                 PosterUrl(post, i) = post.videos[i].thumbnail
           /\ ~FirstPosterIsOwn(post) => PosterUrl(post, 1) = post.thumbnail
           /\ Present(PosterUrl(post, i)) =>
                 \/ /\ i \in DOMAIN post.videos /\ Present(post.videos[i].thumbnail)
                    /\ PosterUrl(post, i) = post.videos[i].thumbnail
                 \/ /\ i = 1 /\ ~FirstPosterIsOwn(post) /\ Present(post.thumbnail)
                    /\ PosterUrl(post, i) = post.thumbnail
<1>1. FirstPosterIsOwn(post) <=>
          1 \in DOMAIN post.videos /\ Present(post.videos[1].thumbnail)
  <2>1. post.videos # <<>> <=> 1 \in DOMAIN post.videos
    BY PostShape
  <2>2. QED
    BY <2>1 DEF FirstPosterIsOwn
<1>2. ~Present(NoUrl)
  BY DEF Present
<1>3. QED
  BY <1>1, <1>2 DEF PosterUrl

LEMMA LinkedInSlotsAre ==
    ASSUME NEW post \in AnyPosts
    PROVE  LinkedInSlots(post) = SlotsAt(LinkedInAt(post))
<1> DEFINE at == LinkedInAt(post)
           Images == {Slot("images", i, post.images[i]) : i \in DOMAIN post.images}
           Videos == {Slot("videos", i, post.videos[i].url) : i \in DOMAIN post.videos}
           Posters == {Slot("posters", i, post.videos[i].thumbnail) : i \in DOMAIN post.videos}
           Own == IF FirstPosterIsOwn(post) THEN {} ELSE {Slot("posters", 1, post.thumbnail)}
           Avatars == {Slot("avatars", 1, post.avatar)}
<1>1. LinkedInSlots(post) = {slot \in Images \cup Videos \cup Posters \cup Own \cup Avatars :
                                Present(slot.url)}
  BY DEF LinkedInSlots, SlotsOf
<1>2. \A scope \in Scopes, i \in Nat : at[<<scope, i>>] = PostUrl(post, scope, i)
  BY DEF LinkedInAt, AllPlaces
<1>3. /\ "images" \in Scopes /\ "videos" \in Scopes /\ "posters" \in Scopes /\ "avatars" \in Scopes
      /\ \A scope \in Scopes : scope \in {"images", "videos", "posters", "avatars"}
      /\ \A scope, i, url : Slot(scope, i, url).url = url
      /\ ~Present(NoUrl)
  BY DEF Scopes, Slot, Present
<1> HIDE DEF at
<1>4. \A scope \in Scopes, i \in Nat :
          Present(PostUrl(post, scope, i)) => Slot(scope, i, PostUrl(post, scope, i)) \in SlotsAt(at)
  BY <1>2, SlotsAtIs
<1>5. ASSUME NEW slot \in Images \cup Videos \cup Posters \cup Own \cup Avatars, Present(slot.url)
      PROVE  slot \in SlotsAt(at)
  <2>1. CASE slot \in Images
    <3>1. PICK i \in DOMAIN post.images : slot = Slot("images", i, post.images[i])
      BY <2>1
    <3>2. i \in Nat /\ Present(post.images[i]) /\ PostUrl(post, "images", i) = post.images[i]
      BY <1>3, <1>5, <3>1, PostShape, PostUrls
    <3>3. QED
      BY <1>3, <1>4, <3>1, <3>2
  <2>2. CASE slot \in Videos
    <3>1. PICK i \in DOMAIN post.videos : slot = Slot("videos", i, post.videos[i].url)
      BY <2>2
    <3>2. i \in Nat /\ Present(post.videos[i].url) /\ PostUrl(post, "videos", i) = post.videos[i].url
      BY <1>3, <1>5, <3>1, PostShape, PostUrls
    <3>3. QED
      BY <1>3, <1>4, <3>1, <3>2
  <2>3. CASE slot \in Posters
    <3>1. PICK i \in DOMAIN post.videos : slot = Slot("posters", i, post.videos[i].thumbnail)
      BY <2>3
    <3>2. i \in Nat /\ Present(post.videos[i].thumbnail)
      BY <1>3, <1>5, <3>1, PostShape
    <3>3. PostUrl(post, "posters", i) = post.videos[i].thumbnail
      BY <3>1, <3>2, PostUrls, PosterUrls
    <3>4. QED
      BY <1>3, <1>4, <3>1, <3>2, <3>3
  <2>4. CASE slot \in Own
    <3>1. ~FirstPosterIsOwn(post) /\ slot = Slot("posters", 1, post.thumbnail)
      BY <2>4
    <3>2. Present(post.thumbnail) /\ PostUrl(post, "posters", 1) = post.thumbnail
      BY <1>3, <1>5, <3>1, PostUrls, PosterUrls
    <3>3. QED
      BY <1>3, <1>4, <3>1, <3>2
  <2>5. CASE slot \in Avatars
    <3>1. slot = Slot("avatars", 1, post.avatar)
      BY <2>5
    <3>2. Present(post.avatar) /\ PostUrl(post, "avatars", 1) = post.avatar
      BY <1>3, <1>5, <3>1, PostUrls
    <3>3. QED
      BY <1>3, <1>4, <3>1, <3>2
  <2>6. QED
    BY <1>5, <2>1, <2>2, <2>3, <2>4, <2>5
<1>6. ASSUME NEW scope \in Scopes, NEW i \in Nat, Present(PostUrl(post, scope, i))
      PROVE  Slot(scope, i, PostUrl(post, scope, i)) \in
                 Images \cup Videos \cup Posters \cup Own \cup Avatars
  <2>1. CASE scope = "images"
    <3>1. i \in DOMAIN post.images /\ PostUrl(post, scope, i) = post.images[i]
      BY <1>3, <1>6, <2>1, PostUrls
    <3>2. Slot(scope, i, post.images[i]) \in Images
      BY <2>1, <3>1
    <3>3. QED
      BY <3>1, <3>2
  <2>2. CASE scope = "videos"
    <3>1. i \in DOMAIN post.videos /\ PostUrl(post, scope, i) = post.videos[i].url
      BY <1>3, <1>6, <2>2, PostUrls
    <3>2. Slot(scope, i, post.videos[i].url) \in Videos
      BY <2>2, <3>1
    <3>3. QED
      BY <3>1, <3>2
  <2>3. CASE scope = "posters"
    <3>1. PostUrl(post, scope, i) = PosterUrl(post, i)
      BY <2>3, PostUrls
    <3>2. CASE i \in DOMAIN post.videos /\ PosterUrl(post, i) = post.videos[i].thumbnail
      <4>1. Slot(scope, i, post.videos[i].thumbnail) \in Posters
        BY <2>3, <3>2
      <4>2. QED
        BY <3>1, <3>2, <4>1
    <3>3. CASE i = 1 /\ ~FirstPosterIsOwn(post) /\ PosterUrl(post, i) = post.thumbnail
      <4>1. Slot(scope, i, post.thumbnail) \in Own
        BY <2>3, <3>3
      <4>2. QED
        BY <3>1, <3>3, <4>1
    <3>4. QED
      BY <1>6, <3>1, <3>2, <3>3, PosterUrls
  <2>4. CASE scope = "avatars"
    <3>1. i = 1 /\ PostUrl(post, scope, i) = post.avatar
      BY <1>3, <1>6, <2>4, PostUrls
    <3>2. Slot(scope, i, post.avatar) \in Avatars
      BY <2>4, <3>1
    <3>3. QED
      BY <3>1, <3>2
  <2>5. QED
    BY <1>3, <2>1, <2>2, <2>3, <2>4
<1> HIDE DEF Images, Videos, Posters, Own, Avatars
<1>7. ASSUME NEW slot \in SlotsAt(at) PROVE slot \in LinkedInSlots(post)
  <2>1. /\ slot.scope \in Scopes /\ slot.index \in Nat
        /\ slot.url = at[<<slot.scope, slot.index>>] /\ Present(slot.url)
        /\ slot = Slot(slot.scope, slot.index, slot.url)
    BY <1>7, SlotsAtIs
  <2>2. slot.url = PostUrl(post, slot.scope, slot.index)
    BY <1>2, <2>1
  <2>3. QED
    BY <1>1, <1>6, <2>1, <2>2
<1>8. QED
  BY <1>1, <1>5, <1>7 DEF at

LEMMA LinkedInPlacesFit ==
    ASSUME NEW owned, NEW post \in AnyPosts, PostFits(post, owned)
    PROVE  PlacesFit(LinkedInAt(post), owned)
<1> SUFFICES ASSUME NEW p \in AllPlaces PROVE Fits(LinkedInAt(post)[p], p[1], p[2], owned)
  BY DEF PlacesFit
<1> DEFINE i == p[2]
<1>1. LinkedInAt(post)[p] = PostUrl(post, p[1], i)
  BY DEF LinkedInAt
<1>2. p[1] \in Scopes /\ i \in Nat /\ ~Present(NoUrl)
  BY PlaceIsPair DEF Present
<1>3. p[1] \in {"images", "videos", "posters", "avatars"}
  BY <1>2 DEF Scopes
<1> HIDE DEF i
<1>4. ASSUME NEW scope, ~Present(PostUrl(post, scope, i))
      PROVE  Fits(PostUrl(post, scope, i), scope, i, owned)
  BY <1>4, OwnedIsPresent DEF Fits
<1>5. Fits(PostUrl(post, "images", i), "images", i, owned)
  BY <1>2, <1>4, PostUrls DEF PostFits
<1>6. Fits(PostUrl(post, "videos", i), "videos", i, owned)
  BY <1>2, <1>4, PostUrls DEF PostFits
<1>7. Fits(PostUrl(post, "posters", i), "posters", i, owned)
  <2>1. Fits(post.thumbnail, "posters", 1, owned)
    BY DEF PostFits
  <2>2. \A j \in DOMAIN post.videos : Fits(post.videos[j].thumbnail, "posters", j, owned)
    BY DEF PostFits
  <2>3. QED
    BY <1>2, <1>4, <2>1, <2>2, PostUrls, PosterUrls
<1>8. Fits(PostUrl(post, "avatars", i), "avatars", i, owned)
  BY <1>2, <1>4, PostUrls DEF PostFits
<1>9. QED
  BY <1>1, <1>3, <1>5, <1>6, <1>7, <1>8 DEF i

LEMMA ContentIsNormal ==
    ASSUME NEW post \in AnyPosts
    PROVE  NormalizeContent(post) = post
<1>1. post.picture = NoUrl /\ ~Present(NoUrl)
  BY PostShape DEF Present
<1>2. post = [images |-> post.images, videos |-> post.videos, thumbnail |-> post.thumbnail,
              avatar |-> post.avatar, picture |-> NoUrl]
  BY <1>1 DEF AnyPosts
<1>3. NormalizeContent(post) = [post EXCEPT !.avatar = @, !.picture = NoUrl]
  BY <1>1 DEF NormalizeContent
<1>4. QED
  BY <1>2, <1>3

LEMMA PayloadPost ==
    ASSUME NEW new \in LinkedInPosts, NEW owned
    PROVE  LET post == NormalizeContent(new)
           IN  /\ post \in AnyPosts /\ PostFits(post, owned)
               /\ post.videos = new.videos /\ post.thumbnail = new.thumbnail
<1> DEFINE post == NormalizeContent(new)
<1>1. /\ new.images \in Seq(URLs) /\ new.videos \in Seq([url : URLs, thumbnail : URLs])
      /\ new.thumbnail \in URLs /\ new.avatar \in URLs /\ new.picture \in URLs
  BY DEF LinkedInPosts
<1>2. /\ post = [images |-> new.images, videos |-> new.videos, thumbnail |-> new.thumbnail,
                 avatar |-> post.avatar, picture |-> NoUrl]
      /\ post.avatar \in URLs
  <2>1. new = [images |-> new.images, videos |-> new.videos, thumbnail |-> new.thumbnail,
               avatar |-> new.avatar, picture |-> new.picture]
    BY DEF LinkedInPosts
  <2> DEFINE avatar == IF ~Present(new.avatar) /\ Present(new.picture)
                       THEN new.picture ELSE new.avatar
  <2>2. post = [new EXCEPT !.avatar = avatar, !.picture = NoUrl]
    BY DEF NormalizeContent
  <2>3. avatar \in URLs
    BY <1>1
  <2> HIDE DEF avatar, post
  <2>4. post = [images |-> new.images, videos |-> new.videos, thumbnail |-> new.thumbnail,
                avatar |-> avatar, picture |-> NoUrl]
    BY <2>1, <2>2
  <2>5. QED
    BY <2>3, <2>4
<1>3. ASSUME NEW url \in URLs PROVE url \in AnyUrls /\ ~IsOwned(url)
  BY DEF AnyUrls, URLs, IsOwned
<1>4. /\ new.images \in Seq(AnyUrls)
      /\ \A i \in DOMAIN new.images : ~IsOwned(new.images[i])
  <2>1. URLs \subseteq AnyUrls
    BY <1>3
  <2>2. QED
    BY <1>1, <1>3, <2>1
<1>5. /\ new.videos \in Seq(AnyVideos)
      /\ \A i \in DOMAIN new.videos :
            ~IsOwned(new.videos[i].url) /\ ~IsOwned(new.videos[i].thumbnail)
  <2>1. /\ [url : URLs, thumbnail : URLs] \subseteq AnyVideos
        /\ \A v \in [url : URLs, thumbnail : URLs] : ~IsOwned(v.url) /\ ~IsOwned(v.thumbnail)
    BY <1>3 DEF AnyVideos
  <2> DEFINE given == [url : URLs, thumbnail : URLs]
             videos == new.videos
  <2>2. videos \in Seq(given) /\ given \subseteq AnyVideos
    BY <1>1, <2>1
  <2> HIDE DEF given, videos
  <2>3. videos \in Seq(AnyVideos) /\ \A i \in DOMAIN videos : videos[i] \in given
    BY <2>2
  <2> USE DEF given, videos
  <2>4. QED
    BY <2>1, <2>3, Zenon
<1> HIDE DEF post
<1>6. /\ post.images = new.images /\ post.videos = new.videos
      /\ post.thumbnail = new.thumbnail
  BY <1>2
<1>7. post \in AnyPosts
  BY <1>1, <1>2, <1>3, <1>4, <1>5 DEF AnyPosts
<1>8. PostFits(post, owned)
  BY <1>1, <1>2, <1>3, <1>4, <1>5, <1>6 DEF PostFits, Fits
<1>9. QED
  BY <1>6, <1>7, <1>8 DEF post

-----------------------------------------------------------------------------
(***************************************************************************)
(* A LinkedIn post that is restored and reused                             *)
(***************************************************************************)

LEMMA RestoredUrl ==
    ASSUME NEW old \in AnyUrls, NEW new \in AnyUrls
    PROVE  /\ Restored(old, new) \in AnyUrls
           /\ Restored(old, new) \in {old, new}
           /\ Present(new) => Restored(old, new) = new
           /\ Present(old) /\ new # EmptyUrl => Present(Restored(old, new))
           /\ ~Present(old) => Restored(old, new) = new
  BY DEF Restored, Present

LEMMA RestoredImages ==
    ASSUME NEW old \in Seq(AnyUrls), NEW new \in Seq(AnyUrls)
    PROVE  LET r == RestoreList(old, new, Present, Restored)
           IN  /\ r \in Seq(AnyUrls)
               /\ DOMAIN new \subseteq DOMAIN r
               /\ \A i \in DOMAIN old : Present(old[i]) => i \in DOMAIN r
               /\ \A i \in DOMAIN r :
                     /\ i \notin DOMAIN new => i \in DOMAIN old /\ r[i] = old[i]
                     /\ i \notin DOMAIN old => i \in DOMAIN new /\ r[i] = new[i]
                     /\ i \in DOMAIN old /\ i \in DOMAIN new => r[i] = Restored(old[i], new[i])
<1> DEFINE r == RestoreList(old, new, Present, Restored)
           Slotted == {i \in DOMAIN old : Present(old[i])}
           length == LargestOf({Len(new)} \cup Slotted)
           R == [i \in Nat |-> Restored(old[i], new[i])]
<1>1. /\ Len(old) \in Nat /\ Len(new) \in Nat
      /\ Slotted \in SUBSET (1 .. Len(old))
      /\ DOMAIN old \subseteq Nat
      /\ \A i \in DOMAIN old : old[i] \in AnyUrls
      /\ \A i \in DOMAIN new : new[i] \in AnyUrls
  OBVIOUS
<1>2. r = RestoredFrom(old, new, Slotted, R)
  <2>1. r = [i \in 1 .. length |->
                CASE i > Len(new) -> old[i]
                  [] i > Len(old) -> new[i]
                  [] OTHER        -> Restored(old[i], new[i])]
    BY DEF RestoreList
  <2>2. length \in Nat
    <3> HIDE DEF Slotted
    <3>1. QED
      BY <1>1, RestoredLength
  <2>3. \A i \in 1 .. length : R[i] = Restored(old[i], new[i])
    <3> HIDE DEF length
    <3>1. QED
      BY <2>2
  <2> HIDE DEF r, R, length
  <2>4. r = [i \in 1 .. length |->
                CASE i > Len(new) -> old[i]
                  [] i > Len(old) -> new[i]
                  [] OTHER        -> R[i]]
    BY <2>1, <2>3
  <2>5. QED
    BY <2>4 DEF RestoredFrom, length
<1>3. \A i \in DOMAIN old \cap DOMAIN new :
          R[i] = Restored(old[i], new[i]) /\ R[i] \in AnyUrls
  BY <1>1, RestoredUrl
<1>4. \A i \in Slotted : i \in DOMAIN old
  OBVIOUS
<1> HIDE DEF r, R, Slotted
<1>5. LET full == RestoredFrom(old, new, Slotted, R)
      IN  /\ full \in Seq(AnyUrls)
          /\ DOMAIN new \subseteq DOMAIN full
          /\ Slotted \subseteq DOMAIN full
          /\ \A i \in DOMAIN full :
                /\ i \notin DOMAIN new => i \in DOMAIN old /\ full[i] = old[i]
                /\ i \notin DOMAIN old => i \in DOMAIN new /\ full[i] = new[i]
                /\ i \in DOMAIN old /\ i \in DOMAIN new => full[i] = R[i]
  BY <1>3, <1>4, RestoredList
<1>6. \A i \in DOMAIN old : Present(old[i]) => i \in DOMAIN r
  BY <1>2, <1>5 DEF Slotted
<1>7. /\ r \in Seq(AnyUrls)
      /\ DOMAIN new \subseteq DOMAIN r
      /\ \A i \in DOMAIN r :
            /\ i \notin DOMAIN new => i \in DOMAIN old /\ r[i] = old[i]
            /\ i \notin DOMAIN old => i \in DOMAIN new /\ r[i] = new[i]
            /\ i \in DOMAIN old /\ i \in DOMAIN new => r[i] = Restored(old[i], new[i])
  BY <1>2, <1>3, <1>5
<1>8. QED
  BY <1>6, <1>7 DEF r

LEMMA RestoredVideos ==
    ASSUME NEW old \in Seq(AnyVideos), NEW new \in Seq(AnyVideos)
    PROVE  LET r == RestoreList(old, new, HasVideoSlot, RestoreVideo)
           IN  /\ r \in Seq(AnyVideos)
               /\ DOMAIN new \subseteq DOMAIN r
               /\ \A i \in DOMAIN old : HasVideoSlot(old[i]) => i \in DOMAIN r
               /\ \A i \in DOMAIN r :
                     /\ i \notin DOMAIN new => i \in DOMAIN old /\ r[i] = old[i]
                     /\ i \notin DOMAIN old => i \in DOMAIN new /\ r[i] = new[i]
                     /\ i \in DOMAIN old /\ i \in DOMAIN new =>
                           /\ r[i].url = Restored(old[i].url, new[i].url)
                           /\ r[i].thumbnail = Restored(old[i].thumbnail, new[i].thumbnail)
<1> DEFINE r == RestoreList(old, new, HasVideoSlot, RestoreVideo)
           Slotted == {i \in DOMAIN old : HasVideoSlot(old[i])}
           length == LargestOf({Len(new)} \cup Slotted)
           R == [i \in Nat |-> RestoreVideo(old[i], new[i])]
<1>1. /\ Len(old) \in Nat /\ Len(new) \in Nat
      /\ Slotted \in SUBSET (1 .. Len(old))
      /\ DOMAIN old \subseteq Nat
      /\ \A i \in DOMAIN old : old[i] \in AnyVideos
      /\ \A i \in DOMAIN new : new[i] \in AnyVideos
  OBVIOUS
<1>2. r = RestoredFrom(old, new, Slotted, R)
  <2>1. r = [i \in 1 .. length |->
                CASE i > Len(new) -> old[i]
                  [] i > Len(old) -> new[i]
                  [] OTHER        -> RestoreVideo(old[i], new[i])]
    BY DEF RestoreList
  <2>2. length \in Nat
    <3> HIDE DEF Slotted
    <3>1. QED
      BY <1>1, RestoredLength
  <2>3. \A i \in 1 .. length : R[i] = RestoreVideo(old[i], new[i])
    <3> HIDE DEF length
    <3>1. QED
      BY <2>2
  <2> HIDE DEF r, R, length
  <2>4. r = [i \in 1 .. length |->
                CASE i > Len(new) -> old[i]
                  [] i > Len(old) -> new[i]
                  [] OTHER        -> R[i]]
    BY <2>1, <2>3
  <2>5. QED
    BY <2>4 DEF RestoredFrom, length
<1>3. ASSUME NEW o \in AnyVideos, NEW n \in AnyVideos
      PROVE  /\ RestoreVideo(o, n) \in AnyVideos
             /\ RestoreVideo(o, n).url = Restored(o.url, n.url)
             /\ RestoreVideo(o, n).thumbnail = Restored(o.thumbnail, n.thumbnail)
  BY RestoredUrl DEF RestoreVideo, Video, AnyVideos
<1>4. /\ \A i \in DOMAIN old \cap DOMAIN new : R[i] = RestoreVideo(old[i], new[i])
      /\ \A i \in Slotted : i \in DOMAIN old
  BY <1>1
<1> HIDE DEF r, R, Slotted
<1>5. \A i \in DOMAIN old \cap DOMAIN new :
          /\ R[i] \in AnyVideos
          /\ R[i].url = Restored(old[i].url, new[i].url)
          /\ R[i].thumbnail = Restored(old[i].thumbnail, new[i].thumbnail)
  BY <1>1, <1>3, <1>4
<1>6. LET full == RestoredFrom(old, new, Slotted, R)
      IN  /\ full \in Seq(AnyVideos)
          /\ DOMAIN new \subseteq DOMAIN full
          /\ Slotted \subseteq DOMAIN full
          /\ \A i \in DOMAIN full :
                /\ i \notin DOMAIN new => i \in DOMAIN old /\ full[i] = old[i]
                /\ i \notin DOMAIN old => i \in DOMAIN new /\ full[i] = new[i]
                /\ i \in DOMAIN old /\ i \in DOMAIN new => full[i] = R[i]
  BY <1>4, <1>5, RestoredList
<1>7. \A i \in DOMAIN old : HasVideoSlot(old[i]) => i \in DOMAIN r
  BY <1>2, <1>6 DEF Slotted
<1>8. /\ r \in Seq(AnyVideos)
      /\ DOMAIN new \subseteq DOMAIN r
      /\ \A i \in DOMAIN r :
            /\ i \notin DOMAIN new => i \in DOMAIN old /\ r[i] = old[i]
            /\ i \notin DOMAIN old => i \in DOMAIN new /\ r[i] = new[i]
            /\ i \in DOMAIN old /\ i \in DOMAIN new =>
                  /\ r[i].url = Restored(old[i].url, new[i].url)
                  /\ r[i].thumbnail = Restored(old[i].thumbnail, new[i].thumbnail)
  BY <1>2, <1>5, <1>6
<1>9. QED
  BY <1>7, <1>8 DEF r

\* A restored post: no slot is lost, and what the payload gives is taken as it is
\* unless the first poster came under another key.
LEMMA RestoredPost ==
    ASSUME NEW owned,
           NEW old \in AnyPosts, PostFits(old, owned),
           NEW new \in AnyPosts, PostFits(new, owned), NothingEmpty(new)
    PROVE  LET r == RestorePost(old, new)
           IN  /\ r \in AnyPosts /\ PostFits(r, owned)
               /\ \A p \in AllPlaces :
                     Present(LinkedInAt(old)[p]) => Present(LinkedInAt(r)[p])
               /\ SamePosterKey(old, new) =>
                     \A p \in AllPlaces :
                         Present(LinkedInAt(new)[p]) => LinkedInAt(r)[p] = LinkedInAt(new)[p]
<1> DEFINE r == RestorePost(old, new)
           images == RestoreList(old.images, new.images, Present, Restored)
           videos == RestoreList(old.videos, new.videos, HasVideoSlot, RestoreVideo)
           thumbnail == IF FirstPosterIsOwn(old) THEN new.thumbnail
                        ELSE Restored(old.thumbnail, new.thumbnail)
           avatar == Restored(old.avatar, new.avatar)
<1>1. /\ images \in Seq(AnyUrls)
      /\ DOMAIN new.images \subseteq DOMAIN images
      /\ \A i \in DOMAIN old.images : Present(old.images[i]) => i \in DOMAIN images
      /\ \A i \in DOMAIN images :
            /\ i \notin DOMAIN new.images => i \in DOMAIN old.images /\ images[i] = old.images[i]
            /\ i \notin DOMAIN old.images => i \in DOMAIN new.images /\ images[i] = new.images[i]
            /\ i \in DOMAIN old.images /\ i \in DOMAIN new.images =>
                  images[i] = Restored(old.images[i], new.images[i])
  BY PostShape, RestoredImages
<1>2. /\ videos \in Seq(AnyVideos)
      /\ DOMAIN new.videos \subseteq DOMAIN videos
      /\ \A i \in DOMAIN old.videos : HasVideoSlot(old.videos[i]) => i \in DOMAIN videos
      /\ \A i \in DOMAIN videos :
            /\ i \notin DOMAIN new.videos => i \in DOMAIN old.videos /\ videos[i] = old.videos[i]
            /\ i \notin DOMAIN old.videos => i \in DOMAIN new.videos /\ videos[i] = new.videos[i]
            /\ i \in DOMAIN old.videos /\ i \in DOMAIN new.videos =>
                  /\ videos[i].url = Restored(old.videos[i].url, new.videos[i].url)
                  /\ videos[i].thumbnail =
                        Restored(old.videos[i].thumbnail, new.videos[i].thumbnail)
  BY PostShape, RestoredVideos
<1>3. /\ r.images = images /\ r.videos = videos
      /\ r.thumbnail = thumbnail /\ r.avatar = avatar
      /\ r \in AnyPosts
  <2>1. r = [new EXCEPT !.images = images, !.videos = videos,
                        !.thumbnail = thumbnail, !.avatar = avatar]
    BY DEF RestorePost
  <2>2. thumbnail \in AnyUrls /\ avatar \in AnyUrls
    BY PostShape, RestoredUrl
  <2> HIDE DEF r, images, videos, thumbnail, avatar
  <2>3. QED
    BY <1>1, <1>2, <2>1, <2>2 DEF AnyPosts
<1> HIDE DEF r, images, videos
<1>4. /\ ~Present(NoUrl)
      /\ new.thumbnail # EmptyUrl /\ new.avatar # EmptyUrl
      /\ \A i \in DOMAIN new.images : new.images[i] # EmptyUrl
      /\ \A i \in DOMAIN new.videos :
            new.videos[i].url # EmptyUrl /\ new.videos[i].thumbnail # EmptyUrl
  BY DEF NothingEmpty, Present
<1>5. PostFits(r, owned)
  <2>1. ASSUME NEW i \in DOMAIN images PROVE Fits(images[i], "images", i, owned)
    <3>1. \/ i \in DOMAIN old.images /\ images[i] = old.images[i]
          \/ i \in DOMAIN new.images /\ images[i] = new.images[i]
      BY <1>1 DEF Restored
    <3>2. QED
      BY <3>1 DEF PostFits
  <2>2. ASSUME NEW i \in DOMAIN videos
        PROVE  Fits(videos[i].url, "videos", i, owned) /\ Fits(videos[i].thumbnail, "posters", i, owned)
    <3>1. /\ \/ i \in DOMAIN old.videos /\ videos[i].url = old.videos[i].url
             \/ i \in DOMAIN new.videos /\ videos[i].url = new.videos[i].url
          /\ \/ i \in DOMAIN old.videos /\ videos[i].thumbnail = old.videos[i].thumbnail
             \/ i \in DOMAIN new.videos /\ videos[i].thumbnail = new.videos[i].thumbnail
      BY <1>2 DEF Restored
    <3>2. QED
      BY <3>1 DEF PostFits
  <2>3. Fits(thumbnail, "posters", 1, owned) /\ Fits(avatar, "avatars", 1, owned)
    <3>1. thumbnail \in {old.thumbnail, new.thumbnail} /\ avatar \in {old.avatar, new.avatar}
      BY DEF Restored
    <3>2. QED
      BY <3>1 DEF PostFits
  <2> HIDE DEF thumbnail, avatar
  <2>4. QED
    BY <1>3, <2>1, <2>2, <2>3 DEF PostFits
<1>6. ASSUME NEW i \in Nat
      PROVE  /\ Present(PostUrl(old, "images", i)) => Present(PostUrl(r, "images", i))
             /\ Present(PostUrl(new, "images", i)) =>
                   PostUrl(r, "images", i) = PostUrl(new, "images", i)
  <2>1. ASSUME i \in DOMAIN old.images, Present(old.images[i])
        PROVE  i \in DOMAIN images /\ Present(images[i])
    <3>1. i \in DOMAIN images
      BY <1>1, <2>1
    <3>2. CASE i \in DOMAIN new.images
      <4>1. images[i] = Restored(old.images[i], new.images[i])
        BY <1>1, <2>1, <3>1, <3>2
      <4>2. QED
        BY <1>4, <2>1, <3>1, <3>2, <4>1, PostShape, RestoredUrl
    <3>3. CASE i \notin DOMAIN new.images
      BY <1>1, <2>1, <3>1, <3>3
    <3>4. QED
      BY <3>2, <3>3
  <2>2. ASSUME i \in DOMAIN new.images, Present(new.images[i])
        PROVE  i \in DOMAIN images /\ images[i] = new.images[i]
    <3>1. i \in DOMAIN images
      BY <1>1, <2>2
    <3>2. CASE i \in DOMAIN old.images
      <4>1. images[i] = Restored(old.images[i], new.images[i])
        BY <1>1, <2>2, <3>1, <3>2
      <4>2. QED
        BY <2>2, <3>1, <3>2, <4>1, PostShape, RestoredUrl
    <3>3. CASE i \notin DOMAIN old.images
      BY <1>1, <2>2, <3>1, <3>3
    <3>4. QED
      BY <3>2, <3>3
  <2>3. QED
    BY <1>3, <1>4, <2>1, <2>2, PostUrls
<1>7. ASSUME NEW i \in Nat
      PROVE  /\ i \in DOMAIN old.videos /\ Present(old.videos[i].url) =>
                   i \in DOMAIN videos /\ Present(videos[i].url)
             /\ i \in DOMAIN new.videos /\ Present(new.videos[i].url) =>
                   i \in DOMAIN videos /\ videos[i].url = new.videos[i].url
             /\ i \in DOMAIN old.videos /\ Present(old.videos[i].thumbnail) =>
                   i \in DOMAIN videos /\ Present(videos[i].thumbnail)
             /\ i \in DOMAIN new.videos /\ Present(new.videos[i].thumbnail) =>
                   i \in DOMAIN videos /\ videos[i].thumbnail = new.videos[i].thumbnail
  <2>1. ASSUME i \in DOMAIN old.videos, HasVideoSlot(old.videos[i])
        PROVE  /\ i \in DOMAIN videos
               /\ Present(old.videos[i].url) => Present(videos[i].url)
               /\ Present(old.videos[i].thumbnail) => Present(videos[i].thumbnail)
    <3>1. i \in DOMAIN videos
      BY <1>2, <2>1
    <3>2. CASE i \in DOMAIN new.videos
      <4>1. /\ videos[i].url = Restored(old.videos[i].url, new.videos[i].url)
            /\ videos[i].thumbnail = Restored(old.videos[i].thumbnail, new.videos[i].thumbnail)
        BY <1>2, <2>1, <3>1, <3>2
      <4>2. QED
        BY <1>4, <2>1, <3>1, <3>2, <4>1, PostShape, RestoredUrl
    <3>3. CASE i \notin DOMAIN new.videos
      BY <1>2, <2>1, <3>1, <3>3
    <3>4. QED
      BY <3>2, <3>3
  <2>2. ASSUME i \in DOMAIN new.videos
        PROVE  /\ i \in DOMAIN videos
               /\ Present(new.videos[i].url) => videos[i].url = new.videos[i].url
               /\ Present(new.videos[i].thumbnail) => videos[i].thumbnail = new.videos[i].thumbnail
    <3>1. i \in DOMAIN videos
      BY <1>2, <2>2
    <3>2. CASE i \in DOMAIN old.videos
      <4>1. /\ videos[i].url = Restored(old.videos[i].url, new.videos[i].url)
            /\ videos[i].thumbnail = Restored(old.videos[i].thumbnail, new.videos[i].thumbnail)
        BY <1>2, <2>2, <3>1, <3>2
      <4>2. QED
        BY <2>2, <3>1, <3>2, <4>1, PostShape, RestoredUrl
    <3>3. CASE i \notin DOMAIN old.videos
      BY <1>2, <2>2, <3>1, <3>3
    <3>4. QED
      BY <3>2, <3>3
  <2>3. QED
    BY <2>1, <2>2 DEF HasVideoSlot
<1>8. ASSUME NEW i \in Nat
      PROVE  /\ Present(PostUrl(old, "videos", i)) => Present(PostUrl(r, "videos", i))
             /\ Present(PostUrl(new, "videos", i)) =>
                   PostUrl(r, "videos", i) = PostUrl(new, "videos", i)
  BY <1>3, <1>4, <1>7, PostUrls
<1>9. ASSUME NEW i \in Nat, Present(PosterUrl(old, i)) PROVE Present(PosterUrl(r, i))
  <2>1. CASE i \in DOMAIN old.videos /\ Present(old.videos[i].thumbnail)
    <3>1. i \in DOMAIN r.videos /\ Present(r.videos[i].thumbnail)
      BY <1>3, <1>7, <2>1
    <3>2. QED
      BY <1>3, <3>1, PosterUrls
  <2>2. CASE i = 1 /\ ~FirstPosterIsOwn(old) /\ Present(old.thumbnail)
    <3>1. Present(r.thumbnail)
      BY <1>3, <1>4, <2>2, PostShape, RestoredUrl
    <3>2. CASE FirstPosterIsOwn(r)
      BY <1>3, <2>2, <3>2, PosterUrls
    <3>3. CASE ~FirstPosterIsOwn(r)
      BY <1>3, <2>2, <3>1, <3>3, PosterUrls
    <3>4. QED
      BY <3>2, <3>3
  <2>3. QED
    BY <1>9, <2>1, <2>2, PosterUrls
<1>10. ASSUME SamePosterKey(old, new), NEW i \in Nat, Present(PosterUrl(new, i))
       PROVE  PosterUrl(r, i) = PosterUrl(new, i)
  <2>1. CASE /\ i \in DOMAIN new.videos /\ Present(new.videos[i].thumbnail)
             /\ PosterUrl(new, i) = new.videos[i].thumbnail
    <3>1. i \in DOMAIN r.videos /\ r.videos[i].thumbnail = new.videos[i].thumbnail
      BY <1>3, <1>7, <2>1
    <3>2. QED
      BY <1>3, <2>1, <3>1, PosterUrls
  <2>2. CASE /\ i = 1 /\ ~FirstPosterIsOwn(new) /\ Present(new.thumbnail)
             /\ PosterUrl(new, i) = new.thumbnail
    <3>1. ~FirstPosterIsOwn(old)
      BY <1>10, <2>2 DEF SamePosterKey
    <3>2. r.thumbnail = new.thumbnail
      BY <1>3, <2>2, <3>1, PostShape, RestoredUrl
    <3>3. ~FirstPosterIsOwn(r)
      <4> SUFFICES ASSUME 1 \in DOMAIN videos, Present(videos[1].thumbnail) PROVE FALSE
        BY <1>3, PosterUrls
      <4>1. /\ ~(1 \in DOMAIN old.videos /\ Present(old.videos[1].thumbnail))
            /\ ~(1 \in DOMAIN new.videos /\ Present(new.videos[1].thumbnail))
        BY <2>2, <3>1, PosterUrls
      <4>2. 1 \in DOMAIN old.videos /\ 1 \in DOMAIN new.videos
        BY <1>2, <4>1
      <4>3. videos[1].thumbnail = Restored(old.videos[1].thumbnail, new.videos[1].thumbnail)
        BY <1>2, <4>2
      <4>4. QED
        BY <4>1, <4>2, <4>3, PostShape, RestoredUrl
    <3>4. QED
      BY <1>3, <2>2, <3>2, <3>3, PosterUrls
  <2>3. QED
    BY <1>10, <2>1, <2>2, PosterUrls
<1>11. ASSUME NEW i \in Nat
       PROVE  /\ Present(PostUrl(old, "avatars", i)) => Present(PostUrl(r, "avatars", i))
              /\ Present(PostUrl(new, "avatars", i)) =>
                    PostUrl(r, "avatars", i) = PostUrl(new, "avatars", i)
  BY <1>3, <1>4, PostShape, PostUrls, RestoredUrl
<1>12. /\ \A post, p : p \in AllPlaces => LinkedInAt(post)[p] = PostUrl(post, p[1], p[2])
       /\ \A p \in AllPlaces : p[2] \in Nat /\ p[1] \in {"images", "videos", "posters", "avatars"}
  BY PlaceIsPair DEF LinkedInAt, Scopes
<1>13. ASSUME NEW p \in AllPlaces, Present(LinkedInAt(old)[p])
       PROVE  Present(LinkedInAt(r)[p])
  BY <1>6, <1>8, <1>9, <1>11, <1>12, <1>13, PostUrls
<1>14. ASSUME SamePosterKey(old, new), NEW p \in AllPlaces, Present(LinkedInAt(new)[p])
       PROVE  LinkedInAt(r)[p] = LinkedInAt(new)[p]
  BY <1>6, <1>8, <1>10, <1>11, <1>12, <1>14, PostUrls
<1>15. QED
  BY <1>3, <1>5, <1>13, <1>14 DEF r

LEMMA PostIsReused ==
    ASSUME NEW owned \in SUBSET OwnedUrls, NEW older, Reuses(older, owned),
           NEW post \in AnyPosts, PostFits(post, owned)
    PROVE  LET r == ReusePost(older, post)
           IN  /\ r \in AnyPosts
               /\ PostFits(r, owned)
               /\ LinkedInAt(r) = After(LinkedInAt(post), owned)
<1> DEFINE r == ReusePost(older, post)
           Reuse(scope, i, url) == SetUrl(url, Reused(older, scope, i, url))
           images == [i \in DOMAIN post.images |-> Reuse("images", i, post.images[i])]
           videos == [i \in DOMAIN post.videos |->
                         Video(Reuse("videos", i, post.videos[i].url),
                               Reuse("posters", i, post.videos[i].thumbnail))]
           thumbnail == IF FirstPosterIsOwn(post) THEN post.thumbnail
                        ELSE Reuse("posters", 1, post.thumbnail)
           avatar == Reuse("avatars", 1, post.avatar)
<1>1. /\ "images" \in Scopes /\ "videos" \in Scopes /\ "posters" \in Scopes /\ "avatars" \in Scopes
      /\ ~Present(NoUrl) /\ OwnedUrls \subseteq AnyUrls
  BY DEF Scopes, Present, AnyUrls
<1>2. ASSUME NEW scope \in Scopes, NEW i \in Nat, NEW url \in AnyUrls
      PROVE  /\ Reuse(scope, i, url) \in AnyUrls
             /\ Reuse(scope, i, url) =
                   IF Present(url) /\ Owned(scope, i) \in owned THEN Owned(scope, i) ELSE url
             /\ Present(Reuse(scope, i, url)) <=> Present(url)
             /\ Fits(url, scope, i, owned) => Fits(Reuse(scope, i, url), scope, i, owned)
  <2>1. Reuse(scope, i, url) =
            IF Present(url) /\ Owned(scope, i) \in owned THEN Owned(scope, i) ELSE url
    BY DEF Reuses, SetUrl
  <2> HIDE DEF Reuse
  <2>2. QED
    BY <1>1, <2>1, OwnedAt DEF Fits
<1>3. /\ images \in Seq(AnyUrls) /\ DOMAIN images = DOMAIN post.images
      /\ \A i \in DOMAIN images : images[i] = Reuse("images", i, post.images[i])
  <2>1. \A i \in DOMAIN post.images : Reuse("images", i, post.images[i]) \in AnyUrls
    BY <1>1, <1>2, PostShape
  <2> HIDE DEF Reuse
  <2>2. QED
    BY <2>1, PostShape
<1>4. /\ videos \in Seq(AnyVideos) /\ DOMAIN videos = DOMAIN post.videos
      /\ \A i \in DOMAIN videos :
            /\ videos[i].url = Reuse("videos", i, post.videos[i].url)
            /\ videos[i].thumbnail = Reuse("posters", i, post.videos[i].thumbnail)
  <2>1. \A i \in DOMAIN post.videos :
            /\ Reuse("videos", i, post.videos[i].url) \in AnyUrls
            /\ Reuse("posters", i, post.videos[i].thumbnail) \in AnyUrls
    BY <1>1, <1>2, PostShape
  <2>2. \A url, poster \in AnyUrls :
            /\ Video(url, poster) \in AnyVideos
            /\ Video(url, poster).url = url /\ Video(url, poster).thumbnail = poster
    BY DEF Video, AnyVideos
  <2> HIDE DEF Reuse
  <2>3. videos \in Seq(AnyVideos)
    BY <2>1, <2>2, PostShape
  <2>4. QED
    BY <2>1, <2>2, <2>3
<1>5. /\ thumbnail \in AnyUrls /\ avatar \in AnyUrls
      /\ Fits(thumbnail, "posters", 1, owned) /\ Fits(avatar, "avatars", 1, owned)
  <2>1. /\ post.thumbnail \in AnyUrls /\ post.avatar \in AnyUrls
        /\ Fits(post.thumbnail, "posters", 1, owned) /\ Fits(post.avatar, "avatars", 1, owned)
    BY PostShape DEF PostFits
  <2>2. 1 \in Nat
    OBVIOUS
  <2> HIDE DEF Reuse
  <2>3. QED
    BY <1>1, <1>2, <2>1, <2>2
<1>6. /\ r.images = images /\ r.videos = videos
      /\ r.thumbnail = thumbnail /\ r.avatar = avatar
      /\ r \in AnyPosts
  <2>1. r = [post EXCEPT !.images = images, !.videos = videos,
                         !.thumbnail = thumbnail, !.avatar = avatar]
    BY DEF ReusePost
  <2> HIDE DEF r, images, videos, thumbnail, avatar
  <2>2. QED
    BY <1>3, <1>4, <1>5, <2>1 DEF AnyPosts
<1> HIDE DEF r, images, videos, Reuse
<1>7. PostFits(r, owned)
  <2>1. ASSUME NEW i \in DOMAIN images PROVE Fits(images[i], "images", i, owned)
    <3>1. Fits(post.images[i], "images", i, owned)
      BY <1>3 DEF PostFits
    <3>2. QED
      BY <1>1, <1>2, <1>3, <3>1, PostShape
  <2>2. ASSUME NEW i \in DOMAIN videos
        PROVE  Fits(videos[i].url, "videos", i, owned) /\ Fits(videos[i].thumbnail, "posters", i, owned)
    <3>1. /\ Fits(post.videos[i].url, "videos", i, owned)
          /\ Fits(post.videos[i].thumbnail, "posters", i, owned)
      BY <1>4 DEF PostFits
    <3>2. QED
      BY <1>1, <1>2, <1>4, <3>1, PostShape
  <2> HIDE DEF thumbnail, avatar
  <2>3. QED
    BY <1>5, <1>6, <2>1, <2>2 DEF PostFits
<1> DEFINE Put(scope, i, url) ==
               IF Present(url) /\ Owned(scope, i) \in owned THEN Owned(scope, i) ELSE url
<1>8. ASSUME NEW i \in Nat
      PROVE  /\ PostUrl(r, "images", i) = Put("images", i, PostUrl(post, "images", i))
             /\ PostUrl(r, "videos", i) = Put("videos", i, PostUrl(post, "videos", i))
             /\ PostUrl(r, "avatars", i) = Put("avatars", i, PostUrl(post, "avatars", i))
  <2>1. PostUrl(r, "images", i) = Put("images", i, PostUrl(post, "images", i))
    <3>1. CASE i \in DOMAIN post.images
      BY <1>1, <1>2, <1>3, <1>6, <3>1, PostShape, PostUrls
    <3>2. CASE i \notin DOMAIN post.images
      BY <1>1, <1>3, <1>6, <3>2, PostUrls
    <3>3. QED
      BY <3>1, <3>2
  <2>2. PostUrl(r, "videos", i) = Put("videos", i, PostUrl(post, "videos", i))
    <3>1. CASE i \in DOMAIN post.videos
      BY <1>1, <1>2, <1>4, <1>6, <3>1, PostShape, PostUrls
    <3>2. CASE i \notin DOMAIN post.videos
      BY <1>1, <1>4, <1>6, <3>2, PostUrls
    <3>3. QED
      BY <3>1, <3>2
  <2>3. PostUrl(r, "avatars", i) = Put("avatars", i, PostUrl(post, "avatars", i))
    <3>1. CASE i = 1
      BY <1>1, <1>2, <1>6, <3>1, PostShape, PostUrls
    <3>2. CASE i # 1
      BY <1>1, <3>2, PostUrls
    <3>3. QED
      BY <3>1, <3>2
  <2>4. QED
    BY <2>1, <2>2, <2>3
<1>9. FirstPosterIsOwn(r) <=> FirstPosterIsOwn(post)
  <2>1. 1 \in DOMAIN post.videos =>
            (Present(videos[1].thumbnail) <=> Present(post.videos[1].thumbnail))
    BY <1>1, <1>2, <1>4, PostShape
  <2>2. QED
    BY <1>4, <1>6, <2>1, PosterUrls
<1>10. ASSUME NEW i \in Nat
       PROVE  PosterUrl(r, i) = Put("posters", i, PosterUrl(post, i))
  <2>1. CASE i = 1 /\ ~FirstPosterIsOwn(post)
    <3>1. PosterUrl(r, i) = thumbnail /\ PosterUrl(post, i) = post.thumbnail
      BY <1>6, <1>9, <2>1, Zenon DEF PosterUrl
    <3>2. thumbnail = Reuse("posters", 1, post.thumbnail)
      BY <2>1
    <3> HIDE DEF thumbnail
    <3>3. QED
      BY <1>1, <1>2, <2>1, <3>1, <3>2, PostShape
  <2>2. CASE ~(i = 1 /\ ~FirstPosterIsOwn(post)) /\ i \in DOMAIN post.videos
    <3>1. /\ PosterUrl(r, i) = videos[i].thumbnail
          /\ PosterUrl(post, i) = post.videos[i].thumbnail
      BY <1>4, <1>6, <1>9, <2>2 DEF PosterUrl
    <3>2. QED
      BY <1>1, <1>2, <1>4, <2>2, <3>1, PostShape
  <2>3. CASE ~(i = 1 /\ ~FirstPosterIsOwn(post)) /\ i \notin DOMAIN post.videos
    <3>1. PosterUrl(r, i) = NoUrl /\ PosterUrl(post, i) = NoUrl
      BY <1>4, <1>6, <1>9, <2>3 DEF PosterUrl
    <3>2. QED
      BY <1>1, <3>1
  <2>4. QED
    BY <2>1, <2>2, <2>3
<1>11. ASSUME NEW p \in AllPlaces
       PROVE  PostUrl(r, p[1], p[2]) = Put(p[1], p[2], PostUrl(post, p[1], p[2]))
  <2>1. p[2] \in Nat /\ p[1] \in {"images", "videos", "posters", "avatars"}
    BY PlaceIsPair DEF Scopes
  <2> HIDE DEF Put
  <2>2. QED
    BY <1>8, <1>10, <2>1, PostUrls
<1>12. LinkedInAt(r) = After(LinkedInAt(post), owned)
  <2>1. \A p \in AllPlaces : LinkedInAt(post)[p] = PostUrl(post, p[1], p[2])
    BY DEF LinkedInAt
  <2>2. LinkedInAt(r) = [p \in AllPlaces |-> PostUrl(r, p[1], p[2])]
    BY DEF LinkedInAt
  <2>3. LinkedInAt(r) = [p \in AllPlaces |-> Put(p[1], p[2], PostUrl(post, p[1], p[2]))]
    <3> HIDE DEF Put
    <3>1. QED
      BY <1>11, <2>2
  <2>4. After(LinkedInAt(post), owned) =
            [p \in AllPlaces |-> Put(p[1], p[2], LinkedInAt(post)[p])]
    BY DEF After
  <2> HIDE DEF Put
  <2>5. QED
    BY <2>1, <2>3, <2>4
<1>13. QED
  BY <1>6, <1>7, <1>12 DEF r

LEMMA LinkedInRefreshes ==
    ASSUME NEW owned \in SUBSET OwnedUrls, NEW post, LinkedInInv(post, owned),
           NEW new \in LinkedInPosts, NothingEmpty(NormalizeContent(new))
    PROVE  LET next == LinkedInReconcile(post, new)
           IN  /\ LinkedInInv(next, owned)
               /\ Places(LinkedInSlots(post)) \subseteq Places(LinkedInSlots(next))
               /\ SamePosterKey(post, new) =>
                     \A slot \in LinkedInSlots(NormalizeContent(new)) :
                         \/ slot \in LinkedInSlots(next)
                         \/ <<slot.scope, slot.index>> \in Places(OwnedIn(LinkedInSlots(post)))
<1> DEFINE given == NormalizeContent(new)
           mid == RestorePost(post, given)
           next == LinkedInReconcile(post, new)
<1>1. /\ post \in AnyPosts /\ PostFits(post, owned) /\ Keeps(LinkedInAt(post), owned)
      /\ given \in AnyPosts /\ PostFits(given, owned)
      /\ given.videos = new.videos /\ given.thumbnail = new.thumbnail
  BY PayloadPost DEF LinkedInInv
<1>2. next = ReusePost(LinkedInSlots(post), mid)
  BY <1>1, ContentIsNormal DEF LinkedInReconcile
<1>3. SamePosterKey(post, new) => SamePosterKey(post, given)
  BY <1>1 DEF SamePosterKey, FirstPosterIsOwn
<1> HIDE DEF given
<1>4. /\ mid \in AnyPosts /\ PostFits(mid, owned)
      /\ \A p \in AllPlaces : Present(LinkedInAt(post)[p]) => Present(LinkedInAt(mid)[p])
      /\ SamePosterKey(post, given) =>
            \A p \in AllPlaces :
                Present(LinkedInAt(given)[p]) => LinkedInAt(mid)[p] = LinkedInAt(given)[p]
  <2>1. NothingEmpty(given)
    BY DEF given
  <2>2. QED
    BY <1>1, <2>1, RestoredPost
<1>5. /\ LinkedInSlots(post) = SlotsAt(LinkedInAt(post))
      /\ LinkedInSlots(given) = SlotsAt(LinkedInAt(given))
  BY <1>1, LinkedInSlotsAre
<1>6. Reuses(LinkedInSlots(post), owned)
  BY <1>1, <1>5, LinkedInPlacesFit, ReusedFromSlots
<1> HIDE DEF mid, next
<1>7. /\ next \in AnyPosts /\ PostFits(next, owned)
      /\ LinkedInAt(next) = After(LinkedInAt(mid), owned)
  BY <1>2, <1>4, <1>6, PostIsReused
<1>8. LinkedInSlots(next) = SlotsAt(After(LinkedInAt(mid), owned))
  BY <1>7, LinkedInSlotsAre
<1>9. \A url \in owned : Present(LinkedInAt(post)[<<url.scope, url.index>>])
  BY <1>1, OwnedPlace DEF Keeps
<1>10. /\ Keeps(After(LinkedInAt(mid), owned), owned)
       /\ Places(SlotsAt(LinkedInAt(post))) \subseteq
              Places(SlotsAt(After(LinkedInAt(mid), owned)))
  BY <1>4, <1>9, ReuseStep
<1>11. ASSUME SamePosterKey(post, new)
       PROVE  \A slot \in SlotsAt(LinkedInAt(given)) :
                  \/ slot \in SlotsAt(After(LinkedInAt(mid), owned))
                  \/ <<slot.scope, slot.index>> \in Places(OwnedIn(SlotsAt(LinkedInAt(post))))
  BY <1>1, <1>3, <1>4, <1>11, FreshStep
<1>12. LinkedInInv(next, owned)
  BY <1>7, <1>10 DEF LinkedInInv
<1>13. QED
  BY <1>5, <1>8, <1>10, <1>11, <1>12 DEF next, given

LEMMA LinkedInArchives ==
    ASSUME NEW owned \in SUBSET OwnedUrls, NEW post, LinkedInInv(post, owned),
           NEW done \in SUBSET LinkedInSlots(post), NEW more,
           more = owned \cup FilesOf(done)
    PROVE  LET next == ReusePost(FileSlots(more), post)
           IN  /\ more \in SUBSET OwnedUrls
               /\ LinkedInInv(next, more)
               /\ Places(LinkedInSlots(post)) \subseteq Places(LinkedInSlots(next))
<1> DEFINE archived == FileSlots(more)
           next == ReusePost(archived, post)
<1>1. post \in AnyPosts /\ PostFits(post, owned) /\ Keeps(LinkedInAt(post), owned)
  BY DEF LinkedInInv
<1>2. LinkedInSlots(post) = SlotsAt(LinkedInAt(post))
  BY <1>1, LinkedInSlotsAre
<1>3. ASSUME NEW slot \in done
      PROVE  /\ Owned(slot.scope, slot.index) \in OwnedUrls
             /\ LET url == Owned(slot.scope, slot.index)
                IN  Present(LinkedInAt(post)[<<url.scope, url.index>>])
  <2>1. slot \in SlotsAt(LinkedInAt(post))
    BY <1>2
  <2>2. /\ slot.scope \in Scopes /\ slot.index \in Nat
        /\ Present(LinkedInAt(post)[<<slot.scope, slot.index>>])
    BY <2>1, SlotsAtIs
  <2>3. QED
    BY <2>2, OwnedAt
<1>4. /\ more \in SUBSET OwnedUrls
      /\ \A url \in more : Present(LinkedInAt(post)[<<url.scope, url.index>>])
  BY <1>1, <1>3, OwnedPlace DEF Keeps, FilesOf
<1>5. PostFits(post, more)
  BY <1>1 DEF PostFits, Fits
<1>6. Reuses(archived, more)
  BY <1>4, ReusedFromFiles
<1> HIDE DEF archived, next
<1>7. /\ next \in AnyPosts /\ PostFits(next, more)
      /\ LinkedInAt(next) = After(LinkedInAt(post), more)
  BY <1>1, <1>4, <1>5, <1>6, PostIsReused DEF next
<1>8. /\ Keeps(After(LinkedInAt(post), more), more)
      /\ Places(SlotsAt(LinkedInAt(post))) \subseteq
             Places(SlotsAt(After(LinkedInAt(post), more)))
  BY <1>4, ReuseStep
<1>9. LinkedInInv(next, more)
  BY <1>7, <1>8 DEF LinkedInInv
<1>10. Places(LinkedInSlots(post)) \subseteq Places(LinkedInSlots(next))
  BY <1>2, <1>7, <1>8, LinkedInSlotsAre
<1>11. QED
  BY <1>4, <1>9, <1>10 DEF next, archived

-----------------------------------------------------------------------------
(***************************************************************************)
(* One post over many runs                                                 *)
(***************************************************************************)

LEMMA FeedIsTyped ==
    ASSUME NEW f \in DOMAIN Feeds
    PROVE  /\ Feeds[f].platform = "x" => Feeds[f].payloads \subseteq Seq(Items)
           /\ Feeds[f].platform # "x" => Feeds[f].payloads \subseteq LinkedInPosts
  BY SlotsAssumption

LEMMA InitPostInv == PostInit => PostInv
<1> SUFFICES ASSUME PostInit PROVE PostInv
  OBVIOUS
<1>1. feed \in DOMAIN Feeds /\ files = {}
  BY DEF PostInit
<1>2. CASE IsX
  <2>1. content \in Seq(Items)
    BY <1>1, <1>2, FeedIsTyped DEF PostInit, IsX
  <2>2. XInv(content, files)
    BY <1>1, <2>1, PayloadItems DEF XInv, Keeps
  <2>3. QED
    BY <1>1, <1>2, <2>2 DEF PostInv
<1>3. CASE ~IsX
  <2>1. PICK first \in LinkedInPosts : content = NormalizeContent(first)
    BY <1>1, <1>3, FeedIsTyped DEF PostInit, IsX
  <2>2. LinkedInInv(content, files)
    BY <1>1, <2>1, PayloadPost DEF LinkedInInv, Keeps
  <2>3. QED
    BY <1>1, <1>3, <2>2 DEF PostInv
<1>4. QED
  BY <1>2, <1>3

\* What a refresh does, for the payloads that are expected.
LEMMA RefreshedPost ==
    ASSUME PostInv, NEW new \in Expected
    PROVE  /\ IF IsX THEN XInv(Refreshed(new), files) ELSE LinkedInInv(Refreshed(new), files)
           /\ Places(PostSlots) \subseteq Places(SlotsOfContent(Refreshed(new)))
           /\ (IF IsX THEN SameVariants(content, new) ELSE SamePosterKey(content, new)) =>
                 \A slot \in PayloadSlots(new) :
                     \/ slot \in SlotsOfContent(Refreshed(new))
                     \/ <<slot.scope, slot.index>> \in Places(OwnedIn(PostSlots))
<1>1. feed \in DOMAIN Feeds /\ files \in SUBSET OwnedUrls
  BY DEF PostInv
<1>2. CASE IsX
  <2>1. XInv(content, files) /\ new \in Seq(Items) /\ SameItems(content, new)
    BY <1>1, <1>2, FeedIsTyped DEF PostInv, Expected, IsX
  <2>2. LET next == XReconcile(content, new)
        IN  /\ XInv(next, files)
            /\ Places(XSlots(content)) \subseteq Places(XSlots(next))
            /\ SameVariants(content, new) =>
                  \A slot \in XSlots(new) :
                      \/ slot \in XSlots(next)
                      \/ <<slot.scope, slot.index>> \in Places(OwnedIn(XSlots(content)))
    BY <1>1, <2>1, XRefreshes
  <2>3. /\ Refreshed(new) = XReconcile(content, new)
        /\ PostSlots = XSlots(content)
        /\ SlotsOfContent(Refreshed(new)) = XSlots(XReconcile(content, new))
        /\ PayloadSlots(new) = XSlots(new)
    BY <1>2 DEF Refreshed, PostSlots, SlotsOfContent, PayloadSlots
  <2>4. QED
    BY <1>2, <2>2, <2>3
<1>3. CASE ~IsX
  <2>1. /\ LinkedInInv(content, files) /\ new \in LinkedInPosts
        /\ NothingEmpty(NormalizeContent(new))
    BY <1>1, <1>3, FeedIsTyped DEF PostInv, Expected, IsX
  <2>2. LET next == LinkedInReconcile(content, new)
        IN  /\ LinkedInInv(next, files)
            /\ Places(LinkedInSlots(content)) \subseteq Places(LinkedInSlots(next))
            /\ SamePosterKey(content, new) =>
                  \A slot \in LinkedInSlots(NormalizeContent(new)) :
                      \/ slot \in LinkedInSlots(next)
                      \/ <<slot.scope, slot.index>> \in Places(OwnedIn(LinkedInSlots(content)))
    BY <1>1, <2>1, LinkedInRefreshes
  <2>3. /\ Refreshed(new) = LinkedInReconcile(content, new)
        /\ PostSlots = LinkedInSlots(content)
        /\ SlotsOfContent(Refreshed(new)) = LinkedInSlots(LinkedInReconcile(content, new))
        /\ PayloadSlots(new) = LinkedInSlots(NormalizeContent(new))
    BY <1>3 DEF Refreshed, PostSlots, SlotsOfContent, PayloadSlots
  <2>4. QED
    BY <1>3, <2>2, <2>3
<1>4. QED
  BY <1>2, <1>3

LEMMA PostStep ==
    ASSUME PostInv, [PostNext]_postVars
    PROVE  PostInv' /\ Places(PostSlots) \subseteq Places(PostSlots')
<1>1. feed \in DOMAIN Feeds /\ files \in SUBSET OwnedUrls
  BY DEF PostInv
<1>2. CASE Refresh
  <2>1. PICK new \in Expected : content' = Refreshed(new)
    BY <1>2 DEF Refresh
  <2>2. feed' = feed /\ files' = files /\ (IsX' <=> IsX)
    BY <1>2 DEF Refresh, IsX
  <2>3. IF IsX THEN XInv(content', files) ELSE LinkedInInv(content', files)
    BY <2>1, RefreshedPost
  <2>4. PostSlots' = SlotsOfContent(Refreshed(new))
    BY <2>1, <2>2 DEF PostSlots, SlotsOfContent
  <2>5. PostInv'
    BY <1>1, <2>2, <2>3 DEF PostInv
  <2>6. QED
    BY <2>4, <2>5, RefreshedPost
<1>3. CASE Archive
  <2>1. PICK done \in SUBSET PostSlots :
            files' = files \cup FilesOf(done)
    BY <1>3 DEF Archive, FilesOf
  <2> DEFINE archived == FileSlots(files')
  <2>2. /\ feed' = feed /\ (IsX' <=> IsX)
        /\ content' = IF IsX THEN ReuseMedia(archived, content) ELSE ReusePost(archived, content)
    BY <1>3 DEF Archive, IsX, FileSlots
  <2>3. CASE IsX
    <3>1. XInv(content, files) /\ done \in SUBSET XSlots(content)
      BY <2>1, <2>3 DEF PostInv, PostSlots, SlotsOfContent
    <3>2. LET more == files \cup FilesOf(done)
              next == ReuseMedia(FileSlots(more), content)
          IN  /\ more \in SUBSET OwnedUrls
              /\ XInv(next, more)
              /\ Places(XSlots(content)) \subseteq Places(XSlots(next))
      BY <1>1, <3>1, XArchives
    <3>3. /\ files' = files \cup FilesOf(done)
          /\ content' = ReuseMedia(FileSlots(files \cup FilesOf(done)), content)
      BY <2>1, <2>2, <2>3
    <3>4. PostSlots = XSlots(content) /\ PostSlots' = XSlots(content')
      BY <2>2, <2>3 DEF PostSlots, SlotsOfContent
    <3>5. PostInv'
      BY <1>1, <2>2, <2>3, <3>2, <3>3 DEF PostInv
    <3>6. QED
      BY <3>2, <3>3, <3>4, <3>5
  <2>4. CASE ~IsX
    <3>1. LinkedInInv(content, files) /\ done \in SUBSET LinkedInSlots(content)
      BY <2>1, <2>4 DEF PostInv, PostSlots, SlotsOfContent
    <3>2. LET more == files \cup FilesOf(done)
              next == ReusePost(FileSlots(more), content)
          IN  /\ more \in SUBSET OwnedUrls
              /\ LinkedInInv(next, more)
              /\ Places(LinkedInSlots(content)) \subseteq Places(LinkedInSlots(next))
      BY <1>1, <3>1, LinkedInArchives
    <3>3. /\ files' = files \cup FilesOf(done)
          /\ content' = ReusePost(FileSlots(files \cup FilesOf(done)), content)
      BY <2>1, <2>2, <2>4
    <3>4. PostSlots = LinkedInSlots(content) /\ PostSlots' = LinkedInSlots(content')
      BY <2>2, <2>4 DEF PostSlots, SlotsOfContent
    <3>5. PostInv'
      BY <1>1, <2>2, <2>4, <3>2, <3>3 DEF PostInv
    <3>6. QED
      BY <3>2, <3>3, <3>4, <3>5
  <2>5. QED
    BY <2>3, <2>4
<1>4. CASE UNCHANGED postVars
  BY <1>4 DEF postVars, PostInv, PostSlots, SlotsOfContent, IsX
<1>5. QED
  BY <1>2, <1>3, <1>4 DEF PostNext

LEMMA PostInvGives ==
    ASSUME PostInv
    PROVE  OwnedUrlsAreReused /\ RefreshStaysValid /\ FreshUrlsAreTaken
<1>1. files \in SUBSET OwnedUrls
  BY DEF PostInv
<1>2. PICK at : PostSlots = SlotsAt(at) /\ PlacesFit(at, files) /\ Keeps(at, files)
  <2>1. CASE IsX
    <3>1. content \in Seq(AnyItems) /\ MediaFits(content, files) /\ Keeps(XAt(content), files)
      BY <2>1 DEF PostInv, XInv
    <3>2. PostSlots = SlotsAt(XAt(content)) /\ PlacesFit(XAt(content), files)
      BY <1>1, <2>1, <3>1, XSlotsAre, XPlacesFit DEF PostSlots, SlotsOfContent
    <3>3. QED
      BY <3>1, <3>2
  <2>2. CASE ~IsX
    <3>1. content \in AnyPosts /\ PostFits(content, files) /\ Keeps(LinkedInAt(content), files)
      BY <2>2 DEF PostInv, LinkedInInv
    <3>2. PostSlots = SlotsAt(LinkedInAt(content)) /\ PlacesFit(LinkedInAt(content), files)
      BY <2>2, <3>1, LinkedInSlotsAre, LinkedInPlacesFit DEF PostSlots, SlotsOfContent
    <3>3. QED
      BY <3>1, <3>2
  <2>3. QED
    BY <2>1, <2>2
<1>3. OwnedUrlsAreReused /\ RefreshStaysValid
  BY <1>1, <1>2, PlacesGiveSlots DEF OwnedUrlsAreReused, RefreshStaysValid
<1>4. FreshUrlsAreTaken
  BY RefreshedPost DEF FreshUrlsAreTaken, Places
<1>5. QED
  BY <1>3, <1>4

\* Every owned URL in a post, also one that is not a slot now, is the one of its
\* place and has a file, and every file has its URL at its place.
THEOREM PostInvariance == PostSpec => []PostInv
<1>1. PostInv /\ [PostNext]_postVars => PostInv'
  BY PostStep
<1>2. QED
  BY <1>1, InitPostInv, PTL DEF PostSpec

\* Archived media stays with its post, for payloads of any length.
THEOREM OwnedUrlsStay == PostSpec => []OwnedUrlsAreReused
<1>1. PostInv => OwnedUrlsAreReused
  BY PostInvGives
<1>2. QED
  BY <1>1, PostInvariance, PTL

\* Every snapshot that refreshes and archiving produce loads again: no owned URL
\* is at another slot or lacks its file.
THEOREM InventoryStaysValid == PostSpec => []RefreshStaysValid
<1>1. PostInv => RefreshStaysValid
  BY PostInvGives
<1>2. QED
  BY <1>1, PostInvariance, PTL

\* A slot that is not archived takes the URL of the payload.
THEOREM FreshUrlsWin == PostSpec => []FreshUrlsAreTaken
<1>1. PostInv => FreshUrlsAreTaken
  BY PostInvGives
<1>2. QED
  BY <1>1, PostInvariance, PTL

\* No slot is lost, neither by a payload that leaves it out nor by archiving.
THEOREM SlotsStay == PostSpec => WaitingSlotsStay
<1>1. PostInv /\ [PostNext]_postVars => [Places(PostSlots) \subseteq Places(PostSlots')]_postVars
  BY PostStep
<1>2. QED
  BY <1>1, PostInvariance, PTL DEF PostSpec, WaitingSlotsStay
=============================================================================
