----------------------------- MODULE PostIdentity -----------------------------
(***************************************************************************)
(* What becomes of the records a provider returns: the accounts they are   *)
(* attributed to (accounts/locator.py, brightdata/actor_ownership.py,      *)
(* apify/normalize.py), the identity of a post (platforms/, domain/post.py)*)
(* the duplicates of an answer and of a run (normalize.py of each provider,*)
(* adapters/router_state.py), and the conflicts with what is published     *)
(* (storage/merge.py).                                                     *)
(*                                                                         *)
(* Providers and operators spell the same thing in several ways.  A URL of *)
(* a profile is a name, whether it has capitals, and whether it has a      *)
(* query; the id of a post is a number with or without its URN prefix.     *)
(* Times, types and texts, which are in the merge hash, are one field, and *)
(* everything else of a post is another.                                   *)
(***************************************************************************)
EXTENDS Integers, Sequences

CONSTANTS
    Spellings,  \* URLs an operator may request
    Records,    \* per platform, the records a provider may return
    MaxRecords, \* bound on the length of an answer
    LastRun     \* bound on the number of runs

\* Ids are numbers, and encodings are ordered like numbers.
ASSUME RecordsAssumption ==
    /\ MaxRecords \in Nat
    /\ \A f \in {"linkedin", "x"} : \A r \in Records[f] :
          /\ r.id \in [number : Nat, urn : BOOLEAN]
          /\ r.rest \in Nat

VARIABLES
    platform,   \* "linkedin" or "x"
    batching,   \* whether the provider of this run takes several accounts at once
    phase,      \* "idle", "ask", "answered" or "merge"
    now,        \* runs begun, and the time of the present one
    todo,       \* requested accounts that have not been answered
    asked,      \* the accounts of the present batch
    records,    \* the records the provider returned for it
    collected,  \* RouterRunState.posts
    published   \* the posts of the snapshot

identityVars == <<platform, batching, phase, now, todo, asked, records, collected,
                  published>>

-----------------------------------------------------------------------------
(***************************************************************************)
(* Identities                                                              *)
(***************************************************************************)

\* parse_account_locator: the canonical account of a URL, a set of at most one.
\* Handles of X are folded and take no query; segments of LinkedIn are kept as
\* they are and their query is dropped.
Locator(url) ==
    IF platform = "x"
    THEN {[name |-> url.name, caps |-> FALSE] : q \in {url.query} \cap {FALSE}}
    ELSE {[name |-> url.name, caps |-> url.caps]}

\* Mutant: the id is taken as the provider spells it.
PostIdAsGiven(id) == id
\* canonical_platform_post_id: the prefix that only Bright Data uses is dropped.
PostId(id) == [id EXCEPT !.urn = FALSE]

\* Every URL of a record that names its account must name the same one: the
\* actor URLs of Bright Data, the author and the post's URL for X, the target of
\* the query (else the author) for the LinkedIn actor of Apify.
OwnerOf(record) ==
    LET named == UNION {Locator(url) : url \in record.urls}
    IN  IF \A url \in record.urls : Locator(url) = named THEN named ELSE {}

\* The fields of content_hash.
SameHash(p, q) == p.id = q.id /\ p.owner = q.owner /\ p.text = q.text

Failed == [ok |-> FALSE, posts |-> {}]

\* Mutant: of two records of a post the first one is kept.
PreferEarlier(post, old) == FALSE
\* The smaller of the two encodings.
Prefer(post, old) == post.rest < old.rest

\* _canonical_post: the post a record gives if its owner is one of the accounts
\* that were asked for, a set of at most one.
PostsOf(accounts, record) ==
    {[id |-> PostId(record.id), owner |-> a, text |-> record.text,
      rest |-> record.rest, firstSeen |-> now] : a \in OwnerOf(record) \cap accounts}

\* One step of normalize_posts.  Records of other accounts, and two records of
\* one post that disagree, spoil the answer.
Normalize(accounts, sofar, record) ==
    LET posts == PostsOf(accounts, record)
        same(post) == {old \in sofar.posts : old.id = post.id}
    IN  IF ~sofar.ok \/ posts = {} THEN Failed
        ELSE LET post == CHOOSE p \in posts : TRUE
             IN  IF \E old \in same(post) : ~SameHash(old, post) THEN Failed
                 ELSE IF \A old \in same(post) : Prefer(post, old)
                 THEN [ok |-> TRUE, posts |-> (sofar.posts \ same(post)) \cup {post}]
                 ELSE sofar

\* What the first n records come to, and what all of them do.
NormalizedFirst(accounts, items) ==
    LET after[n \in 0 .. Len(items)] ==
            IF n = 0 THEN [ok |-> TRUE, posts |-> {}]
            ELSE Normalize(accounts, after[n - 1], items[n])
    IN  after
Normalized(accounts, items) == NormalizedFirst(accounts, items)[Len(items)]

-----------------------------------------------------------------------------
IdentityInit ==
    /\ platform \in {"linkedin", "x"}
    /\ batching = FALSE
    /\ phase = "idle"
    /\ now = 0
    /\ todo = {}
    /\ asked = {}
    /\ records = <<>>
    /\ collected = {}
    /\ published = {}

\* load_runtime_input: each account once, however often and however it is
\* spelled; one invalid URL rejects the input.  Only the LinkedIn driver of
\* Bright Data takes batches.
RunBegins ==
    /\ phase = "idle"
    /\ now < LastRun
    /\ \E urls \in SUBSET Spellings :
          /\ urls # {}
          /\ \A url \in urls : Locator(url) # {}
          /\ todo' = UNION {Locator(url) : url \in urls}
    /\ batching' \in {FALSE, platform = "linkedin"}
    /\ now' = now + 1
    /\ phase' = "ask"
    /\ UNCHANGED <<platform, asked, records, collected, published>>

Answers(n) == UNION {[1 .. k -> Records[platform]] : k \in 0 .. n}

\* Provider errors are in Router; here each batch is answered, with the records
\* of any account.  Only Bright Data writes ids as URNs.
AskProvider ==
    /\ phase = "ask"
    /\ todo # {}
    /\ asked' \in IF batching THEN {todo} ELSE {{a} : a \in todo}
    /\ records' \in Answers(MaxRecords)
    /\ \A i \in DOMAIN records' : records'[i].id.urn => batching
    /\ phase' = "answered"
    /\ UNCHANGED <<platform, batching, now, todo, collected, published>>

AnswerPosts == Normalized(asked, records)

\* merge_post refuses a post of this run that is met again and is not the same.
ConflictInRun ==
    \E p \in collected, q \in AnswerPosts.posts : p.id = q.id /\ ~SameHash(p, q)

\* RouterRunState.accept
TakeIn ==
    /\ phase = "answered"
    /\ AnswerPosts.ok
    /\ ~ConflictInRun
    /\ collected' =
          collected \cup {q \in AnswerPosts.posts : \A p \in collected : p.id # q.id}
    /\ todo' = todo \ asked
    /\ asked' = {}
    /\ records' = <<>>
    /\ phase' = IF todo' = {} THEN "merge" ELSE "ask"
    /\ UNCHANGED <<platform, batching, now, published>>

\* Nothing of a run that is aborted is published.
RunEnds ==
    /\ phase' = "idle"
    /\ batching' = FALSE
    /\ todo' = {}
    /\ asked' = {}
    /\ records' = <<>>
    /\ collected' = {}
    /\ UNCHANGED <<platform, now>>

SchemaAborts ==
    /\ phase = "answered"
    /\ ~AnswerPosts.ok \/ ConflictInRun
    /\ UNCHANGED published
    /\ RunEnds

\* A post of the run is published under another account.
OwnershipConflict ==
    \E p \in published, q \in collected : p.id = q.id /\ p.owner # q.owner

\* _merge_posts: new content, the old first-seen time, nothing removed.
Merge ==
    /\ phase = "merge"
    /\ ~OwnershipConflict
    /\ published' =
          {p \in published : \A q \in collected : q.id # p.id}
            \cup {[q EXCEPT !.firstSeen =
                       IF \E p \in published : p.id = q.id
                       THEN (CHOOSE p \in published : p.id = q.id).firstSeen ELSE @] :
                   q \in collected}
    /\ RunEnds

MergeAborts ==
    /\ phase = "merge"
    /\ OwnershipConflict
    /\ UNCHANGED published
    /\ RunEnds

IdentityNext ==
    \/ RunBegins
    \/ AskProvider
    \/ TakeIn
    \/ SchemaAborts
    \/ Merge
    \/ MergeAborts

IdentitySpec == IdentityInit /\ [][IdentityNext]_identityVars

-----------------------------------------------------------------------------
(***************************************************************************)
(* Properties                                                              *)
(***************************************************************************)

\* One post of a platform is one post of the snapshot, whichever provider
\* returned it and however it spelled its id; and its owner and the time it was
\* first seen stay what they were when it was published, whichever account a
\* later answer attributes it to and however an operator spells an account.
\* architecture.md:319 "Ownership, schema, batch-coverage, duplicate-payload,
\* and referential conflicts abort the whole candidate before promotion".
PostsKeepTheirIdentity ==
    /\ [](\A p, q \in published : p.id.number = q.id.number => p = q)
    /\ [][\A p \in published : \E q \in published' :
              q.id = p.id /\ q.owner = p.owner /\ q.firstSeen = p.firstSeen]_identityVars

\* What an answer comes to does not depend on the order of its records, neither
\* whether it is refused nor which of two records of a post is kept.
\* x_normalize.py:94 "with deterministic duplicates"
Orders(n) == {order \in [1 .. n -> 1 .. n] : \A i \in 1 .. n : \E j \in 1 .. n : order[j] = i}
OrderDoesNotMatter ==
    \A order \in Orders(Len(records)) :
        Normalized(asked, [i \in 1 .. Len(records) |-> records[order[i]]])
            = Normalized(asked, records)
=============================================================================
