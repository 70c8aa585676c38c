----------------------------- MODULE XEnrichment -----------------------------
(***************************************************************************)
(* The posts that replies and reposts of an X account refer to             *)
(* (providers/x_syndication.py).  A provider returns such a post without   *)
(* the one it refers to, and XMediaEnricher asks a second, unofficial      *)
(* endpoint for it: the adapter does so for every answer it has paid for   *)
(* (apify/x_adapter.py), and a command does so for a whole snapshot        *)
(* (application/x_media_backfill.py).  The endpoint may fail, and may      *)
(* answer with another post.                                               *)
(*                                                                         *)
(* quotedTweet of a published post is what a refresh merges                *)
(* (media/slots.py); one media slot of it stands for all.  A candidate is  *)
(* published under a lease, as in DistPublication: what was made from a    *)
(* snapshot that has been replaced is dropped here.                        *)
(***************************************************************************)
EXTENDS Integers, FiniteSets

CONSTANTS
    Statuses,       \* X posts of one account: id, type, target and handle, and
                    \* the post a repost is of, which the code is not told
    Given,          \* the quotedTweets a provider may return with each
    Answers,        \* posts the endpoint may answer each id with: id, user,
                    \* media, avatar
    NoTweet,        \* no quotedTweet, or a miss
    MaxConcurrent   \* max_concurrency (4 in the code)

\* An inReplyToId that is not a status id.
NoId == 0
\* A text that does not begin with "RT @handle: ".
Nobody == ""

VARIABLES
    snapshot,   \* per published post: its quoted post, the one its media slot is
                \* of, and whether the slot is archived
    job,        \* "none", "refresh" or "backfill"
    content,    \* quotedTweet of the posts that are enriched
    waiting,    \* ids that wait for the limiter
    fetching,   \* ids that are being fetched
    results,    \* what came back for the other ids
    backfilled  \* candidate of a backfill that is not published, or {}

fetchVars == <<waiting, fetching, results>>
enrichmentVars == <<snapshot, job, content, fetchVars, backfilled>>

Entry(quoted, shows, owned) == [quoted |-> quoted, shows |-> shows, owned |-> owned]
MediaOf(tweet) == IF tweet # NoTweet /\ tweet.media THEN tweet ELSE NoTweet

-----------------------------------------------------------------------------
(***************************************************************************)
(* XMediaEnricher                                                          *)
(***************************************************************************)

\* _reference: a quotedTweet is never asked for twice.
Eligible(status, quoted) ==
    /\ quoted = NoTweet
    /\ \/ status.type = "reply"
       \/ status.type = "post" /\ status.handle # Nobody

\* A reply asks for its target.  A repost has no target: it asks for itself.
RequestedId(status) == IF status.type = "reply" THEN status.target ELSE status.id

\* enrich: each id once, however many posts refer to it.
RequestedIds(posts) ==
    {RequestedId(s) : s \in {s \in DOMAIN posts : Eligible(s, posts[s])}} \ {NoId}

\* Mutant: the id of the answer is not looked at.
MatchesAuthor(status, tweet) == status.type = "reply" \/ tweet.user = status.handle
\* _project: the answer is the target of a reply, or of the reposted author.
Matches(status, tweet) ==
    IF status.type = "reply" THEN tweet.id = status.target
    ELSE tweet.user = status.handle

\* A post without a match stays as it was.
Enriched(posts) ==
    [s \in DOMAIN posts |->
        LET id == RequestedId(s)
        IN  IF /\ Eligible(s, posts[s])
               /\ id # NoId
               /\ results[id] # NoTweet
               /\ Matches(s, results[id])
            THEN results[id] ELSE posts[s]]

-----------------------------------------------------------------------------
(***************************************************************************)
(* What a refresh merges and archives                                      *)
(***************************************************************************)

\* Mutant: what the refresh has is all there is.
NewOnly(old, new) == Entry(new, MediaOf(new), FALSE)
\* A quotedTweet without a picture has no slot.  Those of the endpoint have the
\* picture of their author.
HasSlot(entry) ==
    entry.quoted # NoTweet /\ (entry.shows # NoTweet \/ entry.quoted.avatar)
\* reconcile_media: a missing quotedTweet that has a slot is put back; else
\* missing media is put back, and an archived slot keeps its file.
Reconciled(old, new) ==
    IF new = NoTweet /\ HasSlot(old) THEN old
    ELSE Entry(new,
               IF old.owned \/ MediaOf(new) = NoTweet THEN old.shows ELSE MediaOf(new),
               old.owned)

Merged(posts) ==
    [s \in DOMAIN snapshot \cup DOMAIN posts |->
        CASE s \notin DOMAIN posts    -> snapshot[s]
          [] s \notin DOMAIN snapshot -> Entry(posts[s], MediaOf(posts[s]), FALSE)
          [] OTHER                    -> Reconciled(snapshot[s], posts[s])]

\* archive_media may succeed for any slot of any post.
Archivings(entries) ==
    LET slots == {s \in DOMAIN entries : entries[s].shows # NoTweet}
    IN  {[s \in DOMAIN entries |->
             [entries[s] EXCEPT !.owned = @ \/ s \in done]] : done \in SUBSET slots}

-----------------------------------------------------------------------------
NoPosts == [s \in {} |-> NoTweet]

EnrichmentInit ==
    /\ snapshot = NoPosts
    /\ job = "none"
    /\ content = NoPosts
    /\ waiting = {}
    /\ fetching = {}
    /\ results = NoPosts
    /\ backfilled = {}

\* _fetch_all starts a task for every id; the limiter lets some of them run.
Begins(kind, posts) ==
    /\ job = "none"
    /\ job' = kind
    /\ content' = posts
    /\ waiting' = RequestedIds(posts)
    /\ UNCHANGED <<snapshot, fetching, results, backfilled>>

\* The provider's dataset is normalized; it may leave out what it gave before.
RefreshBegins ==
    \E found \in (SUBSET Statuses) \ {{}} :
        \E posts \in [found -> UNION {Given[s] : s \in found}] :
            /\ \A s \in found : posts[s] \in Given[s]
            /\ Begins("refresh", posts)

\* backfill_x_media reads a snapshot that must be there.
BackfillBegins ==
    /\ backfilled = {}
    /\ DOMAIN snapshot # {}
    /\ Begins("backfill", [s \in DOMAIN snapshot |-> snapshot[s].quoted])

Fetch(id) ==
    /\ id \in waiting
    /\ Cardinality(fetching) < MaxConcurrent
    /\ waiting' = waiting \ {id}
    /\ fetching' = fetching \cup {id}
    /\ UNCHANGED <<snapshot, job, content, results, backfilled>>

\* Any status but 200, a timeout and an unreadable answer are misses.
Fetched(id) ==
    /\ id \in fetching
    /\ fetching' = fetching \ {id}
    /\ \E answer \in Answers[id] \cup {NoTweet} :
          results' = [i \in DOMAIN results \cup {id} |->
                         IF i = id THEN answer ELSE results[i]]
    /\ UNCHANGED <<snapshot, job, content, waiting, backfilled>>

AllFetched == waiting = {} /\ fetching = {}

JobEnds ==
    /\ job' = "none"
    /\ content' = NoPosts
    /\ waiting' = {}
    /\ fetching' = {}
    /\ results' = NoPosts

\* Any other exception cancels the other tasks.  The adapter keeps the posts as
\* they are, as if every answer were a miss ...
FetchRaisesInRefresh ==
    /\ job = "refresh"
    /\ fetching # {}
    /\ waiting' = {}
    /\ fetching' = {}
    /\ results' = [id \in RequestedIds(content) |-> NoTweet]
    /\ UNCHANGED <<snapshot, job, content, backfilled>>

\* ... and the command fails (exit 5).
FetchRaisesInBackfill ==
    /\ job = "backfill"
    /\ fetching # {}
    /\ JobEnds
    /\ UNCHANGED <<snapshot, backfilled>>

\* A process that dies, or a run that fails later, leaves nothing.
JobDies ==
    /\ job # "none"
    /\ JobEnds
    /\ UNCHANGED <<snapshot, backfilled>>

\* The answer is merged, archived and published; a backfill of the snapshot it
\* replaces is stale.
RefreshPublishes ==
    /\ job = "refresh"
    /\ AllFetched
    /\ snapshot' \in Archivings(Merged(Enriched(content)))
    /\ backfilled' = {}
    /\ JobEnds

\* The media of all posts is archived, and a complete candidate is written.
BackfillWrites ==
    /\ job = "backfill"
    /\ AllFetched
    /\ LET enriched == Enriched(content)
       IN  \E entries \in Archivings(
                  [s \in DOMAIN content |->
                      IF enriched[s] = content[s] THEN snapshot[s]
                      ELSE Entry(enriched[s], MediaOf(enriched[s]), FALSE)]) :
              backfilled' = {entries}
    /\ JobEnds
    /\ UNCHANGED snapshot

\* The operator's publish-dist.  A run that is under way is stale then.
BackfillPublished ==
    /\ snapshot' \in backfilled
    /\ backfilled' = {}
    /\ JobEnds

BackfillDiscarded ==
    /\ backfilled # {}
    /\ backfilled' = {}
    /\ UNCHANGED <<snapshot, job, content, fetchVars>>

EnrichmentNext ==
    \/ RefreshBegins
    \/ BackfillBegins
    \/ \E id \in waiting : Fetch(id)
    \/ \E id \in fetching : Fetched(id)
    \/ FetchRaisesInRefresh
    \/ FetchRaisesInBackfill
    \/ JobDies
    \/ RefreshPublishes
    \/ BackfillWrites
    \/ BackfillPublished
    \/ BackfillDiscarded

EnrichmentSpec == EnrichmentInit /\ [][EnrichmentNext]_enrichmentVars

-----------------------------------------------------------------------------
(***************************************************************************)
(* Properties                                                              *)
(***************************************************************************)

\* The post a status refers to.
Referred(status) ==
    IF status.type = "reply" THEN status.target ELSE status.reposts

\* What has to be true of the endpoint: an answer for a repost that is by the
\* author its text names is the post it is of.  The code cannot tell two posts of
\* that author apart (_reference has no id to expect).  Answers by anyone else,
\* the repost itself among them, and all answers for a reply are free.  A post
\* that only looks like a repost of the account itself ("RT @me: ...") is outside.
RepostsAreKnown ==
    \A s \in Statuses :
        s.type = "post" =>
            \A tweet \in Answers[s.id] : tweet.user = s.handle => tweet.id = s.reposts

\* Nothing is published as the post a reply or a repost refers to that is not,
\* nor under its media: in whatever order answers arrive, whichever posts share
\* one, and whatever was archived in the place before.  For reposts it takes
\* RepostsAreKnown: against another post of the same author nothing is checked.
\* Posts the provider itself may give a quoted post are left out: if it leaves
\* that out of a reply later on, the target takes its place and keeps the
\* archived media of the other.
\* x_syndication.py:225 "Enrich immutable X posts while preserving every failed
\* record."
ReferencesAreRight ==
    \A entries \in backfilled \cup {snapshot} :
        \A s \in DOMAIN entries :
            Given[s] = {NoTweet} =>
                \A tweet \in {entries[s].quoted, entries[s].shows} \ {NoTweet} :
                    /\ s.type = "reply" \/ s.handle # Nobody
                    /\ tweet.id = Referred(s)

\* A miss, an exception, a provider that leaves a quoted post out and a backfill
\* take nothing away: a post that has a quoted post with a picture keeps having
\* one, and its media, and a backfill overwrites neither.
\* operations.md:348 "Existing `content.quotedTweet` objects are authoritative
\* and are never overwritten or retried."
EnrichmentsAreKept ==
    [][\A s \in DOMAIN snapshot :
          /\ s \in DOMAIN snapshot'
          /\ HasSlot(snapshot[s]) => snapshot'[s].quoted # NoTweet
          /\ snapshot[s].shows # NoTweet => snapshot'[s].shows # NoTweet
          /\ snapshot[s].owned => snapshot'[s].owned
                                    /\ snapshot'[s].shows = snapshot[s].shows
          /\ BackfillPublished /\ snapshot[s].quoted # NoTweet =>
                snapshot'[s].quoted = snapshot[s].quoted]_enrichmentVars
=============================================================================
