------------------------- MODULE MCDistPublication -------------------------
(* TLC instance of DistPublication with interchangeable runs and posts, and   *)
(* of XEnrichment with the posts of one X account.  The two share no          *)
(* variable, so a behaviour is one of either, as "part" says.                 *)
EXTENDS DistPublication, XEnrichment, TLC

Symmetry == Permutations(Publishers) \cup Permutations(Posts)

\* The post that is replied to and the one that is reposted, which may also be
\* answered without media; the repost itself; and a quoted post without a picture.
Tweet(id, user, media, avatar) ==
    [id |-> id, user |-> user, media |-> media, avatar |-> avatar]
Parent == Tweet(1, "ann", TRUE, TRUE)
Quoted == Tweet(2, "bob", TRUE, TRUE)
Silent == Tweet(2, "bob", FALSE, TRUE)
Itself == Tweet(13, "cat", TRUE, TRUE)
Bare == Tweet(4, "bob", FALSE, FALSE)

\* Two replies to one post, one of which also quotes a post, and a repost.
Status(id, type, target, handle, reposts) ==
    [id |-> id, type |-> type, target |-> target, handle |-> handle,
     reposts |-> reposts]
Reply == Status(11, "reply", 1, Nobody, NoId)
Quoting == Status(12, "reply", 1, Nobody, NoId)
Repost == Status(13, "post", NoId, "bob", 2)
TheStatuses == {Reply, Quoting, Repost}
TheGiven ==
    [s \in TheStatuses |->
        {NoTweet} \cup (IF s = Quoting THEN {Quoted, Bare} ELSE {})]
TheAnswers ==
    [id \in {1, 13} |-> {Quoted, Silent, IF id = 1 THEN Parent ELSE Itself}]

\* The endpoint knows what the repost is of.
ASSUME RepostsAreKnown

VARIABLE part

MCInit ==
    /\ part \in {"publication", "enrichment"}
    /\ Init
    /\ EnrichmentInit

PublicationStep ==
    /\ part = "publication"
    /\ Next
    /\ UNCHANGED <<part, enrichmentVars>>

EnrichmentStep ==
    /\ part = "enrichment"
    /\ EnrichmentNext
    /\ UNCHANGED <<part, vars>>

MCSpec ==
    MCInit /\ [][PublicationStep \/ EnrichmentStep]_<<part, vars, enrichmentVars>>
=============================================================================
