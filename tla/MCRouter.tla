------------------------------ MODULE MCRouter ------------------------------
(* TLC instance of Router: two LinkedIn persons, a company and an X profile;  *)
(* and of PostIdentity, which looks into the posts of an answer.  The two     *)
(* share no variable, so a behaviour is one of either, as "part" says.        *)
EXTENDS Router, PostIdentity

TheAccounts == 1 .. 4
TheKindOf == <<"person", "person", "company", "profile">>

\* Sources as bootstrap_runtime composes them, Apify tokens first, each with a
\* LinkedIn and an X driver; and a registry that knows an X driver of which no
\* instance was configured.
BothSources == [drivers |-> <<"apify", "apifyx", "brightdata">>,
                registered |-> {"apify", "apifyx", "brightdata"}]
TwoBrightData == [drivers |-> <<"brightdata", "brightdata">>,
                  registered |-> {"brightdata"}]
NoXInstance == [drivers |-> <<"apify", "brightdata">>,
                registered |-> {"apify", "apifyx", "brightdata"}]
TheSetups == {BothSources, TwoBrightData, NoXInstance}

\* One profile spelled four ways, and another one.
URL(name, caps, query) == [name |-> name, caps |-> caps, query |-> query]
Ann == URL("ann", FALSE, FALSE)
AnnInCapitals == URL("ann", TRUE, FALSE)
Bob == URL("bob", FALSE, FALSE)
TheSpellings == {URL("ann", c, q) : c \in BOOLEAN, q \in BOOLEAN} \cup {Bob}

\* A post under each set of actor URLs, its id spelled both ways and its other
\* fields different; the same post with another text; and a second post.
Record(number, urn, urls, text, rest) ==
    [id |-> [number |-> number, urn |-> urn], urls |-> urls,
     text |-> text, rest |-> rest]
ActorUrls == {{Ann}, {AnnInCapitals}, {Bob}, {Ann, AnnInCapitals}, {Ann, Bob}}
LinkedInRecords ==
    {Record(1, urn, urls, 1, rest) :
        urn \in BOOLEAN, urls \in ActorUrls, rest \in {1, 2}}
      \cup {Record(2, FALSE, {Bob}, 1, 1), Record(1, FALSE, {Ann}, 2, 1)}
XRecords == {r \in LinkedInRecords : ~r.id.urn}
TheRecords == [linkedin |-> LinkedInRecords, x |-> XRecords]

VARIABLE part

MCInit ==
    /\ part \in {"router", "identity"}
    /\ RouterInit
    /\ IdentityInit
    /\ part = "router" => platform = "x"
    /\ part = "identity" => setup = NoXInstance /\ requests = {}

RouteStep ==
    /\ part = "router"
    /\ RouterNext
    /\ UNCHANGED <<part, identityVars>>

IdentityStep ==
    /\ part = "identity"
    /\ IdentityNext
    /\ UNCHANGED <<part, rvars>>

MCSpec ==
    MCInit /\ [][RouteStep \/ IdentityStep]_<<part, rvars, identityVars>>
=============================================================================
