--------------------------- MODULE MCMediaArchive ---------------------------
(* TLC instance of MediaArchive with interchangeable slots, and of MediaSlots *)
(* with the payloads of four posts.  The two share no variable, so a          *)
(* behaviour is one of either: with the feed "none" it is one of              *)
(* MediaArchive.                                                              *)
EXTENDS MediaArchive, MediaSlots, TLC

Symmetry == Permutations(Slots) \cup Permutations(Sources)

UpTo(S, n) == UNION {[1 .. k -> S] : k \in 0 .. n}

\* Lists of variants, all photos and all videos.
VariantLists(urls, n) ==
    UpTo({Variant(playable, url, bitrate) :
             playable \in BOOLEAN, url \in urls, bitrate \in 1 .. 2}, n)
ItemsWith(urls, lists) ==
    {Item("photo", url, <<>>) : url \in urls}
       \cup {Item("video", url, list) : url \in urls, list \in lists}

\* One item with every list of variants; two items with one variant each.
OneItem(url) ==
    LET urls == {NoUrl, EmptyUrl, url}
    IN  UpTo(ItemsWith(urls, VariantLists(urls, 2)), 1)
TwoItems(url) ==
    UpTo({NoItem} \cup ItemsWith({NoUrl, EmptyUrl, url}, {<<>>, <<Variant(TRUE, url, 1)>>}), 2)

\* LinkedIn posts with images and an avatar, and with videos and posters.
ImagePosts(url) ==
    {LinkedInPost(images, <<>>, NoUrl, avatar, picture) :
        images \in UpTo({NoUrl, EmptyUrl, url}, 2),
        avatar \in {NoUrl, EmptyUrl, url},
        picture \in {NoUrl, EmptyUrl, url}}
VideoPosts(url) ==
    {LinkedInPost(<<>>, videos, thumbnail, NoUrl, NoUrl) :
        videos \in UpTo({Video(u, p) : u \in {NoUrl, url},
                                       p \in {NoUrl, EmptyUrl, url}}, 2),
        thumbnail \in {NoUrl, EmptyUrl, url}}

\* All URLs of a payload were signed together.
VariantPayloads == UNION {OneItem(url) : url \in Sources}
ItemPayloads == UNION {TwoItems(url) : url \in Sources}
ImagePayloads == UNION {ImagePosts(url) : url \in Sources}
VideoPayloads == UNION {VideoPosts(url) : url \in Sources}

Feed(platform, payloads) == [platform |-> platform, payloads |-> payloads]
MCFeeds ==
    [none |-> Feed("x", {<<>>}),
     variants |-> Feed("x", VariantPayloads),
     items |-> Feed("x", ItemPayloads),
     images |-> Feed("linkedin", ImagePayloads),
     videos |-> Feed("linkedin", VideoPayloads)]

MCInit == Init /\ PostInit
ArchiveStep == feed = "none" /\ Next /\ UNCHANGED postVars
PostStep == feed # "none" /\ PostNext /\ UNCHANGED vars
MCSpec == MCInit /\ [][ArchiveStep \/ PostStep]_<<vars, postVars>>
=============================================================================
