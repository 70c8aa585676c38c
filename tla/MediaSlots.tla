----------------------------- MODULE MediaSlots -----------------------------
(***************************************************************************)
(* Which media a post has, and what a refresh does to it (media/slots.py). *)
(* A slot is identified by its scope and its position, never by its URL.   *)
(* A refreshed post is a new payload from the provider, which may sign     *)
(* URLs anew, leave media out or list more of it; reconcile_media puts     *)
(* back what is missing and the owned URL of every archived slot.          *)
(*                                                                         *)
(* X posts have a list of items and LinkedIn posts have separate lists and *)
(* single fields, so there are two sets of operators.  The quoted post of  *)
(* an X post and the repost of a LinkedIn post have the same structure     *)
(* under other scopes, and the covers and logos of LinkedIn are fields     *)
(* like the avatar: one of each stands for all.  Positions begin with 1.   *)
(* A list that is absent and an empty list are both <<>>.                  *)
(*                                                                         *)
(* The state is one post of the snapshot, over the runs that refresh it    *)
(* and archive its media.  Why an attempt fails is in MediaArchive.        *)
(***************************************************************************)
EXTENDS Integers, Sequences, FiniteSets

CONSTANTS
    Sources,    \* URLs that providers give
    NoUrl,      \* None, or a key that is absent
    EmptyUrl,   \* the empty string
    Feeds       \* named sets of payloads: what a provider may give of a post

VARIABLES
    feed,    \* the payloads this post comes from
    content, \* Post.content in the snapshot
    files    \* the owned URLs of the files archived for it

postVars == <<feed, content, files>>

\* The URL of the archived file of a slot.  MediaSlot.path derives the path
\* from the scope and the position; extensions are left out.
Scopes == {"images", "videos", "posters", "avatars"}
Owned(scope, index) == [scope |-> scope, index |-> index]
IsOwned(url) == url \notin Sources \cup {NoUrl, EmptyUrl}

\* A string that is not empty: only such a value makes a slot.
Present(url) == url \notin {NoUrl, EmptyUrl}

Slot(scope, index, url) == [scope |-> scope, index |-> index, url |-> url]
SlotsOf(candidates) == {slot \in candidates : Present(slot.url)}

\* validate_media_inventory: an owned URL is the one of its own slot, and its
\* file is there.
ValidInventory(slots, present) ==
    \A slot \in slots : IsOwned(slot.url) =>
        slot.url = Owned(slot.scope, slot.index) /\ slot.url \in present

\* The slot at the same place in another post, as a set of at most one.
SamePlace(slots, scope, index) ==
    {slot \in slots : slot.scope = scope /\ slot.index = index}

\* Mutant: positions are not compared, as if lists were compacted.
ReusedInOrder(older, scope, index, url) ==
    LET kept == {slot \in older : slot.scope = scope /\ IsOwned(slot.url)}
    IN  IF kept # {} THEN (CHOOSE slot \in kept : TRUE).url ELSE url
\* The URL of a slot, or the owned URL that the older post had there.
Reused(older, scope, index, url) ==
    LET kept == {slot \in SamePlace(older, scope, index) : IsOwned(slot.url)}
    IN  IF kept # {} THEN (CHOOSE slot \in kept : TRUE).url ELSE url

\* Mutants: what is missing stays missing; only archived media is put back; the
\* old value wins.
LeftOut(old, new) == new
OwnedBack(old, new) == IF new = NoUrl /\ IsOwned(old) THEN old ELSE new
OldWins(old, new) == IF Present(old) THEN old ELSE new
\* _restore_location on one value: the old one is put back if it was a slot.
Restored(old, new) == IF new = NoUrl /\ Present(old) THEN old ELSE new

LargestOf(numbers) == CHOOSE n \in numbers : \A m \in numbers : m <= n

\* _restore_location on a list: positions up to the last old entry with a slot
\* are filled up, and each entry is restored on its own.
RestoreList(old, new, HasSlot(_), Restore(_, _)) ==
    LET length == LargestOf({Len(new)} \cup {i \in DOMAIN old : HasSlot(old[i])})
    IN  [i \in 1 .. length |->
            CASE i > Len(new) -> old[i]
              [] i > Len(old) -> new[i]
              [] OTHER        -> Restore(old[i], new[i])]

-----------------------------------------------------------------------------
(***************************************************************************)
(* X posts: a list of items                                                *)
(***************************************************************************)

\* "playable" is a content type in VIDEO_MIME_TYPES; HLS playlists are not.
Variant(playable, url, bitrate) ==
    [playable |-> playable, url |-> url, bitrate |-> bitrate]
Item(type, mediaUrl, variants) ==
    [type |-> type, mediaUrl |-> mediaUrl, variants |-> variants]
NoItem == Item("none", NoUrl, <<>>)

\* An archived variant first, then the bitrate, then the position.
Preferred(v, i, w, j) ==
    \/ IsOwned(v.url) /\ ~IsOwned(w.url)
    \/ /\ IsOwned(v.url) = IsOwned(w.url)
       /\ v.bitrate > w.bitrate \/ (v.bitrate = w.bitrate /\ i <= j)

\* The position of the variant to archive, 0 if there is none.
SelectedVariant(variants) ==
    LET choices == {i \in DOMAIN variants :
                       variants[i].playable /\ variants[i].url # NoUrl}
    IN  IF choices = {} THEN 0
        ELSE CHOOSE i \in choices :
                \A j \in choices : Preferred(variants[i], i, variants[j], j)

VideoUrl(item) ==
    LET i == SelectedVariant(item.variants)
    IN  IF i = 0 THEN NoUrl ELSE item.variants[i].url

XSlots(media) ==
    SlotsOf(UNION {
        CASE media[i].type = "photo" ->
                {Slot("images", i, media[i].mediaUrl)}
          [] media[i].type = "video" ->
                {Slot("posters", i, media[i].mediaUrl),
                 Slot("videos", i, VideoUrl(media[i]))}
          [] OTHER -> {} : i \in DOMAIN media})

HasXSlot(item) == XSlots(<<item>>) # {}

\* Only the selected variant of the old item is a slot.
RestoreVariants(old, new) ==
    LET chosen == SelectedVariant(old)
    IN  IF chosen = 0 \/ ~Present(old[chosen].url) THEN new
        ELSE IF new = <<>> THEN old
        ELSE [i \in 1 .. LargestOf({Len(new), chosen}) |->
                 IF i > Len(new) THEN old[i]
                 ELSE IF i = chosen THEN [new[i] EXCEPT !.url = Restored(old[i].url, @)]
                 ELSE new[i]]

RestoreItem(old, new) ==
    IF ~HasXSlot(old) THEN new
    ELSE IF new = NoItem THEN old
    ELSE [new EXCEPT !.mediaUrl = Restored(old.mediaUrl, @),
                     !.variants = IF old.type = "photo" THEN @
                                  ELSE RestoreVariants(old.variants, @)]

RestoreMedia(old, new) == RestoreList(old, new, HasXSlot, RestoreItem)

\* set_archived also gives the selected variant a playable content type.
SetVideo(item, url) ==
    LET i == SelectedVariant(item.variants)
    IN  IF i = 0 \/ ~Present(item.variants[i].url) THEN item
        ELSE [item EXCEPT !.variants[i].url = url]
SetImage(item, url) ==
    IF Present(item.mediaUrl) THEN [item EXCEPT !.mediaUrl = url] ELSE item

\* Owned URLs of "older" go where their slots are in this list.
ReuseMedia(older, media) ==
    [i \in DOMAIN media |->
        LET item == media[i]
        IN  CASE item.type = "photo" ->
                   SetImage(item, Reused(older, "images", i, item.mediaUrl))
              [] item.type = "video" ->
                   SetVideo(SetImage(item, Reused(older, "posters", i, item.mediaUrl)),
                            Reused(older, "videos", i, VideoUrl(item)))
              [] OTHER -> item]

XReconcile(old, new) == ReuseMedia(XSlots(old), RestoreMedia(old, new))

-----------------------------------------------------------------------------
(***************************************************************************)
(* LinkedIn posts: lists of images and videos, and single fields           *)
(***************************************************************************)

\* "thumbnail" of a post is video_thumbnail; "picture" stands for the other
\* keys under which providers give the avatar.
Video(url, thumbnail) == [url |-> url, thumbnail |-> thumbnail]
LinkedInPost(images, videos, thumbnail, avatar, picture) ==
    [images |-> images, videos |-> videos, thumbnail |-> thumbnail,
     avatar |-> avatar, picture |-> picture]

\* normalize_content: the first alias that gives an avatar; the rest is dropped.
NormalizeContent(post) ==
    [post EXCEPT !.avatar = IF ~Present(@) /\ Present(post.picture)
                            THEN post.picture ELSE @,
                 !.picture = NoUrl]

HasVideoSlot(video) == Present(video.url) \/ Present(video.thumbnail)
\* The poster of the first video is the one of the post if it has none itself.
FirstPosterIsOwn(post) ==
    post.videos # <<>> /\ Present(post.videos[1].thumbnail)

LinkedInSlots(post) ==
    SlotsOf({Slot("images", i, post.images[i]) : i \in DOMAIN post.images}
       \cup {Slot("videos", i, post.videos[i].url) : i \in DOMAIN post.videos}
       \cup {Slot("posters", i, post.videos[i].thumbnail) : i \in DOMAIN post.videos}
       \cup (IF FirstPosterIsOwn(post) THEN {} ELSE {Slot("posters", 1, post.thumbnail)})
       \cup {Slot("avatars", 1, post.avatar)})

RestoreVideo(old, new) ==
    Video(Restored(old.url, new.url), Restored(old.thumbnail, new.thumbnail))

RestorePost(old, new) ==
    [new EXCEPT
        !.images = RestoreList(old.images, @, Present, Restored),
        !.videos = RestoreList(old.videos, @, HasVideoSlot, RestoreVideo),
        !.thumbnail = IF FirstPosterIsOwn(old) THEN @ ELSE Restored(old.thumbnail, @),
        !.avatar = Restored(old.avatar, @)]

SetUrl(url, owned) == IF Present(url) THEN owned ELSE url

ReusePost(older, post) ==
    LET Reuse(scope, i, url) == SetUrl(url, Reused(older, scope, i, url))
    IN  [post EXCEPT
            !.images = [i \in DOMAIN @ |-> Reuse("images", i, @[i])],
            !.videos = [i \in DOMAIN @ |->
                           Video(Reuse("videos", i, @[i].url),
                                 Reuse("posters", i, @[i].thumbnail))],
            !.thumbnail = IF FirstPosterIsOwn(post) THEN @ ELSE Reuse("posters", 1, @),
            !.avatar = Reuse("avatars", 1, @)]

LinkedInReconcile(previous, current) ==
    LET old == NormalizeContent(previous)
        new == NormalizeContent(current)
    IN  ReusePost(LinkedInSlots(old), RestorePost(old, new))

-----------------------------------------------------------------------------
(***************************************************************************)
(* Payloads                                                                *)
(***************************************************************************)

URLs == Sources \cup {NoUrl, EmptyUrl}
Variants == [playable : BOOLEAN, url : URLs, bitrate : Int]
Items == [type : {"photo", "video"}, mediaUrl : URLs, variants : Seq(Variants)]
           \cup {NoItem}
LinkedInPosts ==
    [images : Seq(URLs), videos : Seq([url : URLs, thumbnail : URLs]),
     thumbnail : URLs, avatar : URLs, picture : URLs]

\* The URL of a provider is never an owned one.
ASSUME SlotsAssumption ==
    /\ NoUrl \notin Sources
    /\ EmptyUrl \notin Sources
    /\ NoUrl # EmptyUrl
    /\ \A url \in URLs : url \notin [scope : Scopes, index : Nat]
    /\ \A f \in DOMAIN Feeds :
          \/ Feeds[f].platform = "x" /\ Feeds[f].payloads \subseteq Seq(Items)
          \/ Feeds[f].platform = "linkedin" /\ Feeds[f].payloads \subseteq LinkedInPosts

-----------------------------------------------------------------------------
(***************************************************************************)
(* One post over many runs                                                 *)
(***************************************************************************)

IsX == Feeds[feed].platform = "x"
SlotsOfContent(c) == IF IsX THEN XSlots(c) ELSE LinkedInSlots(c)
PostSlots == SlotsOfContent(content)
PayloadSlots(new) == IF IsX THEN XSlots(new) ELSE LinkedInSlots(NormalizeContent(new))
Refreshed(new) == IF IsX THEN XReconcile(content, new) ELSE LinkedInReconcile(content, new)

\* What a payload is taken to do: an X item keeps its type, a video that lists
\* variants lists a playable one, and media that is missing is null or absent and
\* not an empty string.
SameItems(old, new) ==
    \A i \in DOMAIN old \cap DOMAIN new :
        \/ new[i] = NoItem
        \/ old[i] = NoItem
        \/ /\ new[i].type = old[i].type
           /\ new[i].mediaUrl # EmptyUrl
           /\ new[i].variants # <<>> => Present(VideoUrl(new[i]))
NothingEmpty(new) ==
    /\ EmptyUrl \notin {new.thumbnail, new.avatar}
    /\ \A i \in DOMAIN new.images : new.images[i] # EmptyUrl
    /\ \A i \in DOMAIN new.videos :
          EmptyUrl \notin {new.videos[i].url, new.videos[i].thumbnail}

\* The payloads of a refresh.
Expected == {new \in Feeds[feed].payloads :
                IF IsX THEN SameItems(content, new) ELSE NothingEmpty(NormalizeContent(new))}

\* merge_snapshot takes a post it does not know as it comes ...
PostInit ==
    /\ feed \in DOMAIN Feeds
    /\ \E first \in Feeds[feed].payloads :
          content = IF IsX THEN first ELSE NormalizeContent(first)
    /\ files = {}

\* ... and reconciles any other with what it has.
Refresh ==
    /\ \E new \in Expected : content' = Refreshed(new)
    /\ UNCHANGED <<feed, files>>

\* archive_media: some slots are downloaded; these and the slots that already
\* have a file get their owned URLs.
Archive ==
    /\ \E done \in SUBSET PostSlots :
          files' = files \cup {Owned(slot.scope, slot.index) : slot \in done}
    /\ LET archived == {Slot(url.scope, url.index, url) : url \in files'}
       IN  content' = IF IsX THEN ReuseMedia(archived, content) ELSE ReusePost(archived, content)
    /\ UNCHANGED feed

PostNext == Refresh \/ Archive

PostSpec == PostInit /\ [][PostNext]_postVars

-----------------------------------------------------------------------------
(***************************************************************************)
(* Properties                                                              *)
(***************************************************************************)

\* Variants are not dropped one by one, and each has a URL.
SameVariants(old, new) ==
    \A i \in DOMAIN old \cap DOMAIN new :
        \/ new[i].variants = <<>>
        \/ /\ Len(new[i].variants) >= Len(old[i].variants)
           /\ \A v \in DOMAIN new[i].variants : new[i].variants[v].url # NoUrl

\* The first poster is not given under another key than before.
SamePosterKey(old, new) ==
    FirstPosterIsOwn(old) => FirstPosterIsOwn(new) \/ ~Present(new.thumbnail)

OwnedIn(slots) == {slot \in slots : IsOwned(slot.url)}
Places(slots) == {<<slot.scope, slot.index>> : slot \in slots}

\* Archived media stays with its post whatever refreshes sign anew, move from
\* one key to another or leave out.  media-and-docker.md:35 "Once a slot has been
\* successfully published, its file and owned URL are reused permanently,
\* including when the provider returns a different signed URL or omits the media
\* on refresh."
OwnedUrlsAreReused ==
    \A url \in files : Slot(url.scope, url.index, url) \in PostSlots

\* A refresh never moves an owned URL to another slot.  If it did, the snapshot
\* would no longer load, and neither would any later run (media/slots.py:323).
RefreshStaysValid == ValidInventory(PostSlots, files)

\* A slot that is not archived takes the URL of the payload, so that a retry does
\* not ask for an expired one.  media-and-docker.md:78 "Freshly rediscovered
\* posts refresh pending source URLs".
FreshUrlsAreTaken ==
    LET archived == {<<slot.scope, slot.index>> : slot \in OwnedIn(PostSlots)}
    IN  \A new \in Expected :
            (IF IsX THEN SameVariants(content, new) ELSE SamePosterKey(content, new)) =>
                LET result == SlotsOfContent(Refreshed(new))
                IN  \A slot \in PayloadSlots(new) :
                        slot \in result \/ <<slot.scope, slot.index>> \in archived

\* Media that still waits for an attempt stays a slot when a payload leaves it
\* out: without one its queue entry would be carried along and never attempted.
\* media/slots.py:273 "Keep missing media structures".
WaitingSlotsStay == [][Places(PostSlots) \subseteq Places(PostSlots')]_postVars
=============================================================================
