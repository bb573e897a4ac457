------------------------------- MODULE Artwork -------------------------------
(***************************************************************************)
(* Artwork over MRP: what MrpMetadata.artwork returns and keeps in its LRU  *)
(* cache while the item that plays changes, and the resolver of Peacock     *)
(* that it asks for a URL the device does not give: the catalog, the        *)
(* sitemaps that are downloaded once and the page of the show.              *)
(*                                                                         *)
(* An item is a track and the URL in its metadata; artwork is the track it  *)
(* shows.  There is one player, and the episodes are of one show.           *)
(***************************************************************************)
EXTENDS Integers, Sequences, FiniteSets, SequencesExt

CONSTANTS
    Track, Reader,      \* what may play; callers of artwork()
    Nothing,
    CacheLimit,
    NumSitemaps,
    MaxAsks,            \* bound of this model: calls of artwork()
    MaxChanges          \* bound of this model: changes of what plays

ASSUME ArtworkAssumption ==
    /\ CacheLimit \in Nat \ {0} /\ NumSitemaps \in Nat \ {0} /\ MaxAsks \in Nat /\ MaxChanges \in Nat
    /\ Nothing \notin Track \cup Reader \cup [track : Track, url : Track \cup {Nothing}]

VARIABLES
    says,               \* track -> fields of its metadata that the device sends
    plays,              \* the item of the player, or Nothing
    artworkCache,       \* MrpMetadata.artwork_cache, oldest first
    reader,             \* reader -> where its call is and what it holds
    catalog,            \* _CatalogClient._cache: track -> URL or Nothing
    index,              \* _SitemapIndex: the tracks it knows, _loaded and _lock
    show,               \* _ArtworkCache: track -> URL, _loaded_shows and _lock
    count,              \* asks, changes; downloads of the index, how many were cut
    late                \* history: URLs written to an item they were not asked for

artVars == <<says, plays, artworkCache, reader, catalog, index, show, count, late>>

Fields == { {}, {"available"}, {"available", "template", "url"}, {"content"}, {"content", "peacock"} }

Sent(t) == [track |-> t, url |-> IF "url" \in says[t] THEN t ELSE Nothing]
Rests == [pc |-> "idle"]

ArtInit ==
    /\ says \in [Track -> Fields]
    /\ plays \in {Nothing} \cup {Sent(t) : t \in Track}
    /\ artworkCache = <<>>
    /\ reader = [r \in Reader |-> Rests]
    /\ catalog = <<>>
    /\ index = [known |-> {}, loaded |-> FALSE, lock |-> Nothing]
    /\ show = [urls |-> <<>>, loaded |-> FALSE, lock |-> Nothing]
    /\ count = [asks |-> 0, changes |-> 0, loads |-> 0, cut |-> 0]
    /\ late = {}

Reports(item, field) == item # Nothing /\ field \in says[item.track]

(***************************************************************************)
(* The cache.                                                              *)
(***************************************************************************)
IsCached(id) == \E i \in DOMAIN artworkCache : artworkCache[i].id = id
At(id) == CHOOSE i \in DOMAIN artworkCache : artworkCache[i].id = id
Others(id) == IF IsCached(id) THEN RemoveAt(artworkCache, At(id)) ELSE artworkCache
Touched(id) == Append(Others(id), artworkCache[At(id)])
Cached(e) ==
    Append(IF ~IsCached(e.id) /\ Len(artworkCache) >= CacheLimit THEN Tail(artworkCache) ELSE Others(e.id), e)

(***************************************************************************)
(* After the lookup, if there was one: the identifier and the URLs are      *)
(* those of the item that plays now, and nothing awaits in between.         *)
(***************************************************************************)
HasArtwork(item) ==
    item # Nothing /\ (item.url # Nothing \/ says[item.track] \cap {"available", "content"} # {})
ArtworkId(item) ==
    [by |-> IF Reports(item, "template") THEN "template" ELSE IF Reports(item, "content") THEN "content" ELSE "item",
     track |-> item.track]
Urls(item) ==
    (IF Reports(item, "template") THEN <<item.track>> ELSE <<>>)
        \o (IF item.url # Nothing THEN <<item.url>> ELSE <<>>)

Goes(r, state) == reader' = [reader EXCEPT ![r] = state]
Returns(r) == Goes(r, Rests)

(* The device is asked for what plays when the URLs are used up. *)
Fetch(id, urls, since, item) ==
    [pc |-> IF urls = <<>> THEN "local" ELSE "remote", id |-> id, urls |-> urls, since |-> since, at |-> item]

LooksAt(r, item) ==
    \/ ~HasArtwork(item) /\ Returns(r) /\ UNCHANGED artworkCache
    \/ /\ HasArtwork(item) /\ IsCached(ArtworkId(item))
       /\ artworkCache' = Touched(ArtworkId(item)) /\ Returns(r)
    \/ /\ HasArtwork(item) /\ ~IsCached(ArtworkId(item))
       /\ Goes(r, Fetch(ArtworkId(item), Urls(item), count.changes, item))
       /\ UNCHANGED artworkCache

(* What was found is written to the item the player has by then, and the   *)
(* call fails if it has none.                                              *)
Resolved(r, asked, u) ==
    LET writes == plays # Nothing /\ u # Nothing /\ plays.url = Nothing
        item == IF writes THEN [plays EXCEPT !.url = u] ELSE plays
    IN /\ plays' = item
       /\ late' = IF writes /\ plays.track # asked THEN late \cup {<<plays.track, u>>} ELSE late
       /\ LooksAt(r, item)

Unresolved(r) == LooksAt(r, plays) /\ UNCHANGED <<plays, late>>

(***************************************************************************)
(* The resolver.                                                           *)
(***************************************************************************)
(* With the lock of the shows: the page is fetched unless it was parsed. *)
FindsShow(r, t, known) ==
    \/ /\ show.loaded
       /\ Resolved(r, t, IF t \in DOMAIN show.urls THEN show.urls[t] ELSE Nothing)
       /\ UNCHANGED show
    \/ /\ ~show.loaded /\ show.lock = Nothing
       /\ show' = [show EXCEPT !.lock = r] /\ Goes(r, [pc |-> "page", track |-> t, known |-> known])
       /\ UNCHANGED <<plays, artworkCache, late>>
    \/ /\ ~show.loaded /\ show.lock # Nothing
       /\ Goes(r, [pc |-> "show", track |-> t, known |-> known])
       /\ UNCHANGED <<plays, artworkCache, show, late>>

FindsEpisode(r, t, known) ==
    \/ t \notin known /\ Unresolved(r) /\ UNCHANGED show
    \/ t \in known /\ FindsShow(r, t, known)

(* _SitemapIndex.load: whoever waited for the lock looks at _loaded again. *)
LoadsIndex(r, t) ==
    \/ index.loaded /\ FindsEpisode(r, t, index.known) /\ UNCHANGED <<index, count>>
    \/ /\ ~index.loaded /\ index.lock = Nothing
       /\ index' = [index EXCEPT !.lock = r]
       /\ count' = [count EXCEPT !.loads = @ + 1]
       /\ Goes(r, [pc |-> "sitemap", track |-> t, left |-> NumSitemaps])
       /\ UNCHANGED <<plays, artworkCache, show, late>>
    \/ /\ ~index.loaded /\ index.lock # Nothing
       /\ Goes(r, [pc |-> "index", track |-> t])
       /\ UNCHANGED <<plays, artworkCache, index, show, count, late>>

(* There is one resolver; for items of another app nothing is looked up. *)
NeedsLookup == Reports(plays, "content") /\ ~Reports(plays, "template") /\ plays.url = Nothing
CanResolve == Reports(plays, "peacock")

AsksNobody(r) ==
    /\ ~(NeedsLookup /\ CanResolve)
    /\ Unresolved(r)
    /\ UNCHANGED catalog

AsksCatalog(r) ==
    /\ NeedsLookup /\ CanResolve
    /\ \/ /\ plays.track \in DOMAIN catalog
          /\ Resolved(r, plays.track, catalog[plays.track])
       \/ /\ plays.track \notin DOMAIN catalog
          /\ Goes(r, [pc |-> "catalog", track |-> plays.track])
          /\ UNCHANGED <<plays, artworkCache, late>>
    /\ UNCHANGED catalog

(* MrpMetadata.artwork *)
Artwork(r) ==
    /\ reader[r] = Rests /\ count.asks < MaxAsks
    /\ count' = [count EXCEPT !.asks = @ + 1]
    /\ AsksNobody(r) \/ AsksCatalog(r)
    /\ UNCHANGED <<says, index, show>>

(* The catalog knows the track, with or without an image, or does not      *)
(* answer; an answer of another shape raises, and nothing else is tried.   *)
CatalogReturns(r) ==
    /\ reader[r].pc = "catalog"
    /\ LET t == reader[r].track
       IN \/ /\ \E u \in {t, Nothing} :
                  /\ catalog' = [x \in DOMAIN catalog \cup {t} |-> IF x = t THEN u ELSE catalog[x]]
                  /\ Resolved(r, t, u)
             /\ UNCHANGED <<index, show, count>>
          \/ Unresolved(r) /\ UNCHANGED <<catalog, index, show, count>>
          \/ LoadsIndex(r, t) /\ UNCHANGED catalog
    /\ UNCHANGED says

IndexWakes(r) ==
    /\ reader[r].pc = "index" /\ index.lock = Nothing
    /\ LoadsIndex(r, reader[r].track)
    /\ UNCHANGED <<says, catalog>>

(* A sitemap adds what it lists; one that fails or does not parse adds     *)
(* nothing, and with the last the index is loaded, whatever was read.      *)
SitemapReturns(r) ==
    /\ reader[r].pc = "sitemap"
    /\ \E listed \in SUBSET Track :
         LET known == index.known \cup listed
         IN \/ /\ reader[r].left > 1
               /\ index' = [index EXCEPT !.known = known]
               /\ Goes(r, [reader[r] EXCEPT !.left = @ - 1])
               /\ UNCHANGED <<plays, artworkCache, show, late>>
            \/ /\ reader[r].left = 1
               /\ index' = [known |-> known, loaded |-> TRUE, lock |-> Nothing]
               /\ FindsEpisode(r, reader[r].track, known)
    /\ UNCHANGED <<says, catalog, count>>

ShowWakes(r) ==
    /\ reader[r].pc = "show" /\ show.lock = Nothing
    /\ FindsShow(r, reader[r].track, reader[r].known)
    /\ UNCHANGED <<says, catalog, index, count>>

(* A page that fails is fetched again the next time.  One that was parsed  *)
(* gives some episodes an image: their own or, when it names no landscape, *)
(* the first one near them, which may be that of a neighbour.              *)
PageReturns(r) ==
    /\ reader[r].pc = "page"
    /\ LET t == reader[r].track
       IN \/ show' = [show EXCEPT !.lock = Nothing] /\ Resolved(r, t, Nothing)
          \/ \E shown \in SUBSET reader[r].known : \E urls \in [shown -> reader[r].known] :
               /\ show' = [urls |-> urls, loaded |-> TRUE, lock |-> Nothing]
               /\ Resolved(r, t, IF t \in shown THEN urls[t] ELSE Nothing)
    /\ UNCHANGED <<says, catalog, index, count>>

(***************************************************************************)
(* The fetch.                                                              *)
(***************************************************************************)
(* Mutant: the identifier is read after the artwork came. *)
KeepsAsNow(r, of, from) ==
    /\ artworkCache' = IF HasArtwork(plays)
                       THEN Cached([id |-> ArtworkId(plays), of |-> of, from |-> from,
                                    late |-> reader[r].since # count.changes])
                       ELSE artworkCache
    /\ Returns(r)

(* What came is kept under the identifier read before, None as well. *)
Keeps(r, of, from) ==
    /\ artworkCache' = Cached([id |-> reader[r].id, of |-> of, from |-> from,
                               late |-> reader[r].since # count.changes])
    /\ Returns(r)

(* An image, no image at this URL, or an error that is not a ClientError. *)
RemoteReturns(r) ==
    /\ reader[r].pc = "remote"
    /\ \/ Keeps(r, Head(reader[r].urls), "url")
       \/ /\ Goes(r, Fetch(reader[r].id, Tail(reader[r].urls), reader[r].since, plays))
          /\ UNCHANGED artworkCache
       \/ Returns(r) /\ UNCHANGED artworkCache
    /\ UNCHANGED <<says, plays, catalog, index, show, count, late>>

(* The device answers without artwork; with that of what played when it    *)
(* was asked or of what plays now, read with the metadata of now; or not.  *)
LocalReturns(r) ==
    /\ reader[r].pc = "local"
    /\ \/ Keeps(r, Nothing, "device")
       \/ /\ plays # Nothing
          /\ \E item \in {reader[r].at, plays} \ {Nothing} : Keeps(r, item.track, "device")
       \/ Returns(r) /\ UNCHANGED artworkCache
    /\ UNCHANGED <<says, plays, catalog, index, show, count, late>>

(***************************************************************************)
(* The world: another item, or the same sent anew; a call is cancelled and  *)
(* leaves the lock it holds.                                               *)
(***************************************************************************)
ItemChanges ==
    /\ count.changes < MaxChanges
    /\ count' = [count EXCEPT !.changes = @ + 1]
    /\ plays' \in {Nothing} \cup {Sent(t) : t \in Track}
    /\ UNCHANGED <<says, artworkCache, reader, catalog, index, show, late>>

IsCancelled(r) ==
    /\ reader[r] # Rests
    /\ Returns(r)
    /\ index' = [index EXCEPT !.lock = IF @ = r THEN Nothing ELSE @]
    /\ show' = [show EXCEPT !.lock = IF @ = r THEN Nothing ELSE @]
    /\ count' = [count EXCEPT !.cut = @ + IF index.lock = r THEN 1 ELSE 0]
    /\ UNCHANGED <<says, plays, artworkCache, catalog, late>>

ArtNext ==
    \/ ItemChanges
    \/ \E r \in Reader :
        \/ Artwork(r) \/ CatalogReturns(r) \/ IndexWakes(r) \/ SitemapReturns(r)
        \/ ShowWakes(r) \/ PageReturns(r) \/ RemoteReturns(r) \/ LocalReturns(r)
        \/ IsCancelled(r)

(***************************************************************************)
(* Properties.                                                             *)
(***************************************************************************)
(* What is kept for an item is its artwork, or that it has none, however    *)
(* often what plays changed while it was fetched; but for what the page of  *)
(* the show said, a URL that a lookup of another item left in its metadata, *)
(* and what the device sent after the item had changed.  And the sitemaps   *)
(* are downloaded once for all calls, again only if a download was cut.     *)
ArtworkIsOfItsItem ==
    /\ \A i \in DOMAIN artworkCache :
         LET e == artworkCache[i]
             t == e.id.track
         IN \/ e.of \in {Nothing, t}
            \/ e.from = "url" /\ <<t, e.of>> \in late
            \/ e.from = "url" /\ t \in DOMAIN show.urls /\ show.urls[t] = e.of
            \/ e.from = "device" /\ e.late
    /\ count.loads <= count.cut + 1
=============================================================================
