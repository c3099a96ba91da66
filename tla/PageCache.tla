------------------------------ MODULE PageCache ------------------------------
(***************************************************************************)
(* The reader's page cache (apps/reader/src/reader/PageCache.ts) and its   *)
(* thumbnail cache (ThumbCache.ts): which pages have an entry, which       *)
(* object URLs are alive, and what the views paint.                        *)
(*                                                                         *)
(* A load is named by its page and its number among that page's loads, and *)
(* so is the object URL it creates; an entry is the load it was made for.  *)
(* A load outlives the eviction of its entry: nothing cancels it.          *)
(***************************************************************************)
EXTENDS Integers, Sequences, SequencesExt, FiniteSets

CONSTANTS
  Total,      \* pages of the book
  Capacity,   \* entries kept beside the window
  Aheads,     \* pages prefetched ahead: one value per layout
  Behind,     \* pages kept behind
  MaxLoads,   \* bound of the loads of one page
  MaxBegun,   \* bound of the loads of all pages
  Hovered     \* the pages whose thumbnail the scrubber may ask for

BookPages == 0 .. Total - 1
Loads == 1 .. MaxLoads

ASSUME PageCacheAssumption ==
  /\ Total \in Nat \ {0} /\ MaxLoads \in Nat \ {0} /\ MaxBegun \in Nat
  /\ Aheads \subseteq Nat /\ Behind \in Nat
  /\ Hovered \subseteq BookPages
  /\ \A a \in Aheads : Capacity >= Behind + 1 + a

VARIABLES
  entry,     \* page -> the load its entry was made for, 0 without an entry
  load,      \* page -> load -> how far it is
  snap,      \* page -> what the last refresh of its snapshot said
  lru,       \* pages with an entry, least recent first
  live,      \* object URLs created and not revoked
  window,    \* the pages last asked for
  disposed,  \* both caches are disposed together
  asking,    \* thumbnails whose request is under way
  thumbs,    \* thumbnails with an object URL
  evicted,   \* history: loads whose entry was evicted before they ended
  spoiled    \* history: pages whose snapshot an evicted load wrote last

cacheVars == <<entry, load, snap, lru, live, window, disposed, asking, thumbs, evicted, spoiled>>

LoadStages == {"none", "fetch", "decode", "ready", "error", "dropped"}
Idle == [status |-> "idle", url |-> 0]

CacheTypeOK ==
  /\ entry \in [BookPages -> 0 .. MaxLoads]
  /\ load \in [BookPages -> [Loads -> LoadStages]]
  /\ snap \in [BookPages -> [status : {"idle", "loading", "ready", "error"}, url : 0 .. MaxLoads]]
  /\ lru \in Seq(BookPages)
  /\ live \subseteq BookPages \X Loads
  /\ window \subseteq BookPages
  /\ disposed \in BOOLEAN
  /\ asking \subseteq Hovered /\ thumbs \subseteq Hovered
  /\ evicted \subseteq BookPages \X Loads
  /\ spoiled \subseteq BookPages

CacheInit ==
  /\ entry = [p \in BookPages |-> 0]
  /\ load = [p \in BookPages |-> [k \in Loads |-> "none"]]
  /\ snap = [p \in BookPages |-> Idle]
  /\ lru = <<>>
  /\ live = {} /\ window = {} /\ disposed = FALSE
  /\ asking = {} /\ thumbs = {}
  /\ evicted = {} /\ spoiled = {}

-----------------------------------------------------------------------------
(* setWindow: ensure every page of the window, then evict.                 *)

Cached == {p \in BookPages : entry[p] # 0}
Begun(p) == {k \in Loads : load[p][k] # "none"}
Fresh(p) == Cardinality(Begun(p)) + 1

\* ensure starts a load for a page without an entry, or whose load failed.
NeedsLoad(p) == entry[p] = 0 \/ load[p][entry[p]] = "error"

Wanted(center, ahead) == (center - Behind) .. (center + ahead) \cap BookPages

\* The order of the ensures: the center, then the rest from the first page on.
Ordered(center, ahead) == <<center>> \o SetToSortSeq(Wanted(center, ahead) \ {center}, <)

Touch(seq, ordered) == SelectSeq(seq, LAMBDA p : p \notin ToSet(ordered)) \o ordered

\* The pages evict drops: the least recent outside the window, while over capacity.
Victims(keep, held, order) ==
  LET outside(i) == {j \in 1 .. i : order[j] \notin keep}
  IN {order[i] : i \in {j \in outside(Len(order)) :
                          Cardinality(outside(j)) <= Cardinality(held) - Capacity}}

\* An entry has its URL once its load is ready.
Revoked(pages) == {<<p, entry[p]>> : p \in {v \in pages : load[v][entry[v]] = "ready"}}

KeepSnapshot(needs, victims) ==  \* mutation: evict leaves the snapshot as it was
  [p \in BookPages |-> IF p \in needs THEN [status |-> "loading", url |-> 0] ELSE snap[p]]

WindowSnapshots(needs, victims) ==
  [p \in BookPages |-> CASE p \in victims -> Idle
                     [] p \in needs -> [status |-> "loading", url |-> 0]
                     [] OTHER -> snap[p]]

SetWindow(center, ahead) ==
  LET wanted  == Wanted(center, ahead)
      needs   == {p \in wanted : NeedsLoad(p)}
      order   == Touch(lru, Ordered(center, ahead))
      victims == Victims(wanted, Cached \cup wanted, order)
  IN /\ ~disposed
     /\ \A p \in needs : Fresh(p) <= MaxLoads
     /\ Cardinality(UNION {{p} \X Begun(p) : p \in BookPages}) + Cardinality(needs) <= MaxBegun
     /\ window' = wanted
     /\ entry' = [p \in BookPages |-> CASE p \in victims -> 0
                                    [] p \in needs -> Fresh(p)
                                    [] OTHER -> entry[p]]
     /\ load' = [p \in BookPages |-> IF p \in needs THEN [load[p] EXCEPT ![Fresh(p)] = "fetch"]
                                 ELSE load[p]]
     /\ lru' = SelectSeq(order, LAMBDA p : p \notin victims)
     /\ snap' = WindowSnapshots(needs, victims)
     /\ live' = live \ Revoked(victims)
     /\ evicted' = evicted \cup {<<p, entry[p]>> : p \in
                     {v \in victims : load[v][entry[v]] \in {"fetch", "decode"}}}
     /\ spoiled' = spoiled \ (needs \cup victims)
     /\ UNCHANGED <<disposed, asking, thumbs>>

-----------------------------------------------------------------------------
(* load, between its awaits.  It writes the snapshot of its page whether   *)
(* or not its entry is still the page's.                                   *)

Refresh(p, k, status, url) ==
  /\ snap' = [snap EXCEPT ![p] = [status |-> status, url |-> url]]
  /\ spoiled' = IF entry[p] = k THEN spoiled \ {p} ELSE spoiled \cup {p}

PageFetched(p, k) ==
  /\ load[p][k] = "fetch"
  /\ IF disposed
     THEN load' = [load EXCEPT ![p][k] = "dropped"] /\ UNCHANGED live
     ELSE load' = [load EXCEPT ![p][k] = "decode"] /\ live' = live \cup {<<p, k>>}
  /\ UNCHANGED <<entry, snap, lru, window, disposed, asking, thumbs, evicted, spoiled>>

FailSilently(p, k) ==  \* mutation: no catch on the promise of the load
  /\ load[p][k] = "fetch"
  /\ load' = [load EXCEPT ![p][k] = "error"]
  /\ UNCHANGED <<entry, snap, lru, live, window, disposed, asking, thumbs, evicted, spoiled>>

PageFails(p, k) ==
  /\ load[p][k] = "fetch"
  /\ load' = [load EXCEPT ![p][k] = "error"]
  /\ Refresh(p, k, "error", 0)
  /\ UNCHANGED <<entry, lru, live, window, disposed, asking, thumbs, evicted>>

KeepDecoding(p, k) ==  \* mutation: no check of disposed after the decode
  /\ load[p][k] = "decode"
  /\ load' = [load EXCEPT ![p][k] = "ready"]
  /\ Refresh(p, k, "ready", k)
  /\ UNCHANGED <<entry, lru, live, window, disposed, asking, thumbs, evicted>>

\* A decode that fails counts as one that succeeds.
PageDecoded(p, k) ==
  /\ load[p][k] = "decode"
  /\ IF disposed
     THEN /\ load' = [load EXCEPT ![p][k] = "dropped"]
          /\ live' = live \ {<<p, k>>}
          /\ UNCHANGED <<snap, spoiled>>
     ELSE /\ load' = [load EXCEPT ![p][k] = "ready"]
          /\ Refresh(p, k, "ready", k)
          /\ UNCHANGED live
  /\ UNCHANGED <<entry, lru, window, disposed, asking, thumbs, evicted>>

-----------------------------------------------------------------------------
(* ThumbCache, and the disposal of both.                                   *)

ThumbWanted(p) ==
  /\ ~disposed /\ p \notin thumbs \cup asking
  /\ asking' = asking \cup {p}
  /\ UNCHANGED <<entry, load, snap, lru, live, window, disposed, thumbs, evicted, spoiled>>

\* The answer, or a failure: it is ignored, and the next wish asks again.
ThumbEnds(p) ==
  /\ p \in asking
  /\ asking' = asking \ {p}
  /\ thumbs' \in IF disposed THEN {thumbs} ELSE {thumbs, thumbs \cup {p}}
  /\ UNCHANGED <<entry, load, snap, lru, live, window, disposed, evicted, spoiled>>

Dispose ==
  /\ ~disposed
  /\ disposed' = TRUE
  /\ live' = live \ Revoked(Cached)
  /\ entry' = [p \in BookPages |-> 0]
  /\ snap' = [p \in BookPages |-> Idle]
  /\ lru' = <<>> /\ window' = {} /\ thumbs' = {} /\ spoiled' = {}
  /\ UNCHANGED <<load, asking, evicted>>

LoadEnds(p, k) == PageFetched(p, k) \/ PageFails(p, k) \/ PageDecoded(p, k)

CacheNext ==
  \/ \E c \in BookPages, a \in Aheads : SetWindow(c, a)
  \/ \E p \in BookPages, k \in Loads : PageFetched(p, k) \/ PageFails(p, k) \/ PageDecoded(p, k)
  \/ \E p \in Hovered : ThumbWanted(p) \/ ThumbEnds(p)
  \/ Dispose

CacheSpec == CacheInit /\ [][CacheNext]_cacheVars
\* Requests are answered or fail, and decode settles; nobody has to turn pages.
Fairness == \A p \in BookPages, k \in Loads : WF_cacheVars(LoadEnds(p, k))
LiveSpec == CacheSpec /\ Fairness

-----------------------------------------------------------------------------
(* What PageImage (PageView.tsx) and ContinuousPage paint for a page.      *)

Painted(p) ==
  CASE snap[p].status = "error" -> "unavailable"
    [] snap[p].status = "ready" /\ snap[p].url # 0 -> "image"
    [] OTHER -> "spinner"

\* "Max decoded pages held at once" (PageCache.ts:39): the pages of the window always
\* have an entry, the recency list is that of the entries, and there are never more
\* entries than the capacity.
WindowWithinCapacity ==
  /\ window \subseteq Cached
  /\ ToSet(lru) = Cached /\ Len(lru) = Cardinality(Cached)
  /\ Cardinality(Cached) <= Capacity

\* An object URL is an entry's, or a load's under way, or it leaked because its load
\* was evicted before it ended: no other turn of pages, and no disposal, leaks one.
OnlyEvictedLoadsLeak ==
  /\ \A u \in live : \/ entry[u[1]] = u[2]
                     \/ load[u[1]][u[2]] = "decode"
                     \/ u \in evicted
  /\ disposed => thumbs = {}

\* An image that is painted has an object URL that was not revoked, whichever load wrote
\* the snapshot last; and what is painted is what the page's entry holds, unless a load
\* that was evicted under way has ended since and wrote over it.
PaintedIsLive ==
  /\ \A p \in BookPages : Painted(p) = "image" => <<p, snap[p].url>> \in live
  /\ \A p \in BookPages \ spoiled :
       Painted(p) = IF entry[p] = 0 THEN "spinner"
                    ELSE CASE load[p][entry[p]] = "ready" -> "image"
                           [] load[p][entry[p]] = "error" -> "unavailable"
                           [] OTHER -> "spinner"

\* A page of the window does not stay behind its spinner.
WindowSettles ==
  \A p \in BookPages : (p \in window) ~> (p \notin window \/ Painted(p) # "spinner")

\* Not a property of this code: an object URL is held for a cached page only.
HeldIsCached == \A u \in live : u[2] = entry[u[1]] \/ load[u[1]][u[2]] = "decode"
=============================================================================
