---------------------------- MODULE ReaderProofs ----------------------------
(***************************************************************************)
(* The reader.  What the page cache paints is alive, and only an evicted   *)
(* load leaks its object URL, for every length of book, capacity and       *)
(* window; the session leaves no place, no cache and no chosen layout      *)
(* behind, for every book, layout and number of opens that overlap.        *)
(***************************************************************************)
EXTENDS PageCache, ReaderSession, FiniteSetTheorems, TLAPS

(***************************************************************************)
(* The page cache: its inductive invariant.  The recency list is left out: *)
(* of the victims of an eviction only that none is in the window matters.  *)
(***************************************************************************)

Types ==
  /\ entry \in [BookPages -> 0 .. MaxLoads]
  /\ load \in [BookPages -> [Loads -> LoadStages]]
  /\ snap \in [BookPages -> [status : {"idle", "loading", "ready", "error"}, url : 0 .. MaxLoads]]
  /\ live \subseteq BookPages \X Loads
  /\ disposed \in BOOLEAN

\* The loads of a page are numbered in the order in which they begin.
InOrder ==
  \A p \in BookPages : \E n \in 0 .. MaxLoads :
    \A k \in Loads : load[p][k] # "none" <=> k <= n

\* An entry was made for a load that has begun, and a load under way has its entry
\* unless that was evicted or the cache disposed.
Entries ==
  \A p \in BookPages :
    /\ entry[p] # 0 => load[p][entry[p]] \in {"fetch", "decode", "ready", "error"}
    /\ \A k \in Loads : load[p][k] \in {"fetch", "decode"} =>
         disposed \/ entry[p] = k \/ <<p, k>> \in evicted

\* A URL is alive from the fetch on, until its ready entry is evicted or disposed.
Urls ==
  \A p \in BookPages : \A k \in Loads :
    /\ load[p][k] = "decode" => <<p, k>> \in live
    /\ load[p][k] = "ready" /\ entry[p] = k => <<p, k>> \in live
    /\ <<p, k>> \in live => load[p][k] = "decode" \/ (load[p][k] = "ready" /\
                              (entry[p] = k \/ <<p, k>> \in evicted))

Disposal == disposed => thumbs = {} /\ \A p \in BookPages : entry[p] = 0

\* A snapshot that is ready has the URL of a load that is, and it is alive.
Snapshots ==
  \A p \in BookPages : snap[p].status = "ready" =>
    /\ snap[p].url \in Loads /\ load[p][snap[p].url] = "ready"
    /\ <<p, snap[p].url>> \in live

Status(stage) == IF stage \in {"ready", "error"} THEN stage ELSE "loading"

\* The snapshot of a page no evicted load wrote over is that of its entry.
Faithful ==
  \A p \in BookPages : p \notin spoiled =>
    snap[p].status = IF entry[p] = 0 THEN "idle" ELSE Status(load[p][entry[p]])

Inv == Types /\ InOrder /\ Entries /\ Urls /\ Disposal /\ Snapshots /\ Faithful

-----------------------------------------------------------------------------
(* What the helpers promise.                                               *)

\* The load that is begun for a page is one that has not begun.
LEMMA FreshIsNew ==
  ASSUME Types, InOrder, NEW p \in BookPages
  PROVE  /\ Fresh(p) \in Nat \ {0}
         /\ \A k \in Loads : load[p][k] # "none" <=> k < Fresh(p)
<1>1. PICK n \in 0 .. MaxLoads : \A k \in Loads : load[p][k] # "none" <=> k <= n
  BY DEF InOrder
<1>2. Begun(p) = 1 .. n
  BY <1>1, PageCacheAssumption DEF Begun, Loads
<1>3. Cardinality(1 .. n) = n
  BY FS_Interval
<1> QED BY <1>1, <1>2, <1>3, PageCacheAssumption DEF Fresh, Loads

\* No page of the window is evicted.
LEMMA VictimsOutside ==
  ASSUME NEW keep, NEW held, NEW order
  PROVE  Victims(keep, held, order) \cap keep = {}
BY DEF Victims

LEMMA InitInv == CacheInit => Inv
<1> SUFFICES ASSUME CacheInit PROVE Inv
  OBVIOUS
<1> USE PageCacheAssumption DEF CacheInit
<1>1. Types
  <2>1. 0 \in 0 .. MaxLoads /\ [k \in Loads |-> "none"] \in [Loads -> LoadStages]
    BY DEF LoadStages
  <2>2. Idle \in [status : {"idle", "loading", "ready", "error"}, url : 0 .. MaxLoads]
    BY <2>1 DEF Idle
  <2> QED BY <2>1, <2>2 DEF Types
<1>2. InOrder
  <2>1. 0 \in 0 .. MaxLoads /\ \A k \in Loads : ~(k <= 0)
    BY DEF Loads
  <2> QED BY <2>1 DEF InOrder
<1>3. Entries /\ Urls /\ Disposal /\ Snapshots /\ Faithful
  BY DEF Entries, Urls, Disposal, Snapshots, Faithful, Idle
<1> QED BY <1>1, <1>2, <1>3 DEF Inv

-----------------------------------------------------------------------------
(* setWindow: the pages it loads anew, and those it evicts.                *)

LEMMA SetWindowStep ==
  ASSUME Inv, NEW center \in BookPages, NEW ahead \in Aheads, SetWindow(center, ahead)
  PROVE  Inv'
<1> DEFINE wanted  == Wanted(center, ahead)
           needs   == {p \in wanted : NeedsLoad(p)}
           order   == Touch(lru, Ordered(center, ahead))
           victims == Victims(wanted, Cached \cup wanted, order)
           ended   == {v \in victims : load[v][entry[v]] \in {"fetch", "decode"}}
<1>1. /\ needs \cap victims = {}
      /\ needs \subseteq wanted
      /\ \A p \in needs : entry[p] = 0 \/ load[p][entry[p]] = "error"
  BY VictimsOutside DEF NeedsLoad
<1> HIDE DEF victims
<1>2. /\ ~disposed
      /\ \A p \in needs : Fresh(p) <= MaxLoads
      /\ entry' = [p \in BookPages |-> CASE p \in victims -> 0
                                     [] p \in needs -> Fresh(p)
                                     [] OTHER -> entry[p]]
      /\ load' = [p \in BookPages |-> IF p \in needs THEN [load[p] EXCEPT ![Fresh(p)] = "fetch"]
                                  ELSE load[p]]
      /\ snap' = [p \in BookPages |-> CASE p \in victims -> Idle
                                    [] p \in needs -> [status |-> "loading", url |-> 0]
                                    [] OTHER -> snap[p]]
      /\ live' = live \ {<<p, entry[p]>> : p \in {v \in victims : load[v][entry[v]] = "ready"}}
      /\ evicted' = evicted \cup {<<p, entry[p]>> : p \in ended}
      /\ spoiled' = spoiled \ (needs \cup victims)
      /\ UNCHANGED <<disposed, thumbs>>
  BY DEF SetWindow, WindowSnapshots, Revoked, victims
<1> HIDE DEF wanted, needs, order, ended
<1> USE PageCacheAssumption
<1>3. Types /\ InOrder /\ Entries /\ Urls /\ Disposal /\ Snapshots /\ Faithful
  BY DEF Inv
<1>4. \A p \in needs \cap BookPages : Fresh(p) \in Loads /\ load[p][Fresh(p)] = "none"
  BY <1>2, <1>3, FreshIsNew DEF Loads
<1>5. \A p \in BookPages : \/ p \in victims /\ p \notin needs
                           \/ p \in needs /\ p \notin victims
                           \/ p \notin needs /\ p \notin victims
  BY <1>1
<1>6. Types'
  BY <1>2, <1>3, <1>4 DEF Types, Idle, LoadStages, Loads
<1>7. InOrder'
  <2> SUFFICES ASSUME NEW p \in BookPages
               PROVE  \E n \in 0 .. MaxLoads :
                        \A k \in Loads : load'[p][k] # "none" <=> k <= n
    BY DEF InOrder
  <2>1. CASE p \in needs
    <3>1. /\ Fresh(p) \in 0 .. MaxLoads
          /\ \A k \in Loads : load[p][k] # "none" <=> k < Fresh(p)
      BY <1>2, <1>3, <2>1, FreshIsNew
    <3>2. load'[p] = [load[p] EXCEPT ![Fresh(p)] = "fetch"]
      BY <1>2, <2>1
    <3>3. \A k \in Loads : load'[p][k] # "none" <=> k <= Fresh(p)
      BY <1>3, <3>1, <3>2 DEF Types, Loads
    <3> QED BY <3>1, <3>3
  <2>2. CASE p \notin needs
    BY <1>2, <1>3, <2>2 DEF InOrder
  <2> QED BY <2>1, <2>2
<1>8. ASSUME NEW p \in BookPages
      PROVE  /\ p \in needs => entry'[p] = Fresh(p) /\ load'[p][Fresh(p)] = "fetch"
             /\ p \in victims => entry'[p] = 0
             /\ p \notin needs /\ p \notin victims => entry'[p] = entry[p]
             /\ p \notin needs => load'[p] = load[p]
             /\ p \in needs => \A k \in Loads \ {Fresh(p)} : load'[p][k] = load[p][k]
  BY <1>1, <1>2, <1>3, <1>4 DEF Types
<1>9. ASSUME NEW p \in BookPages, NEW k \in Loads
      PROVE  /\ <<p, k>> \in live' <=>
                  <<p, k>> \in live /\ ~(p \in victims /\ k = entry[p] /\ load[p][k] = "ready")
             /\ <<p, k>> \in evicted' <=>
                  \/ <<p, k>> \in evicted
                  \/ p \in victims /\ k = entry[p] /\ load[p][k] \in {"fetch", "decode"}
  BY <1>2 DEF ended
<1>10. Entries' /\ Urls'
  <2> SUFFICES ASSUME NEW p \in BookPages
               PROVE  /\ entry'[p] # 0 =>
                           load'[p][entry'[p]] \in {"fetch", "decode", "ready", "error"}
                      /\ \A k \in Loads :
                           /\ load'[p][k] \in {"fetch", "decode"} =>
                                disposed' \/ entry'[p] = k \/ <<p, k>> \in evicted'
                           /\ load'[p][k] = "decode" => <<p, k>> \in live'
                           /\ load'[p][k] = "ready" /\ entry'[p] = k => <<p, k>> \in live'
                           /\ <<p, k>> \in live' => load'[p][k] = "decode" \/
                                (load'[p][k] = "ready" /\
                                  (entry'[p] = k \/ <<p, k>> \in evicted'))
    BY DEF Entries, Urls
  <2>1. entry[p] \in 0 .. MaxLoads
    BY <1>3 DEF Types
  <2>2. CASE p \in needs
    <3>1. /\ entry'[p] = Fresh(p) /\ load'[p][Fresh(p)] = "fetch"
          /\ entry[p] = 0 \/ load[p][entry[p]] = "error"
          /\ Fresh(p) \in Loads /\ load[p][Fresh(p)] = "none" /\ p \notin victims
      BY <1>1, <1>4, <1>5, <1>8, <2>2
    <3>2. <<p, Fresh(p)>> \notin live'
      BY <1>3, <1>9, <3>1 DEF Urls
    <3>3. ASSUME NEW k \in Loads, k # Fresh(p)
          PROVE  /\ load'[p][k] = load[p][k]
                 /\ <<p, k>> \in live' <=> <<p, k>> \in live
                 /\ <<p, k>> \in evicted' <=> <<p, k>> \in evicted
                 /\ load[p][k] # "error" => entry[p] # k
      BY <1>8, <1>9, <2>2, <3>1, <3>3 DEF Loads
    <3> QED BY <1>2, <1>3, <3>1, <3>2, <3>3 DEF Entries, Urls
  <2>3. CASE p \in victims
    <3>1. entry'[p] = 0 /\ load'[p] = load[p]
      BY <1>5, <1>8, <2>3
    <3>2. \A k \in Loads : k # 0
      BY DEF Loads
    <3> QED BY <1>2, <1>3, <1>9, <2>3, <3>1, <3>2 DEF Entries, Urls
  <2>4. CASE p \notin needs /\ p \notin victims
    BY <1>2, <1>3, <1>8, <1>9, <2>1, <2>4 DEF Entries, Urls, Loads
  <2> QED BY <1>5, <2>2, <2>3, <2>4
<1>11. Disposal'
  BY <1>2 DEF Disposal
<1>12. ASSUME NEW p \in BookPages
       PROVE  /\ p \in needs => snap'[p].status = "loading"
              /\ p \in victims => snap'[p].status = "idle"
              /\ p \notin needs /\ p \notin victims => snap'[p] = snap[p]
  BY <1>1, <1>2 DEF Idle
<1>13. Snapshots'
  <2> SUFFICES ASSUME NEW p \in BookPages, snap'[p].status = "ready"
               PROVE  /\ snap'[p].url \in Loads /\ load'[p][snap'[p].url] = "ready"
                      /\ <<p, snap'[p].url>> \in live'
    BY DEF Snapshots
  <2>1. p \notin needs /\ p \notin victims /\ snap'[p] = snap[p]
    BY <1>5, <1>12
  <2> QED BY <1>3, <1>8, <1>9, <2>1 DEF Snapshots
<1>14. Faithful'
  <2> SUFFICES ASSUME NEW p \in BookPages, p \notin spoiled'
               PROVE snap'[p].status = IF entry'[p] = 0 THEN "idle" ELSE Status(load'[p][entry'[p]])
    BY DEF Faithful
  <2>1. CASE p \in needs
    BY <1>4, <1>8, <1>12, <2>1 DEF Status, Loads
  <2>2. CASE p \in victims
    BY <1>8, <1>12, <2>2
  <2>3. CASE p \notin needs /\ p \notin victims
    BY <1>2, <1>3, <1>8, <1>12, <2>3 DEF Faithful
  <2> QED BY <1>5, <2>1, <2>2, <2>3
<1> QED BY <1>6, <1>7, <1>10, <1>11, <1>13, <1>14 DEF Inv

-----------------------------------------------------------------------------
(* The ends of a load, the thumbnails, and the disposal.                   *)

LEMMA LoadStep ==
  ASSUME Inv, NEW p \in BookPages, NEW k \in Loads,
         PageFetched(p, k) \/ PageFails(p, k) \/ PageDecoded(p, k)
  PROVE  Inv'
<1>1. Types /\ InOrder /\ Entries /\ Urls /\ Disposal /\ Snapshots /\ Faithful
  BY DEF Inv
<1>2. PICK stage \in {"decode", "ready", "error", "dropped"} :
         load' = [load EXCEPT ![p][k] = stage]
  BY DEF PageFetched, PageFails, PageDecoded
<1>3. load[p][k] \in {"fetch", "decode"} /\ UNCHANGED <<entry, disposed, thumbs, evicted>>
  BY DEF PageFetched, PageFails, PageDecoded
<1>4. /\ k # 0 /\ load'[p][k] = stage
      /\ \A q \in BookPages \ {p} : load'[q] = load[q]
      /\ \A l \in Loads \ {k} : load'[p][l] = load[p][l]
  <2>1. k # 0
    BY DEF Loads
  <2>2. load[p] \in [Loads -> LoadStages] /\ p \in DOMAIN load
    BY <1>1 DEF Types
  <2>3. load'[p] = [load[p] EXCEPT ![k] = stage]
    BY <1>2, <2>2
  <2>4. \A q \in BookPages \ {p} : load'[q] = load[q]
    BY <1>1, <1>2 DEF Types
  <2> QED BY <2>1, <2>2, <2>3, <2>4
<1>5. Types'
  <2>1. load' \in [BookPages -> [Loads -> LoadStages]]
    BY <1>1, <1>2 DEF Types, LoadStages
  <2>2. live' \subseteq BookPages \X Loads
    BY <1>1 DEF Types, PageFetched, PageFails, PageDecoded
  <2>3. snap' \in [BookPages ->
                      [status : {"idle", "loading", "ready", "error"}, url : 0 .. MaxLoads]]
    <3>1. k \in 0 .. MaxLoads /\ 0 \in 0 .. MaxLoads
      BY PageCacheAssumption DEF Loads
    <3> QED BY <1>1, <3>1 DEF Types, PageFetched, PageFails, PageDecoded, Refresh
  <2> QED BY <1>1, <1>3, <2>1, <2>2, <2>3 DEF Types
<1>6. InOrder'
  BY <1>1, <1>3, <1>4 DEF InOrder
<1>7. Disposal'
  BY <1>1, <1>3 DEF Disposal
<1>8. \/ /\ stage = "decode" /\ ~disposed /\ load[p][k] = "fetch"
         /\ live' = live \cup {<<p, k>>} /\ UNCHANGED <<snap, spoiled>>
      \/ /\ stage = "dropped" /\ disposed
         /\ live' = IF load[p][k] = "decode" THEN live \ {<<p, k>>} ELSE live
         /\ UNCHANGED <<snap, spoiled>>
      \/ /\ stage = "error" /\ load[p][k] = "fetch" /\ UNCHANGED live
         /\ Refresh(p, k, "error", 0)
      \/ /\ stage = "ready" /\ ~disposed /\ load[p][k] = "decode" /\ UNCHANGED live
         /\ Refresh(p, k, "ready", k)
  <2>1. CASE PageFetched(p, k)
    BY <1>1, <1>4, <2>1 DEF PageFetched, Types
  <2>2. CASE PageFails(p, k)
    BY <1>1, <1>4, <2>2 DEF PageFails, Types
  <2>3. CASE PageDecoded(p, k)
    BY <1>1, <1>4, <2>3 DEF PageDecoded, Types
  <2> QED BY <2>1, <2>2, <2>3
<1>9. Entries'
  <2> SUFFICES ASSUME NEW q \in BookPages
               PROVE  /\ entry[q] # 0 =>
                           load'[q][entry[q]] \in {"fetch", "decode", "ready", "error"}
                      /\ \A l \in Loads : load'[q][l] \in {"fetch", "decode"} =>
                           disposed \/ entry[q] = l \/ <<q, l>> \in evicted
    BY <1>3 DEF Entries
  <2>1. entry[q] = 0 \/ entry[q] \in Loads
    BY <1>1, PageCacheAssumption DEF Types, Loads
  <2>2. stage = "dropped" => entry[p] = 0
    BY <1>1, <1>8 DEF Disposal
  <2> QED BY <1>1, <1>3, <1>4, <1>8, <2>1, <2>2 DEF Entries
<1>10. Urls'
  <2> SUFFICES ASSUME NEW q \in BookPages, NEW l \in Loads
               PROVE  /\ load'[q][l] = "decode" => <<q, l>> \in live'
                      /\ load'[q][l] = "ready" /\ entry[q] = l => <<q, l>> \in live'
                      /\ <<q, l>> \in live' => load'[q][l] = "decode" \/
                           (load'[q][l] = "ready" /\ (entry[q] = l \/ <<q, l>> \in evicted))
    BY <1>3 DEF Urls
  <2>1. CASE <<q, l>> = <<p, k>>
    BY <1>1, <1>3, <1>4, <1>8, <2>1 DEF Urls, Entries
  <2>2. CASE <<q, l>> # <<p, k>>
    BY <1>1, <1>4, <1>8, <2>2 DEF Urls
  <2> QED BY <2>1, <2>2
<1>11. Snapshots'
  <2> SUFFICES ASSUME NEW q \in BookPages, snap'[q].status = "ready"
               PROVE  /\ snap'[q].url \in Loads /\ load'[q][snap'[q].url] = "ready"
                      /\ <<q, snap'[q].url>> \in live'
    BY DEF Snapshots
  <2>1. CASE snap'[q] = snap[q]
    BY <1>1, <1>3, <1>4, <1>8, <2>1 DEF Snapshots
  <2>2. CASE snap'[q] # snap[q]
    <3>1. q = p /\ stage = "ready" /\ snap'[p] = [status |-> "ready", url |-> k]
      BY <1>1, <1>8, <2>2 DEF Types, Refresh
    <3>2. load[p][k] = "decode" /\ load'[p][k] = "ready" /\ UNCHANGED live
      BY <1>4, <1>8, <3>1
    <3> QED BY <1>1, <3>1, <3>2 DEF Urls
  <2> QED BY <2>1, <2>2
<1>12. Faithful'
  <2> SUFFICES ASSUME NEW q \in BookPages, q \notin spoiled'
               PROVE  snap'[q].status = IF entry[q] = 0 THEN "idle" ELSE Status(load'[q][entry[q]])
    BY <1>3 DEF Faithful
  <2>1. CASE q # p
    <3>1. q \notin spoiled /\ snap'[q] = snap[q] /\ load'[q] = load[q]
      BY <1>1, <1>4, <1>8, <2>1 DEF Types, Refresh
    <3> QED BY <1>1, <3>1 DEF Faithful
  <2>2. CASE q = p /\ stage \in {"decode", "dropped"}
    <3>1. /\ p \notin spoiled /\ snap'[p] = snap[p]
          /\ entry[p] = k => load[p][k] = "fetch" /\ stage = "decode"
      BY <1>1, <1>4, <1>8, <2>2 DEF Disposal
    <3>2. entry[p] # 0 /\ entry[p] # k => load'[p][entry[p]] = load[p][entry[p]]
      BY <1>1, <1>4, PageCacheAssumption DEF Types, Loads
    <3> QED BY <1>1, <1>4, <2>2, <3>1, <3>2 DEF Faithful, Status
  <2>3. CASE q = p /\ stage \in {"ready", "error"}
    <3>1. entry[p] = k /\ snap'[p].status = stage
      BY <1>1, <1>8, <2>3 DEF Types, Refresh
    <3> QED BY <1>4, <2>3, <3>1 DEF Status
  <2> QED BY <2>1, <2>2, <2>3
<1> QED BY <1>5, <1>6, <1>7, <1>9, <1>10, <1>11, <1>12 DEF Inv

LEMMA ThumbStep ==
  ASSUME Inv, NEW p \in BookPages, ThumbWanted(p) \/ ThumbEnds(p)
  PROVE  Inv'
<1>1. UNCHANGED <<entry, load, snap, live, disposed, evicted, spoiled>>
  BY DEF ThumbWanted, ThumbEnds
<1>2. disposed => thumbs' = thumbs
  BY DEF ThumbWanted, ThumbEnds
<1> QED
  BY <1>1, <1>2 DEF Inv, Types, InOrder, Entries, Urls, Disposal, Snapshots, Faithful

LEMMA DisposeStep ==
  ASSUME Inv, Dispose
  PROVE  Inv'
<1>1. Types /\ InOrder /\ Entries /\ Urls
  BY DEF Inv
<1>2. /\ disposed' /\ thumbs' = {} /\ UNCHANGED <<load, evicted>>
      /\ \A p \in BookPages : entry'[p] = 0 /\ snap'[p] = Idle
  BY DEF Dispose
<1>3. Types'
  <2>1. Idle \in [status : {"idle", "loading", "ready", "error"}, url : 0 .. MaxLoads]
    BY PageCacheAssumption DEF Idle
  <2> QED BY <1>1, <2>1, PageCacheAssumption DEF Dispose, Types
<1>4. Urls'
  <2> SUFFICES ASSUME NEW p \in BookPages, NEW k \in Loads
               PROVE  /\ load[p][k] = "decode" => <<p, k>> \in live'
                      /\ ~(load[p][k] = "ready" /\ entry'[p] = k)
                      /\ <<p, k>> \in live' => load[p][k] = "decode" \/
                           (load[p][k] = "ready" /\ <<p, k>> \in evicted)
    BY <1>2 DEF Urls
  <2>1. k # 0
    BY DEF Loads
  <2>2. <<p, k>> \in live' <=>
          <<p, k>> \in live /\ ~(entry[p] = k /\ load[p][k] = "ready")
    BY <2>1 DEF Dispose, Revoked, Cached
  <2> QED BY <1>1, <1>2, <2>1, <2>2 DEF Urls
<1>5. InOrder' /\ Entries' /\ Disposal' /\ Snapshots' /\ Faithful'
  BY <1>1, <1>2 DEF InOrder, Entries, Disposal, Snapshots, Faithful, Idle
<1> QED BY <1>3, <1>4, <1>5 DEF Inv

LEMMA InvStep == Inv /\ [CacheNext]_cacheVars => Inv'
<1> SUFFICES ASSUME Inv, [CacheNext]_cacheVars PROVE Inv'
  OBVIOUS
<1>1. ASSUME NEW c \in BookPages, NEW a \in Aheads, SetWindow(c, a) PROVE Inv'
  BY <1>1, SetWindowStep
<1>2. ASSUME NEW p \in BookPages, NEW k \in Loads,
             PageFetched(p, k) \/ PageFails(p, k) \/ PageDecoded(p, k)
      PROVE  Inv'
  BY <1>2, LoadStep
<1>3. ASSUME NEW p \in Hovered, ThumbWanted(p) \/ ThumbEnds(p) PROVE Inv'
  BY <1>3, ThumbStep, PageCacheAssumption
<1>4. CASE Dispose
  BY <1>4, DisposeStep
<1>5. CASE UNCHANGED cacheVars
  BY <1>5 DEF cacheVars, Inv, Types, InOrder, Entries, Urls, Disposal, Snapshots, Faithful
<1> QED BY <1>1, <1>2, <1>3, <1>4, <1>5 DEF CacheNext

\* The invariant holds of every reachable state.
THEOREM Invariance == CacheSpec => []Inv
BY InitInv, InvStep, PTL DEF CacheSpec

-----------------------------------------------------------------------------
\* What is painted is alive, and is what the page's entry holds.
THEOREM PaintedPagesLive == CacheSpec => []PaintedIsLive
<1>1. Inv => PaintedIsLive
  <2> SUFFICES ASSUME Inv PROVE PaintedIsLive
    OBVIOUS
  <2>1. ASSUME NEW p \in BookPages, Painted(p) = "image" PROVE <<p, snap[p].url>> \in live
    BY <2>1 DEF Painted, Inv, Snapshots
  <2>2. ASSUME NEW p \in BookPages \ spoiled
        PROVE  Painted(p) = IF entry[p] = 0 THEN "spinner"
                            ELSE CASE load[p][entry[p]] = "ready" -> "image"
                                   [] load[p][entry[p]] = "error" -> "unavailable"
                                   [] OTHER -> "spinner"
    <3>1. snap[p].status = IF entry[p] = 0 THEN "idle" ELSE Status(load[p][entry[p]])
      BY <2>2 DEF Inv, Faithful
    <3>2. snap[p].status = "ready" => snap[p].url \in Loads /\ 0 \notin Loads
      <4>1. 0 \notin Loads
        BY DEF Loads
      <4> QED BY <2>2, <4>1 DEF Inv, Snapshots
    <3> QED BY <3>1, <3>2 DEF Painted, Status
  <2> QED BY <2>1, <2>2 DEF PaintedIsLive
<1> QED BY <1>1, Invariance, PTL

\* No turn of pages and no disposal leaks an object URL: only an evicted load does.
THEOREM NothingElseLeaks == CacheSpec => []OnlyEvictedLoadsLeak
<1>1. Inv => OnlyEvictedLoadsLeak
  <2> SUFFICES ASSUME Inv PROVE OnlyEvictedLoadsLeak
    OBVIOUS
  <2>1. ASSUME NEW u \in live
        PROVE  entry[u[1]] = u[2] \/ load[u[1]][u[2]] = "decode" \/ u \in evicted
    <3>1. u[1] \in BookPages /\ u[2] \in Loads /\ u = <<u[1], u[2]>>
      BY <2>1 DEF Inv, Types
    <3> QED BY <2>1, <3>1 DEF Inv, Urls
  <2> QED BY <2>1 DEF OnlyEvictedLoadsLeak, Inv, Disposal
<1> QED BY <1>1, Invariance, PTL

-----------------------------------------------------------------------------
(***************************************************************************)
(* The session.  A book that is left keeps its place, its caches are       *)
(* disposed, and the layout chosen for it is saved.                        *)
(***************************************************************************)
SessionShape ==
  /\ open = [o \in Opens |-> open[o]]
  /\ \A o \in Opens : open[o] = [book |-> open[o].book, start |-> open[o].start,
                                 stage |-> open[o].stage, layout |-> open[o].layout]
  /\ cache = [o \in Opens |-> cache[o]]
  /\ place = [b \in Books |-> place[b]] /\ prefs = [b \in Books |-> prefs[b]]
  /\ last = [b \in Books |-> last[b]] /\ chosen = [b \in Books |-> chosen[b]]
  /\ \A b \in Books : last[b] = [page |-> last[b].page, finished |-> last[b].finished]

\* The opens under way have a book, and those to come are blank.
OpensInv ==
  /\ begun \in 0 .. MaxOpens
  /\ \A o \in Opens : /\ open[o].stage \in {"open", "prefs", "restore", "landed"} =>
                           BookOf(o) \in Books
                      /\ o > begun => open[o].stage = "none"

\* The provider in the store is that of the manifest, and a book is shown with it only.
ShownInv ==
  /\ provider \in {0, manifest} /\ (Reading => provider # 0)
  /\ manifest # 0 => manifest \in Opens /\ open[manifest].stage = "landed"

\* The place the reader has in the book shown is the store's.
HereInv == provider # 0 => last[BookOf(provider)] = Here

\* The layout of a book under way, and of the book shown, is the one chosen for it,
\* unless a save that will settle it is pending.
PendingFor(b) == prefsTimer /\ manifest # 0 /\ BookOf(manifest) = b
LayoutInv ==
  /\ \A o \in Opens : open[o].stage = "restore" /\ chosen[BookOf(o)] # Unset =>
       open[o].layout = chosen[BookOf(o)] \/ PendingFor(BookOf(o))
  /\ prefsTimer /\ manifest # 0 /\ chosen[BookOf(manifest)] # Unset =>
       layout = chosen[BookOf(manifest)]

SessionInv ==
  SessionShape /\ OpensInv /\ ShownInv /\ HereInv /\ LayoutInv
    /\ NoTurnLost /\ CachesAccounted /\ ChoiceKept

\* The steps, without the inputs they come from.
LEMMA SessionSteps ==
  ASSUME [Next]_vars
  PROVE  \/ \E p : navigateTo(p) \/ \E lay : setLayout(lay)
         \/ (Reading /\ Finish) \/ dismissFinished
         \/ flushProgress \/ Hide \/ PrefsFire \/ dispose
         \/ \E b \in Books : \E s : init(b, s) \/ (teardownCurrent /\ Begin(b, s))
         \/ \E b : NextAnswered(b)
         \/ \E o \in Opens : OpenStep(o)
         \/ UNCHANGED vars
<1>1. Forward => (\E p : navigateTo(p)) \/ (Reading /\ Finish)
  BY DEF Forward
<1>2. Back => \E p : navigateTo(p)
  BY DEF Back
<1>3. \A p : Jump(p) => navigateTo(p)
  BY DEF Jump
<1>4. ASSUME NEW b \in Books, loadNext(b)
      PROVE  \E c \in Books : \E s : teardownCurrent /\ Begin(c, s)
  BY <1>4 DEF loadNext
<1>5. ASSUME NEW b \in Books, NEW s, openUrl(b, s)
      PROVE  \E c \in Books : \E t : teardownCurrent /\ Begin(c, t)
  BY <1>5 DEF openUrl
<1>6. toggleLayout => \E lay : setLayout(lay)
  BY DEF toggleLayout
<1>7. CASE Keyboard
  BY <1>1, <1>2, <1>3, <1>4, <1>6, <1>7 DEF Keyboard, KeyForward
<1>8. CASE Pointer
  BY <1>1, <1>2, <1>8 DEF Pointer
<1>9. CASE EndCard
  BY <1>4, <1>9 DEF EndCard
<1>10. CASE GoTo
  BY <1>3, <1>10 DEF GoTo
<1>11. CASE Launch
  BY <1>5, <1>11 DEF Launch
<1>12. CASE SaveFires
  BY <1>12 DEF SaveFires
<1> QED BY <1>7, <1>8, <1>9, <1>10, <1>11, <1>12 DEF Next

\* What showing a page does to the timer and to the reader's place in the book.
Shows(o) ==
  /\ saveTimer' = TRUE
  /\ last' = [x \in Books |-> IF x = BookOf(o) THEN Here'
                              ELSE IF provider \in {0, o} \/ BookOf(provider) # x
                              THEN last[x] ELSE NoPlace]

LEMMA ShowPageShows ==
  ASSUME NEW o, NEW p, NEW lay, ShowPage(o, p, lay) PROVE Shows(o)
<1> DEFINE i == spreadIndexOf(SpreadsOf(BookOf(o), lay), p)
           first == SpreadsOf(BookOf(o), lay)[i][1]
           done == i = Len(SpreadsOf(BookOf(o), lay))
<1>1. page' = first /\ finished' = done /\ saveTimer' = TRUE
  BY DEF ShowPage
<1>2. last' = [x \in Books |-> IF x = BookOf(o) THEN [page |-> first, finished |-> done]
                               ELSE IF provider \in {0, o} \/ BookOf(provider) # x
                               THEN last[x] ELSE NoPlace]
  BY DEF ShowPage
<1> HIDE DEF first, done
<1>3. Here' = [page |-> first, finished |-> done]
  BY <1>1 DEF Here
<1> QED BY <1>1, <1>2, <1>3 DEF Shows

LEMMA SessionInit == Init => SessionInv
<1> SUFFICES ASSUME Init PROVE SessionInv
  OBVIOUS
<1>1. MaxOpens \in Nat
  BY ReaderAssumption
<1>2. SessionShape
  BY DEF Init, SessionShape, NoOpen, NoPlace
<1>3. OpensInv
  BY <1>1 DEF Init, OpensInv, NoOpen
<1>4. ShownInv /\ HereInv
  BY DEF Init, ShownInv, HereInv, Reading
<1>5. LayoutInv /\ ChoiceKept
  BY DEF Init, LayoutInv, ChoiceKept, NoOpen
<1>6. NoTurnLost /\ CachesAccounted
  BY DEF Init, NoTurnLost, CachesAccounted, NoPlace, Worth
<1> QED BY <1>2, <1>3, <1>4, <1>5, <1>6 DEF SessionInv


\* What each step does to the opens: one begins, or one goes on.
OpenAs(b, s, stage, lay) == [book |-> b, start |-> s, stage |-> stage, layout |-> lay]
OpensAt(o, e) == open' = [open EXCEPT ![o] = e]
Goes(o, e) ==
  /\ OpensAt(o, e) /\ UNCHANGED begun
  /\ e = OpenAs(e.book, e.start, e.stage, e.layout)
  /\ open[o].stage \in {"open", "prefs", "restore"}
  /\ e.stage = "failed" \/ (e.book = BookOf(o) /\ e.stage # "none")
LayoutFor(o) == IF prefs[BookOf(o)] = Unset THEN open[o].layout ELSE prefs[BookOf(o)]

LEMMA OpenChanged ==
  ASSUME SessionShape, NEW o \in Opens, NEW stage, NEW lay
  PROVE  [open[o] EXCEPT !.stage = stage, !.layout = lay]
         = OpenAs(BookOf(o), open[o].start, stage, lay)
<1>1. open[o] = OpenAs(BookOf(o), open[o].start, open[o].stage, open[o].layout)
  BY DEF SessionShape, OpenAs, BookOf
<1>2. PICK b, s, t, l : open[o] = OpenAs(b, s, t, l) /\ b = BookOf(o) /\ s = open[o].start
  BY <1>1
<1>3. [OpenAs(b, s, t, l) EXCEPT !.stage = stage] = OpenAs(b, s, stage, l)
  BY DEF OpenAs
<1>4. [OpenAs(b, s, stage, l) EXCEPT !.layout = lay] = OpenAs(b, s, stage, lay)
  BY DEF OpenAs
<1>5. [open[o] EXCEPT !.stage = stage, !.layout = lay]
      = [[open[o] EXCEPT !.stage = stage] EXCEPT !.layout = lay]
  OBVIOUS
<1> QED BY <1>2, <1>3, <1>4, <1>5

LEMMA OpensStep ==
  ASSUME SessionShape, OpensInv, [Next]_vars
  PROVE  \/ UNCHANGED <<open, begun>>
         \/ \E b \in Books : \E s : Begin(b, s)
         \/ \E o \in Opens : \E e : Goes(o, e)
<1>1. ASSUME NEW o \in Opens, OpenFails(o)
      PROVE  Goes(o, OpenAs(NoBook, NoPage, "failed", "single"))
  <2>1. [NoOpen EXCEPT !.stage = "failed"] = OpenAs(NoBook, NoPage, "failed", "single")
    BY DEF NoOpen, OpenAs
  <2> QED BY <1>1, <2>1 DEF OpenFails, Goes, OpensAt, OpenAs
<1>2. ASSUME NEW o \in Opens, ManifestLoaded(o)
      PROVE  Goes(o, OpenAs(BookOf(o), open[o].start, "prefs", defaults))
  <2>1. open' = [open EXCEPT ![o] = [open[o] EXCEPT !.stage = "prefs", !.layout = defaults]]
    BY <1>2 DEF ManifestLoaded, SessionShape
  <2>2. [open[o] EXCEPT !.stage = "prefs", !.layout = defaults]
        = OpenAs(BookOf(o), open[o].start, "prefs", defaults)
    BY OpenChanged
  <2> QED BY <1>2, <2>1, <2>2 DEF ManifestLoaded, Goes, OpensAt, OpenAs
<1>3. ASSUME NEW o \in Opens, PrefsLoaded(o)
      PROVE  Goes(o, OpenAs(BookOf(o), open[o].start, "restore", LayoutFor(o)))
  <2>1. open' = [open EXCEPT ![o] = [open[o] EXCEPT !.stage = "restore", !.layout = LayoutFor(o)]]
    BY <1>3 DEF PrefsLoaded, SessionShape, LayoutFor
  <2>2. [open[o] EXCEPT !.stage = "restore", !.layout = LayoutFor(o)]
        = OpenAs(BookOf(o), open[o].start, "restore", LayoutFor(o))
    BY OpenChanged
  <2> QED BY <1>3, <2>1, <2>2 DEF PrefsLoaded, Goes, OpensAt, OpenAs
<1>4. ASSUME NEW o \in Opens, Land(o)
      PROVE  Goes(o, OpenAs(BookOf(o), NoPage, "landed", "single"))
  <2>1. open' = [open EXCEPT ![o] = [[NoOpen EXCEPT !.book = BookOf(o)] EXCEPT !.stage = "landed"]]
    BY <1>4 DEF Land
  <2>2. [NoOpen EXCEPT !.book = BookOf(o)] = OpenAs(BookOf(o), NoPage, "none", "single")
    BY DEF NoOpen, OpenAs
  <2>3. [OpenAs(BookOf(o), NoPage, "none", "single") EXCEPT !.stage = "landed"]
        = OpenAs(BookOf(o), NoPage, "landed", "single")
    BY DEF OpenAs
  <2> QED BY <1>4, <2>1, <2>2, <2>3 DEF Land, Goes, OpensAt, OpenAs
<1>6. ASSUME NEW o \in Opens, OpenStep(o) PROVE \E e : Goes(o, e)
  BY <1>1, <1>2, <1>3, <1>4, <1>6 DEF OpenStep
<1>7. ASSUME \/ \E p : navigateTo(p) \/ \E lay : setLayout(lay)
             \/ (Reading /\ Finish) \/ dismissFinished
             \/ flushProgress \/ Hide \/ PrefsFire \/ dispose
             \/ \E b : NextAnswered(b)
             \/ UNCHANGED vars
      PROVE  UNCHANGED <<open, begun>>
  BY <1>7 DEF navigateTo, setLayout, Finish, dismissFinished, flushProgress, Hide, PrefsFire,
              dispose, NextAnswered, vars
<1>8. \A b, s : init(b, s) => Begin(b, s)
  BY DEF init
<1> QED BY <1>6, <1>7, <1>8, SessionSteps

LEMMA OpensKept ==
  ASSUME SessionShape, OpensInv, [Next]_vars
  PROVE  /\ OpensInv'
         /\ open' = [o \in Opens |-> open'[o]]
         /\ \A o \in Opens : open'[o] = [book |-> open'[o].book, start |-> open'[o].start,
                                         stage |-> open'[o].stage, layout |-> open'[o].layout]
         /\ \A o \in Opens : open[o].stage = "landed" => open'[o] = open[o]
<1> USE ReaderAssumption
<1>1. CASE UNCHANGED <<open, begun>>
  BY <1>1 DEF OpensInv, SessionShape, BookOf
<1>2. ASSUME NEW b \in Books, NEW s, Begin(b, s)
      PROVE  /\ OpensInv'
             /\ open' = [o \in Opens |-> open'[o]]
             /\ \A o \in Opens : open'[o] = [book |-> open'[o].book, start |-> open'[o].start,
                                            stage |-> open'[o].stage, layout |-> open'[o].layout]
             /\ \A o \in Opens : open[o].stage = "landed" => open'[o] = open[o]
  <2>1. begun + 1 \in Opens /\ begun' = begun + 1 /\ begun' \in 0 .. MaxOpens
    BY <1>2 DEF Begin, OpensInv, Opens
  <2>2. open[begun + 1].stage = "none"
    BY <2>1 DEF OpensInv, Opens
  <2>3. \A o \in Opens : open'[o] = IF o = begun + 1
                                    THEN [book |-> b, start |-> s, stage |-> "open",
                                          layout |-> "single"]
                                    ELSE open[o]
    BY <1>2, <2>1 DEF Begin, SessionShape
  <2>4. \A o \in Opens : o > begun' => o > begun /\ o # begun + 1
    BY <2>1 DEF OpensInv, Opens
  <2>5. OpensInv'
    BY <2>1, <2>3, <2>4 DEF OpensInv, BookOf
  <2>6. open' = [o \in Opens |-> open'[o]]
    BY <1>2 DEF Begin, SessionShape
  <2> QED BY <2>2, <2>3, <2>5, <2>6 DEF SessionShape
<1>3. ASSUME NEW o \in Opens, NEW e, Goes(o, e)
      PROVE  /\ OpensInv'
             /\ open' = [x \in Opens |-> open'[x]]
             /\ \A x \in Opens : open'[x] = [book |-> open'[x].book, start |-> open'[x].start,
                                            stage |-> open'[x].stage, layout |-> open'[x].layout]
             /\ \A x \in Opens : open[x].stage = "landed" => open'[x] = open[x]
  <2>1. \A x \in Opens : open'[x] = IF x = o THEN e ELSE open[x]
    BY <1>3 DEF Goes, OpensAt, SessionShape
  <2>2. open' = [x \in Opens |-> open'[x]]
    BY <1>3 DEF Goes, OpensAt, SessionShape
  <2>3. OpensInv'
    BY <1>3, <2>1 DEF OpensInv, BookOf, Goes
  <2> QED BY <1>3, <2>1, <2>2, <2>3 DEF SessionShape, Goes, OpenAs
<1> QED BY <1>1, <1>2, <1>3, OpensStep

LEMMA ShapeStep ==
  ASSUME SessionShape, OpensInv, [Next]_vars PROVE SessionShape'
<1>1. cache' = [o \in Opens |-> cache'[o]]
  BY SessionSteps DEF SessionShape, navigateTo, setLayout, Finish, dismissFinished,
     flushProgress, Hide, PrefsFire, dispose, init, teardownCurrent, NextAnswered, OpenStep,
     OpenFails, ManifestLoaded, PrefsLoaded, Land, vars
<1>2. place' = [b \in Books |-> place'[b]]
  BY SessionSteps DEF SessionShape, navigateTo, setLayout, Finish, dismissFinished,
     flushProgress, Hide, Save, PrefsFire, dispose, init, teardownCurrent, NextAnswered,
     OpenStep, OpenFails, ManifestLoaded, PrefsLoaded, Land, backend, vars
<1>3. prefs' = [b \in Books |-> prefs'[b]]
  BY SessionSteps DEF SessionShape, navigateTo, setLayout, Finish, dismissFinished,
     flushProgress, Hide, PrefsFire, dispose, init, teardownCurrent, NextAnswered,
     OpenStep, OpenFails, ManifestLoaded, PrefsLoaded, Land, backend, vars
<1>4. chosen' = [b \in Books |-> chosen'[b]]
  BY SessionSteps DEF SessionShape, navigateTo, setLayout, Finish, dismissFinished,
     flushProgress, Hide, PrefsFire, dispose, init, teardownCurrent, LeaveChoice,
     NextAnswered, OpenStep, OpenFails, ManifestLoaded, PrefsLoaded, Land, history, vars
<1>5. /\ last' = [b \in Books |-> last'[b]]
      /\ \A b \in Books : last'[b] = [page |-> last'[b].page, finished |-> last'[b].finished]
  <2>1. ASSUME NEW o, Shows(o)
        PROVE  /\ last' = [b \in Books |-> last'[b]]
               /\ \A b \in Books :
                    last'[b] = [page |-> last'[b].page, finished |-> last'[b].finished]
    BY <2>1 DEF Shows, Here, NoPlace, SessionShape
  <2>2. ASSUME NEW b, NEW f, last' = [last EXCEPT ![b].finished = f]
        PROVE  /\ last' = [x \in Books |-> last'[x]]
               /\ \A x \in Books :
                    last'[x] = [page |-> last'[x].page, finished |-> last'[x].finished]
    <3>1. \A x \in Books : last'[x] = IF x = b THEN [last[b] EXCEPT !.finished = f] ELSE last[x]
      BY <2>2 DEF SessionShape
    <3>2. b \in Books => [last[b] EXCEPT !.finished = f] = [page |-> last[b].page, finished |-> f]
      BY DEF SessionShape
    <3>3. last' = [x \in Books |-> last'[x]]
      BY <2>2 DEF SessionShape
    <3> QED BY <3>1, <3>2, <3>3 DEF SessionShape
  <2>3. ASSUME UNCHANGED last
        PROVE  /\ last' = [b \in Books |-> last'[b]]
               /\ \A b \in Books :
                    last'[b] = [page |-> last'[b].page, finished |-> last'[b].finished]
    BY <2>3 DEF SessionShape
  <2>4. \A p : navigateTo(p) => Shows(manifest)
    BY ShowPageShows DEF navigateTo
  <2>5. \A lay : setLayout(lay) => Shows(manifest)
    BY ShowPageShows DEF setLayout
  <2>6. \A o : Land(o) => Shows(o)
    BY ShowPageShows DEF Land
  <2>7. Finish \/ dismissFinished =>
          \E b, f : last' = [last EXCEPT ![b].finished = f]
    BY DEF Finish, dismissFinished
  <2>8. ASSUME \/ flushProgress \/ Hide \/ PrefsFire \/ dispose \/ teardownCurrent
               \/ (\E b, s : init(b, s)) \/ \E b : NextAnswered(b)
               \/ \E o \in Opens : OpenFails(o) \/ ManifestLoaded(o) \/ PrefsLoaded(o)
               \/ UNCHANGED vars
        PROVE  UNCHANGED last
    BY <2>8 DEF flushProgress, Hide, PrefsFire, dispose, teardownCurrent, init, NextAnswered,
                OpenFails, ManifestLoaded, PrefsLoaded, history, vars
  <2> QED BY <2>1, <2>2, <2>3, <2>4, <2>5, <2>6, <2>7, <2>8, SessionSteps DEF OpenStep
<1> QED BY <1>1, <1>2, <1>3, <1>4, <1>5, OpensKept DEF SessionShape

LEMMA ShownStep ==
  ASSUME SessionShape, OpensInv, ShownInv, [Next]_vars PROVE ShownInv'
<1>1. manifest # 0 => manifest \in Opens /\ open'[manifest].stage = "landed"
  BY OpensKept DEF ShownInv
<1>2. ASSUME UNCHANGED <<manifest, provider>>, UNCHANGED status \/ ~(status' = "ready")
      PROVE  ShownInv'
  BY <1>1, <1>2 DEF ShownInv, Reading
<1>3. ASSUME UNCHANGED manifest, provider' = 0, status' # "ready" PROVE ShownInv'
  BY <1>1, <1>3 DEF ShownInv, Reading
<1>4. ASSUME NEW o \in Opens, Land(o) PROVE ShownInv'
  <2>1. open'[o] = [NoOpen EXCEPT !.book = BookOf(o), !.stage = "landed"]
    BY <1>4 DEF Land, SessionShape
  <2>2. open'[o].stage = "landed"
    BY <2>1 DEF NoOpen
  <2>3. o # 0
    BY DEF Opens
  <2> QED BY <1>4, <2>2, <2>3 DEF Land, ShownInv, Reading
<1>5. ASSUME \/ \E p : navigateTo(p) \/ \E lay : setLayout(lay)
             \/ Finish \/ dismissFinished \/ flushProgress \/ Hide \/ PrefsFire
             \/ (\E b : NextAnswered(b)) \/ \E b, s : init(b, s)
             \/ \E o : OpenFails(o) \/ ManifestLoaded(o) \/ PrefsLoaded(o)
             \/ UNCHANGED vars
      PROVE  ShownInv'
  <2>1. UNCHANGED <<manifest, provider>> /\ (UNCHANGED status \/ ~(status' = "ready"))
    BY <1>5 DEF navigateTo, setLayout, Finish, dismissFinished, flushProgress, Hide, PrefsFire,
       NextAnswered, init, Begin, OpenFails, ManifestLoaded, PrefsLoaded, reader, vars
  <2> QED BY <1>2, <2>1
<1>6. ASSUME NEW b, NEW s, teardownCurrent, Begin(b, s) PROVE ShownInv'
  BY <1>3, <1>6 DEF teardownCurrent, Begin
<1>7. ASSUME dispose PROVE ShownInv'
  BY <1>3, <1>7 DEF dispose
<1> QED BY <1>4, <1>5, <1>6, <1>7, SessionSteps DEF OpenStep

\* The books of the opens that are shown stay theirs.
LEMMA BooksStay ==
  ASSUME SessionShape, OpensInv, ShownInv, [Next]_vars
  PROVE  /\ manifest # 0 => BookOf(manifest) \in Books /\ open'[manifest] = open[manifest]
         /\ provider # 0 => provider = manifest
BY OpensKept DEF OpensInv, ShownInv

LEMMA HereStep ==
  ASSUME SessionShape, OpensInv, ShownInv, HereInv, [Next]_vars PROVE HereInv'
<1> USE BooksStay
<1>1. ASSUME UNCHANGED <<last, page, finished, provider>> PROVE HereInv'
  BY <1>1 DEF HereInv, Here, BookOf
<1>2. ASSUME NEW o \in Opens, Shows(o), provider' = o, BookOf(o) \in Books,
             open'[o].book = BookOf(o)
      PROVE  HereInv'
  BY <1>2 DEF Shows, HereInv, BookOf
<1>3. ASSUME Reading, Shows(manifest), UNCHANGED provider PROVE HereInv'
  BY <1>2, <1>3 DEF ShownInv, BookOf
<1>4. ASSUME NEW o \in Opens, Land(o) PROVE HereInv'
  <2>1. open'[o] = [NoOpen EXCEPT !.book = BookOf(o), !.stage = "landed"]
    BY <1>4 DEF Land, SessionShape
  <2>2. open'[o].book = BookOf(o)
    BY <2>1 DEF NoOpen
  <2>3. BookOf(o) \in Books
    BY <1>4 DEF Land, OpensInv
  <2> QED BY <1>2, <1>4, <2>2, <2>3, ShowPageShows DEF Land
<1>5. ASSUME NEW f, last' = [last EXCEPT ![BookOf(manifest)].finished = f], finished' = f,
             UNCHANGED <<page, provider, open>>
      PROVE  HereInv'
  <2> SUFFICES ASSUME provider # 0 PROVE last'[BookOf(provider)] = Here'
    BY <1>5 DEF HereInv, BookOf
  <2>1. BookOf(provider) \in Books /\ provider = manifest
    OBVIOUS
  <2>2. last'[BookOf(provider)] = [last[BookOf(provider)] EXCEPT !.finished = f]
    BY <1>5, <2>1 DEF SessionShape
  <2>3. last[BookOf(provider)] = [page |-> page, finished |-> finished]
    BY DEF HereInv, Here
  <2> QED BY <1>5, <2>2, <2>3 DEF Here
<1>6. ASSUME Finish \/ dismissFinished PROVE HereInv'
  BY <1>5, <1>6 DEF Finish, dismissFinished
<1>7. ASSUME teardownCurrent \/ dispose PROVE HereInv'
  BY <1>7 DEF teardownCurrent, dispose, HereInv
<1>8. ASSUME \/ flushProgress \/ Hide \/ PrefsFire
             \/ (\E b : NextAnswered(b)) \/ \E b, s : init(b, s)
             \/ \E o : OpenFails(o) \/ ManifestLoaded(o) \/ PrefsLoaded(o)
             \/ UNCHANGED vars
      PROVE  HereInv'
  <2>1. UNCHANGED <<last, page, finished, provider>>
    BY <1>8 DEF flushProgress, Hide, PrefsFire, NextAnswered, init, OpenFails, ManifestLoaded,
                PrefsLoaded, reader, history, vars
  <2> QED BY <1>1, <2>1
<1>9. ASSUME \/ \E p : navigateTo(p) \/ \E lay : setLayout(lay) PROVE HereInv'
  BY <1>3, <1>9, ShowPageShows DEF navigateTo, setLayout
<1> QED BY <1>4, <1>6, <1>7, <1>8, <1>9, SessionSteps DEF OpenStep

\* The reader's place in b is at the backend, or its save is pending.
SavedAs(b, pl) == place[b].page = pl.page /\ (pl.finished => place[b].finished)
Saving(b) == saveTimer /\ provider # 0 /\ BookOf(provider) = b

\* Saving the place of the book shown leaves none of its turns to be lost.
LEMMA SaveSaves ==
  ASSUME SessionShape, OpensInv, ShownInv, HereInv, NoTurnLost, Save(provider),
         NEW b \in Books, Worth(last[b])
  PROVE  SavedAs(b, last[b])'
         \/ last'[b] # last[b]
<1> SUFFICES ASSUME last'[b] = last[b] PROVE SavedAs(b, last[b])'
  OBVIOUS
<1>1. CASE provider # 0 /\ BookOf(provider) = b
  <2>1. last[b] = Here
    BY <1>1 DEF HereInv
  <2>2. place' = [place EXCEPT ![b] = Here]
    BY <1>1, <2>1 DEF Save
  <2>3. place'[b] = last[b]
    BY <2>1, <2>2 DEF SessionShape
  <2> QED BY <2>3 DEF SavedAs
<1>2. CASE ~(provider # 0 /\ BookOf(provider) = b)
  <2>1. place'[b] = place[b]
    BY <1>2 DEF Save, SessionShape
  <2>2. SavedAs(b, last[b])
    BY <1>2 DEF NoTurnLost, SavedAs
  <2> QED BY <2>1, <2>2 DEF SavedAs
<1> QED BY <1>1, <1>2

LEMMA TurnStep ==
  ASSUME SessionShape, OpensInv, ShownInv, HereInv, NoTurnLost, [Next]_vars
  PROVE  NoTurnLost'
<1> USE BooksStay
<1>1. ASSUME UNCHANGED <<last, place, saveTimer, provider>> PROVE NoTurnLost'
  BY <1>1 DEF NoTurnLost, BookOf
<1>2. ASSUME UNCHANGED last, Save(provider) PROVE NoTurnLost'
  BY <1>2, SaveSaves DEF NoTurnLost, SavedAs
<1>3. ASSUME NEW o \in Opens, Shows(o), UNCHANGED place, provider' = o,
             open'[o].book = BookOf(o)
      PROVE  NoTurnLost'
  <2> SUFFICES ASSUME NEW b \in Books, Worth(last'[b])
               PROVE  SavedAs(b, last[b])' \/ Saving(b)'
    BY DEF NoTurnLost, SavedAs, Saving
  <2>1. o # 0
    BY DEF Opens
  <2>2. CASE b = BookOf(o)
    BY <1>3, <2>1, <2>2 DEF Shows, Saving, BookOf
  <2>3. CASE b # BookOf(o)
    <3>1. last'[b] = IF provider \in {0, o} \/ BookOf(provider) # b THEN last[b] ELSE NoPlace
      BY <1>3, <2>3 DEF Shows
    <3>2. last'[b] = last[b] /\ (provider \in {0, o} \/ BookOf(provider) # b)
      <4>1. ~Worth(NoPlace)
        BY DEF Worth, NoPlace
      <4> QED BY <3>1, <4>1
    <3>3. SavedAs(b, last[b])
      BY <2>3, <3>2 DEF NoTurnLost, SavedAs
    <3> QED BY <1>3, <3>2, <3>3 DEF SavedAs
  <2> QED BY <2>2, <2>3
<1>4. ASSUME Reading, Shows(manifest), UNCHANGED <<place, provider, open>> PROVE NoTurnLost'
  BY <1>3, <1>4 DEF ShownInv, BookOf
<1>5. ASSUME NEW o \in Opens, Land(o) PROVE NoTurnLost'
  <2>1. open'[o] = [NoOpen EXCEPT !.book = BookOf(o), !.stage = "landed"]
    BY <1>5 DEF Land, SessionShape
  <2>2. open'[o].book = BookOf(o)
    BY <2>1 DEF NoOpen
  <2> QED BY <1>3, <1>5, <2>2, ShowPageShows DEF Land, backend
<1>6. ASSUME Reading, Finish PROVE NoTurnLost'
  <2> SUFFICES ASSUME NEW b \in Books, Worth(last'[b])
               PROVE  SavedAs(b, last[b])' \/ Saving(b)'
    BY DEF NoTurnLost, SavedAs, Saving
  <2>1. CASE b = BookOf(manifest)
    <3>1. provider = manifest /\ provider # 0
      BY <1>6 DEF ShownInv
    <3>2. last'[b] = [last[b] EXCEPT !.finished = TRUE]
      BY <1>6, <2>1 DEF Finish, SessionShape
    <3>3. last[b] = [page |-> page, finished |-> finished]
      BY <2>1, <3>1 DEF HereInv, Here
    <3>4. place'[b] = [page |-> page, finished |-> TRUE]
      BY <1>6, <2>1 DEF Finish, SessionShape
    <3> QED BY <3>2, <3>3, <3>4 DEF SavedAs
  <2>2. CASE b # BookOf(manifest)
    <3>1. last'[b] = last[b] /\ place'[b] = place[b]
      BY <1>6, <2>2 DEF Finish, SessionShape
    <3>2. SavedAs(b, last[b]) \/ Saving(b)
      BY <3>1 DEF NoTurnLost, SavedAs, Saving
    <3> QED BY <1>6, <3>1, <3>2 DEF SavedAs, Saving, Finish, timers, BookOf
  <2> QED BY <2>1, <2>2
<1>7. ASSUME dismissFinished PROVE NoTurnLost'
  <2> SUFFICES ASSUME NEW b \in Books, Worth(last'[b])
               PROVE  SavedAs(b, last[b])' \/ Saving(b)'
    BY DEF NoTurnLost, SavedAs, Saving
  <2>1. Worth(last[b]) /\ last'[b].page = last[b].page
        /\ (last'[b].finished => last[b].finished)
    <3>1. last[b] = [page |-> last[b].page, finished |-> last[b].finished]
      BY DEF SessionShape
    <3>2. last'[b] = IF b = BookOf(manifest) THEN [last[b] EXCEPT !.finished = FALSE]
                     ELSE last[b]
      BY <1>7 DEF dismissFinished, SessionShape
    <3>3. PICK p, f : last[b] = [page |-> p, finished |-> f]
      BY <3>1
    <3> DEFINE r == [page |-> p, finished |-> f]
    <3>4. \A g : [r EXCEPT !.finished = g] = [page |-> p, finished |-> g]
      OBVIOUS
    <3>5. [last[b] EXCEPT !.finished = FALSE] = [page |-> p, finished |-> FALSE]
      BY <3>3, <3>4
    <3> QED BY <3>2, <3>3, <3>5 DEF Worth
  <2>2. SavedAs(b, last[b]) \/ Saving(b)
    BY <2>1 DEF NoTurnLost, SavedAs, Saving
  <2>3. UNCHANGED <<place, saveTimer, provider, open>>
    BY <1>7 DEF dismissFinished, timers, backend
  <2> QED BY <2>1, <2>2, <2>3 DEF SavedAs, Saving, BookOf
<1>8. ASSUME flushProgress \/ Hide \/ teardownCurrent \/ dispose PROVE NoTurnLost'
  BY <1>2, <1>8 DEF flushProgress, Hide, teardownCurrent, dispose, history
<1>9. ASSUME \/ PrefsFire \/ (\E b : NextAnswered(b)) \/ \E b, s : init(b, s)
             \/ \E o : OpenFails(o) \/ ManifestLoaded(o) \/ PrefsLoaded(o)
             \/ UNCHANGED vars
      PROVE  NoTurnLost'
  <2>1. UNCHANGED <<last, place, saveTimer, provider>>
    BY <1>9 DEF PrefsFire, NextAnswered, init, OpenFails, ManifestLoaded, PrefsLoaded, reader,
                timers, backend, history, vars
  <2> QED BY <1>1, <2>1
<1>10. ASSUME \/ \E p : navigateTo(p) \/ \E lay : setLayout(lay) PROVE NoTurnLost'
  BY <1>4, <1>10, ShowPageShows DEF navigateTo, setLayout, backend
<1> QED BY <1>5, <1>6, <1>7, <1>8, <1>9, <1>10, SessionSteps DEF OpenStep

LEMMA CachesStep ==
  ASSUME SessionShape, OpensInv, ShownInv, CachesAccounted, [Next]_vars
  PROVE  CachesAccounted'
<1>1. ASSUME UNCHANGED <<cache, provider, over, open>> PROVE CachesAccounted'
  BY <1>1 DEF CachesAccounted
\* The provider is let go of with its cache.
<1>2. ASSUME UNCHANGED over, provider' = 0,
             cache' = IF provider = 0 THEN cache ELSE [cache EXCEPT ![provider] = "disposed"],
             \A o \in Opens : open[o].stage \in {"prefs", "restore"} => UNCHANGED open[o]
      PROVE  CachesAccounted'
  <2> SUFFICES ASSUME NEW o \in Opens, cache'[o] = "live"
               PROVE  open'[o].stage \in {"prefs", "restore"} \/ o \in over'
    BY DEF CachesAccounted
  <2>1. cache[o] = "live" /\ o # provider
    BY <1>2 DEF SessionShape, Opens
  <2> QED BY <1>2, <2>1 DEF CachesAccounted
<1>3. ASSUME NEW b \in Books, NEW s, Begin(b, s), NEW o \in Opens,
             open[o].stage \in {"prefs", "restore"}
      PROVE  UNCHANGED open[o]
  <2>1. begun + 1 \in Opens /\ open[begun + 1].stage = "none"
    BY <1>3, ReaderAssumption DEF Begin, OpensInv, Opens
  <2>2. o # begun + 1
    BY <1>3, <2>1
  <2> QED BY <1>3, <2>2 DEF Begin, SessionShape
<1>4. ASSUME NEW b \in Books, NEW s, init(b, s) PROVE CachesAccounted'
  <2>1. Begin(b, s) /\ UNCHANGED <<cache, provider, over>>
    BY <1>4 DEF init, history
  <2>2. \A o \in Opens : open[o].stage \in {"prefs", "restore"} => UNCHANGED open[o]
    BY <1>3, <2>1
  <2> QED BY <2>1, <2>2 DEF CachesAccounted
<1>5. ASSUME NEW b \in Books, NEW s, teardownCurrent, Begin(b, s) PROVE CachesAccounted'
  <2>1. \A o \in Opens : open[o].stage \in {"prefs", "restore"} => UNCHANGED open[o]
    BY <1>3, <1>5
  <2> QED BY <1>2, <1>5, <2>1 DEF teardownCurrent
<1>6. ASSUME dispose PROVE CachesAccounted'
  BY <1>2, <1>6 DEF dispose
<1>7. ASSUME NEW o \in Opens, OpenFails(o) PROVE CachesAccounted'
  <2>1. open[o].stage = "open" /\ UNCHANGED <<cache, provider, over>>
    BY <1>7 DEF OpenFails, history
  <2>2. \A x \in Opens : x # o => open'[x] = open[x]
    BY <1>7 DEF OpenFails, SessionShape
  <2> QED BY <2>1, <2>2 DEF CachesAccounted
<1>8. ASSUME NEW o \in Opens, ManifestLoaded(o) PROVE CachesAccounted'
  <2>1. UNCHANGED <<provider, over>> /\ cache' = [cache EXCEPT ![o] = "live"]
    BY <1>8 DEF ManifestLoaded, reader, history
  <2>2. \A x \in Opens : x # o => open'[x] = open[x] /\ cache'[x] = cache[x]
    BY <1>8, <2>1 DEF ManifestLoaded, SessionShape
  <2>3. open'[o].stage = "prefs"
    <3>1. open'[o] = [open[o] EXCEPT !.stage = "prefs", !.layout = defaults]
      BY <1>8 DEF ManifestLoaded, SessionShape
    <3>2. [open[o] EXCEPT !.stage = "prefs", !.layout = defaults]
          = OpenAs(BookOf(o), open[o].start, "prefs", defaults)
      BY OpenChanged
    <3> QED BY <3>1, <3>2 DEF OpenAs
  <2> QED BY <2>1, <2>2, <2>3 DEF CachesAccounted
<1>9. ASSUME NEW o \in Opens, PrefsLoaded(o) PROVE CachesAccounted'
  <2>1. UNCHANGED <<cache, provider, over>>
    BY <1>9 DEF PrefsLoaded, reader, history
  <2>2. \A x \in Opens : x # o => open'[x] = open[x]
    BY <1>9 DEF PrefsLoaded, SessionShape
  <2>3. open'[o].stage = "restore"
    <3>1. open'[o] = [open[o] EXCEPT !.stage = "restore", !.layout = LayoutFor(o)]
      BY <1>9 DEF PrefsLoaded, SessionShape, LayoutFor
    <3>2. [open[o] EXCEPT !.stage = "restore", !.layout = LayoutFor(o)]
          = OpenAs(BookOf(o), open[o].start, "restore", LayoutFor(o))
      BY OpenChanged
    <3> QED BY <3>1, <3>2 DEF OpenAs
  <2> QED BY <2>1, <2>2, <2>3 DEF CachesAccounted
<1>10. ASSUME NEW o \in Opens, Land(o) PROVE CachesAccounted'
  <2>1. provider' = o /\ over' = over \cup ({provider} \ {0}) /\ UNCHANGED cache
    BY <1>10 DEF Land
  <2>2. \A x \in Opens : x # o => open'[x] = open[x]
    BY <1>10 DEF Land, SessionShape
  <2>3. \A x \in Opens : x # 0
    BY DEF Opens
  <2> QED BY <2>1, <2>2, <2>3 DEF CachesAccounted
<1>11. ASSUME \/ \E p : navigateTo(p) \/ \E lay : setLayout(lay)
              \/ Finish \/ dismissFinished \/ flushProgress \/ Hide \/ PrefsFire
              \/ \E b : NextAnswered(b) \/ UNCHANGED vars
       PROVE  CachesAccounted'
  <2>1. UNCHANGED <<cache, provider, over, open>>
    BY <1>11 DEF navigateTo, setLayout, Finish, dismissFinished, flushProgress, Hide, PrefsFire,
                 NextAnswered, reader, history, vars
  <2> QED BY <1>1, <2>1
<1> QED BY <1>4, <1>5, <1>6, <1>7, <1>8, <1>9, <1>10, <1>11, SessionSteps DEF OpenStep

\* The opens that have read the settings stay as they are, but for the one that reads them.
RestoreKept == \A o \in Opens : open'[o].stage = "restore" => UNCHANGED open[o]
Chosen(b) == chosen[b] # Unset

LEMMA RestoresStay ==
  ASSUME SessionShape, OpensInv, [Next]_vars, \A o \in Opens : ~PrefsLoaded(o)
  PROVE  RestoreKept
<1>1. CASE UNCHANGED open
  BY <1>1 DEF RestoreKept
<1>2. ASSUME NEW b \in Books, NEW s, Begin(b, s) PROVE RestoreKept
  <2>1. open'[begun + 1].stage # "restore" \/ begun + 1 \notin Opens
    BY <1>2 DEF Begin, SessionShape
  <2>2. \A o \in Opens : o # begun + 1 => open'[o] = open[o]
    BY <1>2 DEF Begin, SessionShape
  <2> QED BY <2>1, <2>2 DEF RestoreKept
<1>3. ASSUME NEW o \in Opens, OpenFails(o) \/ ManifestLoaded(o) \/ Land(o) PROVE RestoreKept
  <2>1. \A x \in Opens : x # o => open'[x] = open[x]
    BY <1>3 DEF OpenFails, ManifestLoaded, Land, SessionShape
  <2>2. open'[o].stage # "restore"
    <3>1. CASE OpenFails(o)
      BY <3>1 DEF OpenFails, SessionShape, NoOpen
    <3>2. CASE ManifestLoaded(o)
      <4>1. open'[o] = [open[o] EXCEPT !.stage = "prefs", !.layout = defaults]
        BY <3>2 DEF ManifestLoaded, SessionShape
      <4>2. [open[o] EXCEPT !.stage = "prefs", !.layout = defaults]
            = OpenAs(BookOf(o), open[o].start, "prefs", defaults)
        BY OpenChanged
      <4> QED BY <4>1, <4>2 DEF OpenAs
    <3>3. CASE Land(o)
      <4>1. open'[o] = [NoOpen EXCEPT !.book = BookOf(o), !.stage = "landed"]
        BY <3>3 DEF Land, SessionShape
      <4> QED BY <4>1 DEF NoOpen
    <3> QED BY <1>3, <3>1, <3>2, <3>3
  <2> QED BY <2>1, <2>2 DEF RestoreKept
<1>4. ASSUME \/ \E p : navigateTo(p) \/ \E lay : setLayout(lay)
             \/ Finish \/ dismissFinished \/ flushProgress \/ Hide \/ PrefsFire \/ dispose
             \/ \E b : NextAnswered(b) \/ UNCHANGED vars
      PROVE  UNCHANGED open
  BY <1>4 DEF navigateTo, setLayout, Finish, dismissFinished, flushProgress, Hide, PrefsFire,
              dispose, NextAnswered, vars
<1>5. \A b, s : init(b, s) => Begin(b, s)
  BY DEF init
<1> QED BY <1>1, <1>2, <1>3, <1>4, <1>5, SessionSteps DEF OpenStep

\* A choice that outlives the book being left is one no pending save is for.
LEMMA LeftChoices ==
  ASSUME SessionShape, OpensInv, ShownInv, LeaveChoice, NEW b \in Books, chosen'[b] # Unset
  PROVE  chosen'[b] = chosen[b] /\ ~PendingFor(b)
BY DEF LeaveChoice, PendingFor, SessionShape, OpensInv, ShownInv

\* Leaving a book keeps what remains chosen with the opens that have read it, and saved.
LEMMA LeaveKeeps ==
  ASSUME SessionShape, OpensInv, ShownInv, LayoutInv, ChoiceKept, LeaveChoice, RestoreKept,
         OpensInv', UNCHANGED prefs
  PROVE  /\ \A o \in Opens : open'[o].stage = "restore" /\ chosen'[BookOf(o)'] # Unset =>
              open'[o].layout = chosen'[BookOf(o)']
         /\ \A b \in Books : chosen'[b] # Unset => prefs'[b] = chosen'[b]
<1>1. ASSUME NEW o \in Opens, open'[o].stage = "restore", chosen'[BookOf(o)'] # Unset
      PROVE  open'[o].layout = chosen'[BookOf(o)']
  <2>1. open'[o] = open[o] /\ BookOf(o)' = BookOf(o) /\ BookOf(o) \in Books
    BY <1>1 DEF RestoreKept, OpensInv, BookOf
  <2>2. chosen'[BookOf(o)] = chosen[BookOf(o)] /\ ~PendingFor(BookOf(o))
    BY <1>1, <2>1, LeftChoices
  <2> QED BY <1>1, <2>1, <2>2 DEF LayoutInv
<1>2. ASSUME NEW b \in Books, chosen'[b] # Unset PROVE prefs'[b] = chosen'[b]
  <2>1. chosen'[b] = chosen[b] /\ ~PendingFor(b)
    BY <1>2, LeftChoices
  <2> QED BY <1>2, <2>1 DEF ChoiceKept, PendingFor
<1> QED BY <1>1, <1>2

LEMMA ChoiceStep ==
  ASSUME SessionShape, OpensInv, ShownInv, LayoutInv, ChoiceKept, [Next]_vars
  PROVE  LayoutInv' /\ ChoiceKept'
<1> USE BooksStay
<1>0. OpensInv'
  BY OpensKept
<1>1. ASSUME UNCHANGED <<chosen, layout, prefs, prefsTimer, manifest>>, RestoreKept
      PROVE  LayoutInv' /\ ChoiceKept'
  <2>1. \A b : PendingFor(b)' <=> PendingFor(b)
    BY <1>1 DEF PendingFor, BookOf
  <2>2. LayoutInv'
    BY <1>1, <2>1 DEF LayoutInv, RestoreKept, BookOf
  <2>3. ChoiceKept'
    BY <1>1 DEF ChoiceKept, BookOf
  <2> QED BY <2>2, <2>3
<1>2. ASSUME NEW lay, setLayout(lay) PROVE LayoutInv' /\ ChoiceKept'
  <2>1. manifest \in Opens /\ manifest # 0 /\ BookOf(manifest) \in Books
    BY <1>2 DEF setLayout, ShownInv
  <2>2. /\ chosen' = [chosen EXCEPT ![BookOf(manifest)] = lay] /\ layout' = lay /\ prefsTimer'
        /\ UNCHANGED <<open, manifest, prefs>>
    BY <1>2 DEF setLayout, backend
  <2>3. \A b \in Books : chosen'[b] = IF b = BookOf(manifest) THEN lay ELSE chosen[b]
    BY <2>1, <2>2 DEF SessionShape
  <2>4. \A b : b = BookOf(manifest) => PendingFor(b)'
    BY <2>1, <2>2 DEF PendingFor, BookOf
  <2>5. \A b : b # BookOf(manifest) => ~PendingFor(b)
    BY DEF PendingFor
  <2>6. \A o \in Opens : open[o].stage = "restore" => BookOf(o) \in Books
    BY DEF OpensInv
  <2>7. LayoutInv'
    BY <2>1, <2>2, <2>3, <2>4, <2>5, <2>6 DEF LayoutInv, BookOf
  <2>8. ChoiceKept'
    BY <2>1, <2>2, <2>3 DEF ChoiceKept, BookOf
  <2> QED BY <2>7, <2>8
<1>3. ASSUME PrefsFire PROVE LayoutInv' /\ ChoiceKept'
  <2>1. prefsTimer /\ ~prefsTimer' /\ UNCHANGED <<open, layout, manifest>>
    BY <1>3 DEF PrefsFire, reader
  <2>2. CASE manifest = 0
    <3>1. UNCHANGED <<prefs, chosen>>
      BY <1>3, <2>2 DEF PrefsFire
    <3> QED BY <2>1, <2>2, <3>1 DEF LayoutInv, ChoiceKept, PendingFor, BookOf
  <2>3. CASE manifest # 0
    <3> DEFINE m == BookOf(manifest)
    <3>1. m \in Books /\ (chosen[m] # Unset => layout = chosen[m])
      BY <2>1, <2>3 DEF LayoutInv
    <3>2. \A b \in Books : /\ prefs'[b] = IF b = m THEN layout ELSE prefs[b]
                           /\ chosen'[b] = IF b = m /\ ReadBefore(m) THEN Unset ELSE chosen[b]
      BY <1>3, <2>3 DEF PrefsFire, SessionShape
    <3>3. \A b : PendingFor(b) => b = m
      BY DEF PendingFor
    <3>4. \A o \in Opens : open[o].stage = "restore" =>
            BookOf(o) \in Books /\ (BookOf(o) = m => ReadBefore(m))
      BY DEF OpensInv, ReadBefore
    <3>5. LayoutInv'
      BY <2>1, <3>2, <3>3, <3>4 DEF LayoutInv, BookOf
    <3>6. ChoiceKept'
      BY <2>1, <3>1, <3>2 DEF ChoiceKept
    <3> QED BY <3>5, <3>6
  <2> QED BY <2>2, <2>3
<1>4. ASSUME NEW b \in Books, NEW s, teardownCurrent, Begin(b, s), RestoreKept
      PROVE  LayoutInv' /\ ChoiceKept'
  <2>1. LeaveChoice /\ UNCHANGED <<prefs, prefsTimer, manifest>>
    BY <1>4 DEF teardownCurrent
  <2>2. ~(prefsTimer /\ manifest # 0 /\ chosen'[BookOf(manifest)] # Unset)
    BY <2>1, LeftChoices DEF PendingFor
  <2>3. manifest # 0 => BookOf(manifest)' = BookOf(manifest)
    BY <2>1 DEF BookOf
  <2> QED BY <1>0, <1>4, <2>1, <2>2, <2>3, LeaveKeeps DEF LayoutInv, ChoiceKept
<1>5. ASSUME dispose, RestoreKept PROVE LayoutInv' /\ ChoiceKept'
  <2>1. LeaveChoice /\ UNCHANGED prefs /\ ~prefsTimer'
    BY <1>5 DEF dispose
  <2> QED BY <1>0, <1>5, <2>1, LeaveKeeps DEF LayoutInv, ChoiceKept
<1>6. ASSUME NEW o \in Opens, Land(o), RestoreKept PROVE LayoutInv' /\ ChoiceKept'
  <2>1. LeaveChoice /\ UNCHANGED prefs /\ manifest' = o /\ layout' = open[o].layout
        /\ open[o].stage = "restore"
    BY <1>6 DEF Land, backend
  <2>2. open'[o].book = BookOf(o)
    <3>1. open'[o] = [NoOpen EXCEPT !.book = BookOf(o), !.stage = "landed"]
      BY <1>6 DEF Land, SessionShape
    <3> QED BY <3>1 DEF NoOpen
  <2>3. BookOf(o) \in Books
    BY <2>1 DEF OpensInv
  <2>4. chosen'[BookOf(o)] # Unset => layout' = chosen'[BookOf(o)]
    BY <2>1, <2>3, LeftChoices DEF LayoutInv
  <2>5. BookOf(manifest)' = BookOf(o)
    BY <2>1, <2>2 DEF BookOf
  <2> QED BY <1>0, <1>6, <2>1, <2>4, <2>5, LeaveKeeps DEF LayoutInv, ChoiceKept
<1>7. ASSUME NEW o \in Opens, PrefsLoaded(o) PROVE LayoutInv' /\ ChoiceKept'
  <2>1. UNCHANGED <<chosen, layout, prefs, prefsTimer, manifest>> /\ open[o].stage = "prefs"
    BY <1>7 DEF PrefsLoaded, reader, timers, backend, history
  <2>2. \A x \in Opens : x # o => open'[x] = open[x]
    BY <1>7 DEF PrefsLoaded, SessionShape
  <2>3. open'[o].book = BookOf(o) /\ open'[o].layout = LayoutFor(o)
    <3>1. open'[o] = [open[o] EXCEPT !.stage = "restore", !.layout = LayoutFor(o)]
      BY <1>7 DEF PrefsLoaded, SessionShape, LayoutFor
    <3>2. [open[o] EXCEPT !.stage = "restore", !.layout = LayoutFor(o)]
          = OpenAs(BookOf(o), open[o].start, "restore", LayoutFor(o))
      BY OpenChanged
    <3> QED BY <3>1, <3>2 DEF OpenAs
  <2>4. BookOf(o) \in Books
    BY <2>1 DEF OpensInv
  <2>5. chosen[BookOf(o)] # Unset =>
          LayoutFor(o) = chosen[BookOf(o)] \/ PendingFor(BookOf(o))
    BY <2>4 DEF ChoiceKept, LayoutFor, PendingFor
  <2>6. \A b : PendingFor(b)' <=> PendingFor(b)
    BY <2>1 DEF PendingFor, BookOf
  <2>7. LayoutInv'
    BY <2>1, <2>2, <2>3, <2>5, <2>6 DEF LayoutInv, BookOf
  <2>8. ChoiceKept'
    BY <2>1 DEF ChoiceKept, BookOf
  <2> QED BY <2>7, <2>8
<1>8. ASSUME \/ \E p : navigateTo(p) \/ Finish \/ dismissFinished \/ flushProgress \/ Hide
             \/ (\E b : NextAnswered(b)) \/ \E b, s : init(b, s)
             \/ \E o : OpenFails(o) \/ ManifestLoaded(o)
             \/ UNCHANGED vars
      PROVE  UNCHANGED <<chosen, layout, prefs, prefsTimer, manifest>>
  BY <1>8 DEF navigateTo, Finish, dismissFinished, flushProgress, Hide, NextAnswered, init,
     OpenFails, ManifestLoaded, reader, timers, backend, history, vars
<1>9. CASE \E o \in Opens : PrefsLoaded(o)
  BY <1>7, <1>9
<1>10. CASE \A o \in Opens : ~PrefsLoaded(o)
  <2>1. RestoreKept
    BY <1>10, RestoresStay
  <2> QED BY <1>1, <1>2, <1>3, <1>4, <1>5, <1>6, <1>8, <1>10, <2>1, SessionSteps DEF OpenStep
<1> QED BY <1>9, <1>10

LEMMA SessionInvStep == SessionInv /\ [Next]_vars => SessionInv'
BY ShapeStep, OpensKept, ShownStep, HereStep, TurnStep, CachesStep, ChoiceStep DEF SessionInv

\* Leaving a book, by a link, the next issue, a failure or the app's end, loses neither the
\* place the reader had in it nor its caches (store.ts: teardownCurrent, dispose).
THEOREM NothingIsLeftBehind == Spec => []NothingLeftBehind
<1>1. Spec => []SessionInv
  BY SessionInit, SessionInvStep, PTL DEF Spec
<1>2. SessionInv => NothingLeftBehind
  BY DEF SessionInv, NothingLeftBehind
<1> QED BY <1>1, <1>2, PTL

\* A layout chosen for a book is saved for it or about to be, until the book is left with
\* the choice unsaved (store.ts: setLayout, the debounced settings save, loadBook).
THEOREM ChoicesAreKept == Spec => []ChoiceKept
<1>1. Spec => []SessionInv
  BY SessionInit, SessionInvStep, PTL DEF Spec
<1>2. SessionInv => ChoiceKept
  BY DEF SessionInv
<1> QED BY <1>1, <1>2, PTL
=============================================================================
