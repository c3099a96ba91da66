------------------------------- MODULE ProgressProofs -------------------------------
(***************************************************************************)
(* Theorems about ReadingProgress, for any books, requests, number of      *)
(* concurrent calls and bound of the clock, and about TrackerBoard, for    *)
(* any files and additions numbered within the hundred its keys allow, any *)
(* tracks and filters, number of concurrent calls and bound on clicks.     *)
(***************************************************************************)
EXTENDS ReadingProgress, TrackerBoard, FiniteSetTheorems, WellFoundedInduction, TLAPS

LEMMA HeadIsWrite ==
  ASSUME NEW s \in Seq(Writes), s # <<>>
  PROVE  /\ Head(s) \in Writes
         /\ Tail(s) \in Seq(Writes)
         /\ Len(s) # 1 => Tail(s) # <<>>
         /\ Head(s).book \in BooksOf(s)
         /\ BooksOf(Tail(s)) \subseteq BooksOf(s)
<1>1. Head(s) \in Writes /\ Tail(s) \in Seq(Writes)
  BY SMT
<1>2. Len(s) # 1 => Tail(s) # <<>>
  <2>1. Len(s) \in Nat /\ Len(s) # 0 /\ Len(Tail(s)) = Len(s) - 1
    BY SMT
  <2>2. Len(<<>>) = 0
    BY SMT
  <2>3. Tail(s) = <<>> => Len(Tail(s)) = 0
    BY <2>2, Zenon
  <2>4. QED
    BY <2>1, <2>3
<1>3. Len(s) \in Nat /\ Len(s) >= 1 /\ Head(s) = s[1]
  BY SMT
<1>4. \A i \in 1 .. Len(Tail(s)) : i + 1 \in 1 .. Len(s) /\ Tail(s)[i] = s[i + 1]
  BY <1>1, SMT
<1>5. Head(s).book \in BooksOf(s)
  BY <1>3 DEF BooksOf
<1>6. ASSUME NEW b \in BooksOf(Tail(s)) PROVE b \in BooksOf(s)
  <2>1. PICK i \in 1 .. Len(Tail(s)) : b = Tail(s)[i].book
    BY DEF BooksOf
  <2>2. i + 1 \in 1 .. Len(s) /\ b = s[i + 1].book
    BY <2>1, <1>4
  <2>3. QED
    BY <2>2 DEF BooksOf
<1>7. QED
  BY <1>1, <1>2, <1>5, <1>6

LEMMA NoRowIsRow == NoRow \in Rows
BY DEF NoRow, Rows, Statuses

LEMMA UpsertedType ==
  ASSUME ProgressAssumption, NEW w \in Writes, NEW o \in Rows, NEW t \in Nat \ {0}
  PROVE  Upserted(w, o, t) \in Rows /\ Marked(w, t) \in Rows
<1>a. w.book \in Books /\ w.page \in Int
  BY DEF Writes
<1>1. LastIndex(w.book) \in Nat
  <2>1. PageCount[w.book] \in Nat
    BY <1>a DEF ProgressAssumption
  <2>2. QED
    BY <2>1 DEF LastIndex
<1>2. Clamp(w.page, LastIndex(w.book)) \in Nat
  BY <1>a, <1>1 DEF Clamp
<1>3. QED
  BY <1>1, <1>2 DEF Upserted, Marked, StampOf, DeriveStatus, Rows, Writes, Statuses

\* The type invariant: every row, stored, read or about to be stored, is a
\* progress row, and a call at work has a write in hand.
THEOREM TypeCorrect == ASSUME ProgressAssumption PROVE Spec => []TypeOK
<1>1. Init => TypeOK
  BY NoRowIsRow DEF Init, TypeOK
<1>2. TypeOK /\ [Next]_vars => TypeOK'
  <2> SUFFICES ASSUME TypeOK, [Next]_vars PROVE TypeOK'
    OBVIOUS
  <2>a. \A c \in Calls : pc[c] # "idle" =>
          Head(todo[c]) \in Writes /\ Tail(todo[c]) \in Seq(Writes)
            /\ (Len(todo[c]) # 1 => Tail(todo[c]) # <<>>)
    BY HeadIsWrite DEF TypeOK
  <2>n. ASSUME NEW c \in Calls, pc[c] # "idle", NextItem(c)
        PROVE  /\ todo' \in [Calls -> Seq(Writes)]
               /\ pc' \in [Calls -> {"idle", "look", "stamp", "store", "tell"}]
               /\ old' \in [Calls -> Rows] /\ new' \in [Calls -> Rows]
               /\ \A d \in Calls : pc'[d] # "idle" => todo'[d] # <<>>
    BY <2>n, <2>a, NoRowIsRow DEF NextItem, TypeOK
  <2>1. CASE Tick
    BY <2>1 DEF Tick, TypeOK
  <2>2. ASSUME NEW c \in Calls, NEW r \in Requests, Begin(c, r) PROVE TypeOK'
    BY <2>2 DEF Begin, TypeOK, ProgressAssumption
  <2>3. ASSUME NEW c \in Calls, Look(c) PROVE TypeOK'
    <3>1. row[Head(todo[c]).book] \in Rows \/ Head(todo[c]).kind = "mark"
      BY <2>a, <2>3 DEF Look, TypeOK, Writes
    <3>2. old' \in [Calls -> Rows]
      BY <3>1, NoRowIsRow, <2>3, <2>a DEF Look, TypeOK
    <3>3. QED
      BY <3>2, <2>3 DEF Look, TypeOK
  <2>4. ASSUME NEW c \in Calls, Stamp(c) PROVE TypeOK'
    <3>1. Head(todo[c]) \in Writes /\ old[c] \in Rows /\ now \in Nat \ {0}
      BY <2>4, <2>a DEF Stamp, TypeOK
    <3>2. new' \in [Calls -> Rows]
      BY <3>1, <2>4, UpsertedType DEF Stamp, TypeOK
    <3>3. QED
      BY <3>2, <2>4 DEF Stamp, TypeOK
  <2>5. ASSUME NEW c \in Calls, Reject(c) \/ Fail(c) PROVE TypeOK'
    <3>1. pc[c] # "idle" /\ NextItem(c) /\ UNCHANGED <<row, now, heard>>
      BY <2>5 DEF Reject, Fail
    <3>2. QED
      BY <3>1, <2>n DEF TypeOK
  <2>6. ASSUME NEW c \in Calls, Store(c) PROVE TypeOK'
    <3>1. new[c] \in Rows
      BY DEF TypeOK
    <3>2. QED
      BY <3>1, <2>6 DEF Store, TypeOK
  <2>7. ASSUME NEW c \in Calls, Tell(c) PROVE TypeOK'
    <3>1. pc[c] # "idle" /\ NextItem(c) /\ UNCHANGED <<row, now>> /\ new[c] \in Rows
      BY <2>7 DEF Tell, TypeOK
    <3>2. heard' \in [Books -> Rows]
      BY <3>1, <2>7 DEF Tell, TypeOK
    <3>3. QED
      BY <3>1, <3>2, <2>n DEF TypeOK
  <2>8. CASE UNCHANGED vars
    BY <2>8 DEF vars, TypeOK
  <2>9. QED
    BY <2>1, <2>2, <2>3, <2>4, <2>5, <2>6, <2>7, <2>8 DEF Next, CallStep
<1>3. QED
  BY <1>1, <1>2, PTL DEF Spec

-----------------------------------------------------------------------------
(* Timestamps.                                                             *)

\* Every row in sight, stored, read or made, is well timed, and a row made of
\* another is not older than it.
CallInv ==
  \A c \in Calls :
    /\ WellTimed(old[c])
    /\ pc[c] \in {"store", "tell"} => WellTimed(new[c]) /\ new[c].at >= old[c].at

TimeInv == TimesOrdered /\ CallInv

LEMMA NoRowWellTimed == ASSUME TypeOK PROVE WellTimed(NoRow)
BY DEF WellTimed, NoRow, TypeOK

LEMMA MadeWellTimed ==
  ASSUME TypeOK, NEW w \in Writes, NEW o \in Rows, WellTimed(o)
  PROVE  /\ WellTimed(Marked(w, now)) /\ Marked(w, now).at >= o.at
         /\ w.kind = "upsert" /\ ~Stale(w, o) =>
              WellTimed(Upserted(w, o, now)) /\ Upserted(w, o, now).at >= o.at
<1>1. now \in Nat /\ now # 0
  BY DEF TypeOK
<1>2. o.at \in Nat /\ o.started \in Nat /\ o.finished \in Nat
  BY DEF Rows
<1>3. WellTimed(Marked(w, now)) /\ Marked(w, now).at >= o.at
  BY <1>1, <1>2 DEF Marked, WellTimed
<1>4. ASSUME ~Stale(w, o)
      PROVE  WellTimed(Upserted(w, o, now)) /\ Upserted(w, o, now).at >= o.at
  <2> DEFINE at == StampOf(w, now)
             r == Upserted(w, o, now)
  <2>1. at \in Nat /\ at # 0 /\ at <= now /\ at >= o.at
    <3>1. w.sent \in Nat
      BY DEF Writes
    <3>2. QED
      BY <3>1, <1>1, <1>2, <1>4 DEF StampOf, Stale, WellTimed
  <2>2. /\ r.at = at
        /\ r.started = IF o.started = 0 /\ r.status # "unread" THEN at ELSE o.started
        /\ r.finished = IF r.status # "read" THEN 0
                        ELSE IF o.finished = 0 THEN at ELSE o.finished
    BY DEF Upserted
  <2>3. r.status \in {"unread", "in_progress", "read"}
    BY DEF Upserted, DeriveStatus, Writes, Statuses
  <2>4. QED
    BY <2>1, <2>2, <2>3, <1>1, <1>2 DEF WellTimed
<1>5. QED
  BY <1>3, <1>4

LEMMA TimeInvInit == Init => TimeInv
<1>1. now = 1 => WellTimed(NoRow)
  BY DEF WellTimed, NoRow
<1>2. Init => (\A b \in Books : row[b] = NoRow) /\ (\A c \in Calls : old[c] = NoRow /\ pc[c] = "idle") /\ now = 1
  BY DEF Init
<1>3. QED
  BY <1>1, <1>2 DEF TimeInv, TimesOrdered, CallInv

LEMMA TimeInvStep ==
  ASSUME ProgressAssumption, TypeOK, TypeOK', TimeInv, [Next]_vars
  PROVE  TimeInv'
<1> USE DEF TimeInv
<1>a. \A c \in Calls : pc[c] # "idle" => Head(todo[c]) \in Writes
  BY HeadIsWrite DEF TypeOK
<1>n. ASSUME NEW c \in Calls, NextItem(c), now' = now PROVE CallInv'
  BY <1>n, NoRowWellTimed DEF NextItem, CallInv, TypeOK, WellTimed
<1>1. CASE Tick
  <2>1. \A r \in Rows : WellTimed(r) => WellTimed(r)'
    <3> SUFFICES ASSUME NEW r \in Rows, WellTimed(r) PROVE WellTimed(r)'
      OBVIOUS
    <3>1. r.at \in Nat /\ now \in Nat /\ now' = now + 1 /\ r.at <= now
      BY <1>1 DEF Tick, WellTimed, TypeOK, Rows
    <3>2. r.at <= now'
      BY <3>1
    <3>3. QED
      BY <3>2 DEF WellTimed
  <2>2. QED
    BY <1>1, <2>1 DEF Tick, TimesOrdered, CallInv, TypeOK
<1>2. ASSUME NEW c \in Calls, NEW r \in Requests, Begin(c, r) PROVE TimeInv'
  BY <1>2 DEF Begin, TimesOrdered, CallInv, WellTimed, TypeOK
<1>3. ASSUME NEW c \in Calls, Look(c) PROVE TimeInv'
  <2>1. Head(todo[c]) \in Writes
    BY <1>a, <1>3 DEF Look
  <2>2. WellTimed(row[Head(todo[c]).book])
    BY <2>1 DEF TimesOrdered, Writes
  <2>3. \A d \in Calls : WellTimed(old'[d])
    BY <1>3, <2>2, NoRowWellTimed DEF Look, CallInv, TypeOK
  <2>4. QED
    BY <1>3, <2>3 DEF Look, TimesOrdered, CallInv, WellTimed, TypeOK
<1>4. ASSUME NEW c \in Calls, Stamp(c) PROVE TimeInv'
  <2>1. Head(todo[c]) \in Writes /\ old[c] \in Rows /\ WellTimed(old[c])
    BY <1>a, <1>4 DEF Stamp, TypeOK, CallInv
  <2>2. Head(todo[c]).kind \in {"upsert", "mark"}
    BY <2>1 DEF Writes
  <2>3. WellTimed(new'[c]) /\ new'[c].at >= old[c].at
    BY <1>4, <2>1, <2>2, MadeWellTimed DEF Stamp, TypeOK
  <2>4. QED
    BY <1>4, <2>3 DEF Stamp, TimesOrdered, CallInv, WellTimed, TypeOK
<1>5. ASSUME NEW c \in Calls, Reject(c) \/ Fail(c) PROVE TimeInv'
  BY <1>5, <1>n DEF Reject, Fail, TimesOrdered, WellTimed
<1>6. ASSUME NEW c \in Calls, Store(c) PROVE TimeInv'
  <2>1. WellTimed(new[c])
    BY <1>6 DEF Store, CallInv
  <2>2. TimesOrdered'
    BY <1>6, <2>1 DEF Store, TimesOrdered, WellTimed, TypeOK
  <2>3. CallInv'
    BY <1>6 DEF Store, CallInv, WellTimed, TypeOK
  <2>4. QED
    BY <2>2, <2>3
<1>7. ASSUME NEW c \in Calls, Tell(c) PROVE TimeInv'
  BY <1>7, <1>n DEF Tell, TimesOrdered, WellTimed
<1>8. CASE UNCHANGED vars
  BY <1>8 DEF vars, TimesOrdered, CallInv, WellTimed
<1>9. QED
  BY <1>1, <1>2, <1>3, <1>4, <1>5, <1>6, <1>7, <1>8 DEF Next, CallStep

LEMMA AlwaysTimed == ASSUME ProgressAssumption PROVE Spec => [](TypeOK /\ TimeInv)
<1>1. TypeOK /\ TypeOK' /\ TimeInv /\ [Next]_vars => TimeInv'
  BY TimeInvStep
<1>2. QED
  BY <1>1, TypeCorrect, TimeInvInit, PTL DEF Spec

\* The times of a row are in order under every interleaving, clock and failure.
THEOREM RowsWellTimed == ASSUME ProgressAssumption PROVE Spec => []TimesOrdered
BY AlwaysTimed, PTL DEF TimeInv

\* A newer row is only ever lost to a write that had not seen it.
THEOREM LossNeedsOverlap == ASSUME ProgressAssumption PROVE Spec => OlderOnlyOverUnseen
<1> DEFINE Loss == \A b \in Books : row'[b].at < row[b].at =>
                     \E c \in Calls : /\ pc[c] = "store"
                                      /\ Head(todo[c]).book = b
                                      /\ old[c] # row[b]
<1>1. TypeOK /\ TimeInv /\ [Next]_vars => [Loss]_vars
  <2> SUFFICES ASSUME TypeOK, TimeInv, Next, NEW b \in Books, row'[b].at < row[b].at
               PROVE  \E c \in Calls : /\ pc[c] = "store"
                                       /\ Head(todo[c]).book = b
                                       /\ old[c] # row[b]
    OBVIOUS
  <2>1. row'[b] # row[b]
    <3>1. row[b].at \in Nat
      BY DEF TypeOK, Rows
    <3>2. QED
      BY <3>1
  <2>2. PICK c \in Calls : Store(c)
    BY <2>1 DEF Next, CallStep, Tick, Begin, Look, Stamp, Reject, Tell, Fail
  <2>3. Head(todo[c]).book = b /\ row'[b] = new[c]
    BY <2>1, <2>2 DEF Store, TypeOK
  <2>4. new[c].at >= old[c].at /\ old[c].at \in Nat /\ new[c].at \in Nat
    BY <2>2 DEF TimeInv, CallInv, Store, TypeOK, Rows
  <2>5. QED
    BY <2>2, <2>3, <2>4 DEF Store
<1>2. QED
  BY <1>1, AlwaysTimed, PTL DEF Spec, OlderOnlyOverUnseen

-----------------------------------------------------------------------------
(* The books on which calls take turns, and whose reads succeed.           *)

BookOf(c) == Head(todo[c]).book

Exclusive ==
  \A c, d \in Calls :
    c # d /\ pc[c] # "idle" /\ pc[d] # "idle" => BooksOf(todo[c]) \cap BooksOf(todo[d]) \subseteq Loose

\* Nothing happened to the book since the call read it.
Seen ==
  \A c \in Calls : BookOf(c) \notin Loose =>
    /\ pc[c] = "stamp" /\ Head(todo[c]).kind = "upsert" => old[c] = row[BookOf(c)]
    /\ pc[c] = "store" => new[c].at >= row[BookOf(c)].at
    /\ pc[c] = "tell" => new[c] = row[BookOf(c)]

\* What is stored but not yet broadcast is some call's to broadcast.
Owed ==
  \A b \in Ruled : heard[b] = row[b] \/ \E c \in Calls : pc[c] = "tell" /\ BookOf(c) = b

TurnInv == Exclusive /\ Seen /\ Owed

LEMMA TurnInvInit == Init => TurnInv
BY DEF Init, TurnInv, Exclusive, Seen, Owed, Ruled

LEMMA OneAtABook ==
  ASSUME TypeOK, Exclusive, NEW c \in Calls, NEW d \in Calls, c # d,
         pc[c] # "idle", pc[d] # "idle", BookOf(c) \notin Loose
  PROVE  BookOf(c) # BookOf(d)
<1>1. BookOf(c) \in BooksOf(todo[c]) /\ BookOf(d) \in BooksOf(todo[d])
  BY HeadIsWrite DEF TypeOK, BookOf
<1>2. QED
  BY <1>1 DEF Exclusive

LEMMA ExclusiveStep ==
  ASSUME ProgressAssumption, TypeOK, Exclusive, [Next]_vars
  PROVE  Exclusive'
<1>n. ASSUME NEW c \in Calls, pc[c] # "idle", NextItem(c) PROVE Exclusive'
  <2>1. \A d \in Calls : pc'[d] # "idle" =>
          pc[d] # "idle" /\ BooksOf(todo'[d]) \subseteq BooksOf(todo[d])
    <3> SUFFICES ASSUME NEW d \in Calls, pc'[d] # "idle"
                 PROVE  pc[d] # "idle" /\ BooksOf(todo'[d]) \subseteq BooksOf(todo[d])
      OBVIOUS
    <3>1. BooksOf(Tail(todo[c])) \subseteq BooksOf(todo[c])
      BY <1>n, HeadIsWrite DEF TypeOK
    <3>2. /\ todo'[c] = Tail(todo[c])
          /\ d # c => todo'[d] = todo[d] /\ pc'[d] = pc[d]
      BY <1>n DEF NextItem, TypeOK
    <3>3. CASE d = c
      BY <1>n, <3>1, <3>2, <3>3
    <3>4. CASE d # c
      BY <3>2, <3>4
    <3>5. QED
      BY <3>3, <3>4
  <2>2. QED
    BY <2>1 DEF Exclusive
<1>1. ASSUME NEW c \in Calls, NEW r \in Requests, Begin(c, r) PROVE Exclusive'
  <2>1. \A d \in Calls : d # c /\ pc[d] # "idle" => BooksOf(todo[d]) \cap BooksOf(r) \subseteq Loose
    BY <1>1 DEF Begin, Busy
  <2>2. /\ todo'[c] = r
        /\ \A d \in Calls : d # c => todo'[d] = todo[d] /\ pc'[d] = pc[d]
    BY <1>1 DEF Begin, TypeOK
  <2>3. QED
    BY <2>1, <2>2 DEF Exclusive
<1>2. ASSUME NEW c \in Calls, CallStep(c) PROVE Exclusive'
  <2>1. CASE Look(c) \/ Stamp(c) \/ Store(c)
    <3>1. todo' = todo /\ \A d \in Calls : pc'[d] # "idle" => pc[d] # "idle"
      BY <2>1 DEF Look, Stamp, Store, TypeOK
    <3>2. QED
      BY <3>1 DEF Exclusive
  <2>2. CASE Reject(c) \/ Tell(c) \/ Fail(c)
    BY <2>2, <1>n DEF Reject, Tell, Fail
  <2>3. QED
    BY <1>2, <2>1, <2>2 DEF CallStep
<1>3. CASE Tick \/ UNCHANGED vars
  BY <1>3 DEF Tick, vars, Exclusive
<1>4. QED
  BY <1>1, <1>2, <1>3 DEF Next

LEMMA SeenStep ==
  ASSUME ProgressAssumption, TypeOK, TimeInv, Exclusive, Seen, [Next]_vars
  PROVE  Seen'
<1>n. ASSUME NEW c \in Calls, NextItem(c), row' = row PROVE Seen'
  BY <1>n DEF NextItem, TypeOK, Seen, BookOf
<1>1. ASSUME NEW c \in Calls, NEW r \in Requests, Begin(c, r) PROVE Seen'
  BY <1>1 DEF Begin, TypeOK, Seen, BookOf
<1>2. ASSUME NEW c \in Calls, Look(c) PROVE Seen'
  BY <1>2 DEF Look, TypeOK, Seen, BookOf
<1>3. ASSUME NEW c \in Calls, Stamp(c) PROVE Seen'
  <2>1. Head(todo[c]) \in Writes
    BY <1>3, HeadIsWrite DEF Stamp, TypeOK
  <2>2. BookOf(c) \in Books /\ Head(todo[c]).kind \in {"upsert", "mark"}
    BY <2>1 DEF Writes, BookOf
  <2>3. row[BookOf(c)] \in Rows /\ WellTimed(row[BookOf(c)]) /\ old[c] \in Rows /\ WellTimed(old[c])
    BY <2>2 DEF TypeOK, TimeInv, TimesOrdered, CallInv
  <2>4. ASSUME BookOf(c) \notin Loose PROVE new'[c].at >= row[BookOf(c)].at
    <3>1. CASE Head(todo[c]).kind = "mark"
      BY <3>1, <1>3, <2>1, <2>3, MadeWellTimed DEF Stamp, TypeOK
    <3>2. CASE Head(todo[c]).kind = "upsert"
      <4>1. old[c] = row[BookOf(c)]
        BY <3>2, <2>4, <1>3 DEF Stamp, Seen
      <4>2. QED
        BY <3>2, <4>1, <1>3, <2>1, <2>3, MadeWellTimed DEF Stamp, TypeOK
    <3>3. QED
      BY <2>2, <3>1, <3>2
  <2>5. QED
    BY <1>3, <2>4 DEF Stamp, TypeOK, Seen, BookOf
<1>4. ASSUME NEW c \in Calls, Store(c) PROVE Seen'
  <2>1. BookOf(c) \in Books
    BY <1>4, HeadIsWrite DEF Store, TypeOK, Writes, BookOf
  <2>2. \A d \in Calls :
          d # c /\ pc[d] # "idle" /\ BookOf(d) \notin Loose => row'[BookOf(d)] = row[BookOf(d)]
    <3>1. pc[c] # "idle"
      BY <1>4 DEF Store
    <3>2. \A d \in Calls :
            d # c /\ pc[d] # "idle" /\ BookOf(d) \notin Loose => BookOf(d) # BookOf(c)
      BY <3>1, OneAtABook
    <3>3. \A d \in Calls : pc[d] # "idle" => BookOf(d) \in Books
      BY HeadIsWrite DEF TypeOK, Writes, BookOf
    <3>4. \A b \in Books : b # BookOf(c) => row'[b] = row[b]
      BY <1>4 DEF Store, TypeOK, BookOf
    <3>5. QED
      BY <3>2, <3>3, <3>4
  <2>3. row'[BookOf(c)] = new[c] /\ BookOf(c)' = BookOf(c)
    BY <1>4, <2>1 DEF Store, TypeOK, BookOf
  <2>4. QED
    BY <1>4, <2>2, <2>3 DEF Store, TypeOK, Seen, BookOf
<1>5. ASSUME NEW c \in Calls, Reject(c) \/ Tell(c) \/ Fail(c) PROVE Seen'
  BY <1>5, <1>n DEF Reject, Tell, Fail
<1>6. CASE Tick \/ UNCHANGED vars
  BY <1>6 DEF Tick, vars, Seen, BookOf
<1>7. QED
  BY <1>1, <1>2, <1>3, <1>4, <1>5, <1>6 DEF Next, CallStep

LEMMA OwedStep ==
  ASSUME TypeOK, Seen, Owed, [Next]_vars
  PROVE  Owed'
<1>n. ASSUME NEW c \in Calls, pc[c] # "tell", NextItem(c), UNCHANGED <<row, heard>> PROVE Owed'
  BY <1>n DEF NextItem, TypeOK, Owed, BookOf
<1>1. ASSUME NEW c \in Calls, NEW r \in Requests, Begin(c, r) PROVE Owed'
  BY <1>1 DEF Begin, TypeOK, Owed, BookOf
<1>2. ASSUME NEW c \in Calls, Look(c) \/ Stamp(c) PROVE Owed'
  BY <1>2 DEF Look, Stamp, TypeOK, Owed, BookOf
<1>3. ASSUME NEW c \in Calls, Reject(c) \/ Fail(c) PROVE Owed'
  BY <1>3, <1>n DEF Reject, Fail
<1>4. ASSUME NEW c \in Calls, Store(c) PROVE Owed'
  BY <1>4 DEF Store, TypeOK, Owed, BookOf, Ruled
<1>5. ASSUME NEW c \in Calls, Tell(c) PROVE Owed'
  <2>1. BookOf(c) \notin Loose => new[c] = row[BookOf(c)]
    BY <1>5 DEF Tell, Seen
  <2>2. /\ row' = row
        /\ \A b \in Books : heard'[b] = IF b = BookOf(c) THEN new[c] ELSE heard[b]
        /\ \A d \in Calls : d # c => pc'[d] = pc[d] /\ todo'[d] = todo[d]
    BY <1>5 DEF Tell, NextItem, TypeOK, BookOf
  <2>3. QED
    BY <2>1, <2>2 DEF Owed, BookOf, Ruled
<1>6. CASE Tick \/ UNCHANGED vars
  BY <1>6 DEF Tick, vars, Owed, BookOf
<1>7. QED
  BY <1>1, <1>2, <1>3, <1>4, <1>5, <1>6 DEF Next, CallStep

LEMMA AlwaysInTurn ==
  ASSUME ProgressAssumption PROVE Spec => [](TypeOK /\ TimeInv /\ TurnInv)
<1>1. TypeOK /\ TimeInv /\ TurnInv /\ [Next]_vars => TurnInv'
  BY ExclusiveStep, SeenStep, OwedStep DEF TurnInv
<1>2. QED
  BY <1>1, AlwaysTimed, TurnInvInit, PTL DEF Spec

\* With no two calls at a book at a time, an older write never replaces a newer.
THEOREM NewestWins == ASSUME ProgressAssumption PROVE Spec => NewestKept
<1> DEFINE Newer == \A b \in Ruled : row'[b].at >= row[b].at
<1>1. TypeOK /\ TurnInv /\ [Next]_vars => [Newer]_vars
  <2> SUFFICES ASSUME TypeOK, TurnInv, Next, NEW b \in Ruled PROVE row'[b].at >= row[b].at
    OBVIOUS
  <2>1. row[b].at \in Nat /\ b \in Books /\ b \notin Loose
    BY DEF TypeOK, Rows, Ruled
  <2>2. CASE row'[b] = row[b]
    BY <2>1, <2>2
  <2>3. CASE row'[b] # row[b]
    <3>1. PICK c \in Calls : Store(c)
      BY <2>3 DEF Next, CallStep, Tick, Begin, Look, Stamp, Reject, Tell, Fail
    <3>2. BookOf(c) = b /\ row'[b] = new[c]
      BY <2>1, <2>3, <3>1 DEF Store, TypeOK, BookOf
    <3>3. QED
      BY <2>1, <3>1, <3>2 DEF Store, TurnInv, Seen
  <2>4. QED
    BY <2>2, <2>3
<1>2. QED
  BY <1>1, AlwaysInTurn, PTL DEF Spec, NewestKept

\* What clients last heard of a book nobody is writing is what is stored.
THEOREM LastEventIsStored == ASSUME ProgressAssumption PROVE Spec => []HeardIsStored
<1>1. TypeOK /\ TurnInv => HeardIsStored
  <2> SUFFICES ASSUME TypeOK, TurnInv, NEW b \in Ruled, ~Busy(b) PROVE heard[b] = row[b]
    BY DEF HeardIsStored
  <2>1. \A c \in Calls : pc[c] = "tell" => BookOf(c) \in BooksOf(todo[c])
    BY HeadIsWrite DEF TypeOK, BookOf
  <2>2. QED
    BY <2>1 DEF TurnInv, Owed, Busy
<1>2. QED
  BY <1>1, AlwaysInTurn, PTL

\* The rows refine the registers ADR-008 promises.
THEOREM RowsAreRegisters == ASSUME ProgressAssumption PROVE Spec => ImplementsLWW
<1> DEFINE reg == [b \in Ruled |-> row[b]]
<1>1. Init => LWW!LWWInit
  BY DEF Init, LWW!LWWInit, Ruled
<1>2. TypeOK /\ TypeOK' /\ TurnInv /\ [Next]_vars => [LWW!LWWNext]_reg
  <2> SUFFICES ASSUME TypeOK, TypeOK', TurnInv, Next, reg' # reg PROVE LWW!LWWNext
    BY DEF vars
  <2>1. PICK b \in Ruled : row'[b] # row[b]
    OBVIOUS
  <2>2. PICK c \in Calls : Store(c)
    BY <2>1 DEF Next, CallStep, Tick, Begin, Look, Stamp, Reject, Tell, Fail
  <2>3. BookOf(c) \in Books
    BY <2>2, HeadIsWrite DEF Store, TypeOK, Writes, BookOf
  <2>4. row' = [row EXCEPT ![BookOf(c)] = new[c]]
    BY <2>2 DEF Store, BookOf
  <2>5. BookOf(c) = b /\ b \in Books /\ b \notin Loose
    BY <2>1, <2>3, <2>4 DEF TypeOK, Ruled
  <2>6. reg' = [reg EXCEPT ![b] = new[c]] /\ reg'[b] = new[c] /\ reg[b] = row[b]
    BY <2>4, <2>5 DEF TypeOK, Ruled
  <2>7. new[c].at >= row[b].at /\ new[c] \in Rows
    BY <2>2, <2>5 DEF Store, TurnInv, Seen, TypeOK
  <2>8. QED
    BY <2>6, <2>7 DEF LWW!LWWNext, LWW!Put
<1>3. QED
  BY <1>1, <1>2, AlwaysInTurn, PTL DEF Spec, ImplementsLWW, LWW!LWWSpec

-----------------------------------------------------------------------------
(***************************************************************************)
(* The Tracker over those rows.                                            *)
(***************************************************************************)
States == {"read", "reading", "unread"}

\* An added issue is of the series or of a track there is.
ServerInv ==
  /\ DOMAIN catalog \subseteq Files /\ \A b \in DOMAIN catalog : catalog[b] \in Form
  /\ DOMAIN added \subseteq Additions /\ added = [o \in DOMAIN added |-> added[o]]
  /\ \A o \in DOMAIN added : added[o].row \in {"main"} \cup standalone /\ added[o].num \in Nat
  /\ standalone \subseteq Tracks
  /\ progress \in [Files \cup Additions -> States]

SlotsInv ==
  /\ calls = [c \in Slots |-> calls[c]]
  /\ \A c \in Slots : /\ calls[c].op = "add" => calls[c].num \in Nat
                      /\ calls[c].op = "create" => calls[c].num \in Nat
                      /\ calls[c].op = "mark" => calls[c].state \in {"read", "unread"}

\* Rows in which every issue is at a place of its own and no issue is twice.
Placed == {i \in Issue : \E n \in Nat : i.at = 100 * n + i.id}
Once(board) ==
  /\ \A r \in DOMAIN board : board[r] \subseteq Placed
  /\ \A r, s \in DOMAIN board : \A i \in board[r], j \in board[s] : i.id = j.id => r = s /\ i = j

BoardInv ==
  /\ DOMAIN shown \subseteq RowIds /\ shown = [r \in DOMAIN shown |-> shown[r]]
  /\ Once(shown)

\* The pointer is only over cells that are drawn.
PointerInv ==
  pointer.at = "cell" => pointer.row \in DOMAIN shown /\ Stack(pointer.row, pointer.base) # {}

ScreenTypes == filter \in Filter /\ scoped \in BOOLEAN /\ timer \in BOOLEAN /\ marks \in Nat

TrackerInv == ServerInv /\ SlotsInv /\ BoardInv /\ PointerInv /\ ScreenTypes

-----------------------------------------------------------------------------
(* Finite sets of issues, and the first and the last of them.              *)
LEMMA FilesAndAdditions ==
  /\ IsFiniteSet(Files \cup Additions) /\ Files \cap Additions = {}
  /\ Files \cup Additions \subseteq 1..99
<1>1. Files \cup Additions \subseteq 1..99 /\ Files \cap Additions = {}
  BY ConstantsAssumption
<1>2. 1 \in Int /\ 99 \in Int
  OBVIOUS
<1>3. IsFiniteSet(1..99)
  BY <1>2, FS_Interval, Zenon
<1> QED BY <1>1, <1>3, FS_Subset

\* Issues that differ in their ids are as many as these.
LEMMA OneEach ==
  ASSUME NEW S, \A i \in S : i.id \in Files \cup Additions, \A i, j \in S : i.id = j.id => i = j
  PROVE  IsFiniteSet(S) /\ Cardinality({i.id : i \in S}) = Cardinality(S)
<1> DEFINE T == {i.id : i \in S}
           f == [i \in S |-> i.id]
<1>1. f \in Injection(S, Files \cup Additions)
  BY DEF Injection, IsInjective
<1>2. IsFiniteSet(S)
  <2> HIDE DEF f
  <2> QED BY <1>1, FilesAndAdditions, FS_Injection
<1>3. f \in Bijection(S, T)
  BY DEF Bijection, Injection, Surjection, IsInjective
<1>4. ExistsBijection(S, T)
  BY <1>3 DEF ExistsBijection
<1> HIDE DEF T
<1>5. Cardinality(T) = Cardinality(S)
  BY <1>2, <1>4, FS_Bijection
<1> QED BY <1>2, <1>5 DEF T

LEMMA Smallest ==
  ASSUME NEW T, T \subseteq Nat, T # {}
  PROVE  \E n \in T : \A m \in T : n <= m
<1>1. PICK n \in T : \A m \in T : <<m, n>> \notin OpToRel(<, Nat)
  BY NatLessThanWellFounded, WFMin
<1>2. \A m \in T : ~(m < n)
  BY <1>1 DEF OpToRel
<1> QED BY <1>2

LEMMA FirstIs ==
  ASSUME NEW S, S \subseteq Issue, S # {}
  PROVE  First(S) \in S /\ \A j \in S : First(S).at <= j.at
<1> DEFINE P == {i.at : i \in S}
<1>1. P \subseteq Nat /\ P # {}
  BY DEF Issue
<1>2. PICK n \in P : \A m \in P : n <= m
  <2> HIDE DEF P
  <2> QED BY <1>1, Smallest
<1>3. \E i \in S : \A j \in S : i.at <= j.at
  BY <1>2
<1> QED BY <1>3 DEF First

\* The last is the one with the fewest above it.
LEMMA LastIs ==
  ASSUME NEW S, S \subseteq Issue, S # {}, IsFiniteSet(S)
  PROVE  Last(S) \in S /\ \A j \in S : j.at <= Last(S).at
<1> DEFINE Above(i) == {j \in S : i.at < j.at}
           P == {Cardinality(Above(i)) : i \in S}
<1>1. \A i \in S : IsFiniteSet(Above(i)) /\ Cardinality(Above(i)) \in Nat
  <2> TAKE i \in S
  <2>1. Above(i) \in SUBSET S
    OBVIOUS
  <2> HIDE DEF Above
  <2> QED BY <2>1, FS_Subset, FS_CardinalityType
<1>2. P \subseteq Nat /\ P # {}
  <2> HIDE DEF Above
  <2> QED BY <1>1
<1>3. PICK n \in P : \A m \in P : n <= m
  <2> HIDE DEF P
  <2> QED BY <1>2, Smallest
<1>4. PICK i \in S : \A j \in S : Cardinality(Above(i)) <= Cardinality(Above(j))
  <2> HIDE DEF Above
  <2> QED BY <1>3
<1>5. ASSUME NEW j \in S, i.at < j.at PROVE FALSE
  <2>1. Above(j) \in SUBSET Above(i) /\ j \in Above(i) /\ j \notin Above(j)
    BY <1>5 DEF Issue
  <2>2. Above(j) # Above(i)
    BY <2>1
  <2> HIDE DEF Above
  <2>3. Cardinality(Above(j)) <= Cardinality(Above(i)) /\ Cardinality(Above(i)) # Cardinality(Above(j))
    BY <1>1, <2>1, <2>2, FS_Subset
  <2> QED BY <1>1, <1>4, <2>3
<1>6. \A j \in S : j.at <= i.at
  BY <1>5 DEF Issue
<1> QED BY <1>6 DEF Last

-----------------------------------------------------------------------------
(* The server's rows.                                                      *)

\* Every issue of a row, by its id.
IdsOf(r) ==
  IF r = "main" THEN InRow("main") \cup {o \in DOMAIN added : added[o].row = "main" /\ ~Taken(o)}
  ELSE IF r = "annual" THEN InRow("annual") ELSE {o \in DOMAIN added : added[o].row = r}
IssueOf(r, x) ==
  IF r = "annual" THEN libraryIssue(x, localSpecialNumber(x))
  ELSE IF r = "main" /\ x \in Files THEN libraryIssue(x, catalog[x].sort) ELSE overlayIssue(x)

LEMMA RowOfIds ==
  ASSUME ServerInv, NEW r \in RowIds
  PROVE  RowOf(r) = {IssueOf(r, x) : x \in IdsOf(r)}
<1>1. ASSUME NEW x \in DOMAIN added PROVE x \notin Files
  BY FilesAndAdditions DEF ServerInv
<1>2. DOMAIN catalog \subseteq Files
  BY DEF ServerInv
<1>3. CASE r = "main"
  <2> DEFINE O == {o \in DOMAIN added : added[o].row = "main" /\ ~Taken(o)}
             L(b) == libraryIssue(b, catalog[b].sort)
  <2>1. RowOf(r) = {L(b) : b \in InRow("main")} \cup {overlayIssue(o) : o \in O}
    BY <1>3 DEF RowOf, Main
  <2>2. \A b \in InRow("main") : IssueOf(r, b) = L(b)
    BY <1>2, <1>3 DEF InRow, IssueOf
  <2>3. \A o \in O : IssueOf(r, o) = overlayIssue(o)
    BY <1>1, <1>3 DEF IssueOf
  <2>4. IdsOf(r) = InRow("main") \cup O
    BY <1>3 DEF IdsOf
  <2> HIDE DEF O, L
  <2> QED BY <2>1, <2>2, <2>3, <2>4
<1>4. CASE r = "annual"
  BY <1>4 DEF RowOf, Annual, IdsOf, IssueOf
<1>5. CASE r \notin {"main", "annual"}
  BY <1>5 DEF RowOf, IdsOf, IssueOf
<1> QED BY <1>3, <1>4, <1>5

LEMMA IdsThere ==
  ASSUME ServerInv, NEW r \in RowIds, NEW x \in IdsOf(r)
  PROVE  /\ x \in Files \cup Additions
         /\ \/ x \in DOMAIN catalog /\ catalog[x].row = r /\ r \in {"main", "annual"}
            \/ x \in DOMAIN added /\ added[x].row = r /\ r # "annual"
BY DEF ServerInv, IdsOf, InRow

LEMMA PlaceOfSpecial ==
  ASSUME ServerInv, NEW b \in InRow("annual")
  PROVE  localSpecialNumber(b) \in Nat
<1> DEFINE S == {c \in InRow("annual") : Key(c) <= Key(b)}
<1>1. b \in DOMAIN catalog /\ catalog[b] \in Form /\ catalog[b].number \in Nat
  BY DEF ServerInv, InRow, Form
<1>2. S \in SUBSET (Files \cup Additions)
  BY DEF ServerInv, InRow
<1> HIDE DEF S
<1>3. Cardinality(S) \in Nat
  BY <1>2, FilesAndAdditions, FS_Subset, FS_CardinalityType
<1>4. 2 * Cardinality(S) \in Nat
  BY <1>3
<1> QED BY <1>1, <1>4 DEF localSpecialNumber, S

LEMMA IssuePlaced ==
  ASSUME ServerInv, NEW r \in RowIds, NEW x \in IdsOf(r)
  PROVE  IssueOf(r, x) \in Placed /\ IssueOf(r, x).id = x
<1>1. x \in Files \cup Additions /\ x \in Nat /\ progress[x] \in States
  BY IdsThere, FilesAndAdditions DEF ServerInv
<1>2. ASSUME NEW num \in Nat, x \in DOMAIN catalog
      PROVE  libraryIssue(x, num) \in Placed /\ libraryIssue(x, num).id = x
  <2>1. catalog[x].sort \in Nat
    BY <1>2 DEF ServerInv, Form
  <2>2. Key(x) \in Nat /\ Key(x) = 100 * catalog[x].sort + x
    BY <1>1, <2>1 DEF Key
  <2>3. libraryIssue(x, num) \in Issue
    BY <1>1, <1>2, <2>2 DEF libraryIssue, Issue, States
  <2>4. libraryIssue(x, num).id = x /\ libraryIssue(x, num).at = Key(x)
    BY DEF libraryIssue
  <2> QED BY <2>1, <2>2, <2>3, <2>4 DEF Placed
<1>3. ASSUME x \in DOMAIN added
      PROVE  overlayIssue(x) \in Placed /\ overlayIssue(x).id = x
  <2>1. added[x].num \in Nat
    BY <1>3 DEF ServerInv
  <2>2. 100 * added[x].num + x \in Nat
    BY <1>1, <2>1
  <2>3. overlayIssue(x) \in Issue
    BY <1>1, <2>1, <2>2 DEF overlayIssue, Issue, States
  <2>4. overlayIssue(x).id = x /\ overlayIssue(x).at = 100 * added[x].num + x
    BY DEF overlayIssue
  <2> QED BY <2>1, <2>3, <2>4 DEF Placed
<1>4. CASE r = "annual"
  <2>1. x \in InRow("annual") /\ x \in DOMAIN catalog
    BY <1>4 DEF IdsOf, InRow
  <2>2. localSpecialNumber(x) \in Nat
    BY <2>1, PlaceOfSpecial
  <2> QED BY <1>2, <1>4, <2>1, <2>2 DEF IssueOf
<1>5. CASE r = "main" /\ x \in Files
  <2>1. x \notin DOMAIN added
    BY <1>5, FilesAndAdditions DEF ServerInv
  <2>2. x \in DOMAIN catalog /\ catalog[x].sort \in Nat
    BY <1>5, <2>1, IdsThere DEF ServerInv, Form
  <2>3. IssueOf(r, x) = libraryIssue(x, catalog[x].sort)
    BY <1>5 DEF IssueOf
  <2> QED BY <1>2, <2>2, <2>3
<1>6. CASE r # "annual" /\ ~(r = "main" /\ x \in Files)
  <2>1. x \in DOMAIN added
    BY <1>6, IdsThere DEF ServerInv
  <2>2. IssueOf(r, x) = overlayIssue(x)
    BY <1>6 DEF IssueOf
  <2> QED BY <1>3, <2>1, <2>2
<1> QED BY <1>4, <1>5, <1>6

\* No id is in two rows.
LEMMA IdsApart ==
  ASSUME ServerInv, NEW r \in RowIds, NEW s \in RowIds, r # s
  PROVE  IdsOf(r) \cap IdsOf(s) = {}
<1> SUFFICES ASSUME NEW x \in IdsOf(r), x \in IdsOf(s) PROVE FALSE
  OBVIOUS
<1>1. DOMAIN catalog \cap DOMAIN added = {}
  BY FilesAndAdditions DEF ServerInv
<1> QED BY <1>1, IdsThere

LEMMA TrackerRows ==
  ASSUME ServerInv
  PROVE  /\ DOMAIN Tracker \subseteq RowIds /\ Tracker = [r \in DOMAIN Tracker |-> Tracker[r]]
         /\ \A r \in DOMAIN Tracker : Tracker[r] = RowOf(r)
         /\ \A r \in RowIds : IdsOf(r) # {} => r \in DOMAIN Tracker
<1> DEFINE D == standalone \cup {s \in {"main", "annual"} : RowOf(s) # {}}
<1>1. Tracker = [r \in D |-> RowOf(r)]
  BY DEF Tracker
<1>2. D \subseteq RowIds
  BY DEF ServerInv, RowIds
<1>3. ASSUME NEW r \in RowIds, NEW x \in IdsOf(r) PROVE r \in D
  <2>1. RowOf(r) # {}
    BY RowOfIds
  <2>2. r \in {"main", "annual"} \/ r \in standalone
    BY IdsThere DEF ServerInv
  <2> QED BY <2>1, <2>2
<1> HIDE DEF D
<1> QED BY <1>1, <1>2, <1>3

LEMMA TrackerOnce ==
  ASSUME ServerInv
  PROVE  Once(Tracker)
<1>1. ASSUME NEW r \in DOMAIN Tracker, NEW i \in Tracker[r]
      PROVE  r \in RowIds /\ i \in Placed /\ i.id \in IdsOf(r) /\ i = IssueOf(r, i.id)
  <2>1. r \in RowIds /\ i \in RowOf(r)
    BY <1>1, TrackerRows
  <2>2. PICK x \in IdsOf(r) : i = IssueOf(r, x)
    BY <2>1, RowOfIds
  <2> QED BY <2>1, <2>2, IssuePlaced
<1> HIDE DEF Tracker
<1>2. ASSUME NEW r \in DOMAIN Tracker, NEW s \in DOMAIN Tracker,
             NEW i \in Tracker[r], NEW j \in Tracker[s], i.id = j.id
      PROVE  r = s /\ i = j
  <2>1. r = s
    BY <1>1, <1>2, IdsApart
  <2> QED BY <1>1, <1>2, <2>1
<1> QED BY <1>1, <1>2 DEF Once

-----------------------------------------------------------------------------
(* Every step keeps the invariant: the server's side.                      *)
serverVars == <<catalog, added, standalone, progress, calls>>

LEMMA MarkKept ==
  ASSUME ServerInv, SlotsInv, NEW c \in Slots, MarkArrives(c)
  PROVE  ServerInv' /\ SlotsInv'
<1>1. calls[c].state \in States
  BY DEF SlotsInv, MarkArrives, States
<1>2. progress' \in [Files \cup Additions -> States]
  BY <1>1 DEF ServerInv, MarkArrives
<1>3. SlotsInv'
  BY DEF SlotsInv, MarkArrives, Idle
<1> QED BY <1>2, <1>3 DEF ServerInv, MarkArrives

LEMMA InsertKept ==
  ASSUME ServerInv, NEW r \in {"main"} \cup standalone, NEW n \in Nat, Insert(r, n),
         UNCHANGED <<catalog, standalone>>
  PROVE  ServerInv'
<1>1. CASE UNCHANGED <<added, progress>>
  BY <1>1 DEF ServerInv
<1>2. CASE \E o \in Additions \ DOMAIN added :
             /\ added' = [x \in DOMAIN added \cup {o} |->
                            IF x = o THEN [row |-> r, num |-> n] ELSE added[x]]
             /\ progress' = [progress EXCEPT ![o] = "unread"]
  <2>1. PICK o \in Additions \ DOMAIN added :
             /\ added' = [x \in DOMAIN added \cup {o} |->
                            IF x = o THEN [row |-> r, num |-> n] ELSE added[x]]
             /\ progress' = [progress EXCEPT ![o] = "unread"]
    BY <1>2
  <2>2. DOMAIN added' = DOMAIN added \cup {o} /\ added' = [x \in DOMAIN added' |-> added'[x]]
    BY <2>1
  <2>3. \A x \in DOMAIN added' : added'[x].row \in {"main"} \cup standalone /\ added'[x].num \in Nat
    BY <2>1, <2>2 DEF ServerInv
  <2>4. progress' \in [Files \cup Additions -> States]
    BY <2>1 DEF ServerInv, States
  <2> QED BY <2>2, <2>3, <2>4 DEF ServerInv
<1> QED BY <1>1, <1>2 DEF Insert

LEMMA AddKept ==
  ASSUME ServerInv, SlotsInv, NEW c \in Slots, AddTrackIssues(c)
  PROVE  ServerInv' /\ SlotsInv'
<1>1. calls[c].op = "add" /\ calls' = [calls EXCEPT ![c] = Idle]
  BY DEF AddTrackIssues
<1>2. UNCHANGED <<catalog, standalone>>
  BY DEF AddTrackIssues
<1>3. calls[c].num \in Nat
  BY <1>1 DEF SlotsInv
<1>4. SlotsInv'
  BY <1>1 DEF SlotsInv, Idle
<1>5. CASE Exists(calls[c].row)
  <2>1. calls[c].row \in {"main"} \cup standalone
    BY <1>5 DEF Exists
  <2>2. Insert(calls[c].row, calls[c].num)
    BY <1>5, Zenon DEF AddTrackIssues
  <2> QED BY <1>2, <1>3, <1>4, <2>1, <2>2, InsertKept, Zenon
<1>6. CASE ~Exists(calls[c].row)
  <2>1. UNCHANGED <<added, progress>>
    BY <1>6, Zenon DEF AddTrackIssues
  <2> QED BY <1>2, <1>4, <2>1 DEF ServerInv
<1> QED BY <1>5, <1>6

LEMMA CreateKept ==
  ASSUME ServerInv, SlotsInv, NEW c \in Slots, CreateTrack(c)
  PROVE  ServerInv' /\ SlotsInv'
<1>1. PICK t \in Tracks \ standalone :
        /\ standalone' = standalone \cup {t}
        /\ calls' = [calls EXCEPT ![c] = [op |-> "add", row |-> t, num |-> calls[c].num, made |-> TRUE]]
  BY DEF CreateTrack
<1>2. ServerInv'
  BY <1>1 DEF ServerInv, CreateTrack
<1>3. calls[c].num \in Nat
  <2>1. calls[c].op = "create"
    BY DEF CreateTrack
  <2> QED BY <2>1 DEF SlotsInv
<1> DEFINE answer == [op |-> "add", row |-> t, num |-> calls[c].num, made |-> TRUE]
<1>4. answer.op = "add" /\ answer.num \in Nat
  BY <1>3
<1> HIDE DEF answer
<1>5. calls' = [calls EXCEPT ![c] = answer]
  BY <1>1 DEF answer
<1>6. SlotsInv'
  BY <1>4, <1>5 DEF SlotsInv
<1> QED BY <1>2, <1>6

LEMMA DeleteKept ==
  ASSUME ServerInv, SlotsInv, NEW c \in Slots, DeleteTrack(c)
  PROVE  ServerInv' /\ SlotsInv'
<1>1. added' = [o \in {x \in DOMAIN added : added[x].row # calls[c].row} |-> added[o]]
      /\ standalone' = standalone \ {calls[c].row} /\ UNCHANGED <<catalog, progress>>
  BY DEF DeleteTrack
<1>2. ServerInv'
  BY <1>1 DEF ServerInv
<1>3. SlotsInv'
  BY DEF SlotsInv, DeleteTrack, Idle
<1> QED BY <1>2, <1>3

LEMMA SendKept ==
  ASSUME SlotsInv, NEW call, Send(call),
         call.op = "add" => call.num \in Nat, call.op = "create" => call.num \in Nat,
         call.op = "mark" => call.state \in {"read", "unread"}
  PROVE  SlotsInv'
BY DEF SlotsInv, Send

LEMMA MarkSent ==
  ASSUME SlotsInv, NEW ids, NEW state \in {"read", "unread"}, Mark(ids, state)
  PROVE  SlotsInv'
<1> DEFINE call == [op |-> "mark", ids |-> ids, state |-> state]
<1>1. call.op = "mark" /\ call.state \in {"read", "unread"} /\ Send(call)
  BY DEF Mark
<1> HIDE DEF call
<1> QED BY <1>1, SendKept

LEMMA ToggleSent ==
  ASSUME SlotsInv, NEW r, NEW i, NEW shift \in BOOLEAN, onToggle(r, i, shift)
  PROVE  SlotsInv' /\ UNCHANGED server
<1>1. CASE MarkRun(r, i)
  <2>1. \E ids : \E state \in {"read", "unread"} : Mark(ids, state)
    BY <1>1 DEF MarkRun
  <2> QED BY <2>1, MarkSent DEF Mark
<1>2. CASE Toggle(r, i)
  <2>1. \E ids : \E state \in {"read", "unread"} : Mark(ids, state)
    BY <1>2 DEF Toggle
  <2> QED BY <2>1, MarkSent DEF Mark
<1> QED BY <1>1, <1>2 DEF onToggle

LEMMA ServerStep ==
  ASSUME ServerInv, SlotsInv, [TrackerNext]_trackerVars
  PROVE  ServerInv' /\ SlotsInv'
<1>1. CASE UNCHANGED serverVars
  BY <1>1 DEF ServerInv, SlotsInv, serverVars
<1>2. CASE Screen
  <2>1. CASE ClickCell \/ ClickPopover
    <3>1. \E r, i : \E shift \in BOOLEAN : onToggle(r, i, shift)
      BY <2>1 DEF ClickCell, ClickPopover
    <3> QED BY <3>1, ToggleSent DEF ServerInv, server
  <2>2. ASSUME NEW n \in Numbers, AddIssuePopover(n) PROVE ServerInv' /\ SlotsInv'
    <3> DEFINE call == [op |-> "add", row |-> IF dialog.row = "annual" THEN "main" ELSE dialog.row, num |-> n]
    <3>1. call.op = "add" /\ call.num \in Nat /\ Send(call)
      BY <2>2, ConstantsAssumption DEF AddIssuePopover
    <3> HIDE DEF call
    <3>2. SlotsInv'
      BY <3>1, SendKept
    <3> QED BY <2>2, <3>2 DEF AddIssuePopover, ServerInv, server
  <2>3. ASSUME NEW n \in Numbers, AddSeriesDialog(n) PROVE ServerInv' /\ SlotsInv'
    <3> DEFINE call == [op |-> "create", num |-> n]
    <3>1. call.op = "create" /\ call.num \in Nat
      BY <2>3, ConstantsAssumption
    <3>2. Send(call) \/ UNCHANGED calls
      BY <2>3 DEF AddSeriesDialog
    <3> HIDE DEF call
    <3>3. SlotsInv'
      BY <3>1, <3>2, SendKept DEF SlotsInv
    <3> QED BY <2>3, <3>3 DEF AddSeriesDialog, ServerInv, server
  <2>4. ASSUME NEW t \in RowIds, EditTrackSheet(t) PROVE ServerInv' /\ SlotsInv'
    <3> DEFINE call == [op |-> "delete", row |-> t]
    <3>1. call.op = "delete"
      OBVIOUS
    <3>2. Send(call) \/ UNCHANGED calls
      BY <2>4 DEF EditTrackSheet
    <3> HIDE DEF call
    <3>3. SlotsInv'
      BY <3>1, <3>2, SendKept DEF SlotsInv
    <3> QED BY <2>4, <3>3 DEF EditTrackSheet, ServerInv, server
  <2>5. CASE Refetch \/ ScopeLoads \/ clearFilters \/ TimerFires \/ onClose
             \/ (\E f \in Filters : Toolbar(f)) \/ (\E p \in Places : MoveTo(p))
             \/ \E r \in RowIds : setAddFor(r)
    BY <1>1, <2>5 DEF Refetch, ScopeLoads, clearFilters, TimerFires, onClose, Toolbar, MoveTo,
                      setAddFor, serverVars, server
  <2> QED BY <1>2, <2>1, <2>2, <2>3, <2>4, <2>5 DEF Screen
<1>3. ASSUME NEW c \in Slots, Lose(c) PROVE ServerInv' /\ SlotsInv'
  <2>1. SlotsInv'
    BY <1>3 DEF SlotsInv, Lose, Idle
  <2> QED BY <1>3, <2>1 DEF ServerInv, Lose, server
<1>4. CASE World
  <2>1. SlotsInv' /\ UNCHANGED standalone
    BY <1>4 DEF World, BookEdited, BookLeaves, BookArrives, RemoveTrackIssue, ReadElsewhere,
                Elsewhere, SlotsInv
  <2>2. ASSUME NEW b \in Files, BookEdited(b) PROVE ServerInv'
    <3>1. PICK f \in Forms[b] : catalog' = [catalog EXCEPT ![b] = f]
      BY <2>2 DEF BookEdited
    <3>2. f \in Form
      BY ConstantsAssumption
    <3> QED BY <2>1, <2>2, <3>1, <3>2 DEF BookEdited, ServerInv
  <2>3. ASSUME NEW b \in Files, BookLeaves(b) PROVE ServerInv'
    <3>1. progress' \in [Files \cup Additions -> States]
      BY <2>3 DEF BookLeaves, ServerInv, States
    <3> QED BY <2>1, <2>3, <3>1 DEF BookLeaves, ServerInv
  <2>4. ASSUME NEW b \in Files, BookArrives(b) PROVE ServerInv'
    <3>1. PICK f \in Forms[b] :
            catalog' = [x \in DOMAIN catalog \cup {b} |-> IF x = b THEN f ELSE catalog[x]]
      BY <2>4 DEF BookArrives
    <3>2. f \in Form
      BY ConstantsAssumption
    <3>3. DOMAIN catalog' \subseteq Files /\ \A x \in DOMAIN catalog' : catalog'[x] \in Form
      BY <3>1, <3>2 DEF ServerInv
    <3> QED BY <2>1, <2>4, <3>3 DEF BookArrives, ServerInv
  <2>5. ASSUME NEW o \in Additions, RemoveTrackIssue(o) PROVE ServerInv'
    BY <2>1, <2>5 DEF RemoveTrackIssue, ServerInv
  <2>6. ASSUME NEW i \in Files \cup Additions, NEW s \in States, ReadElsewhere(i, s) PROVE ServerInv'
    BY <2>1, <2>6 DEF ReadElsewhere, ServerInv
  <2> QED BY <1>4, <2>1, <2>2, <2>3, <2>4, <2>5, <2>6 DEF World, States
<1>5. CASE Handlers
  BY <1>3, <1>5, MarkKept, AddKept, CreateKept, DeleteKept DEF Handlers
<1>6. CASE UNCHANGED trackerVars
  BY <1>1, <1>6 DEF trackerVars, serverVars
<1> QED BY <1>2, <1>4, <1>5, <1>6 DEF TrackerNext

-----------------------------------------------------------------------------
(* The screen's side.                                                      *)
LEMMA OptimisticOnce ==
  ASSUME BoardInv, NEW ids, NEW state \in {"read", "unread"}, optimisticMark(ids, state)
  PROVE  BoardInv' /\ DOMAIN shown' = DOMAIN shown
<1> DEFINE M(i) == IF i.id \in ids THEN [i EXCEPT !.state = state] ELSE i
<1>1. ASSUME NEW i \in Placed PROVE M(i) \in Placed /\ M(i).id = i.id
  BY DEF Placed, Issue
<1> HIDE DEF M
<1>2. shown' = [r \in DOMAIN shown |-> {M(i) : i \in shown[r]}]
  BY DEF optimisticMark, M
<1>3. \A r \in DOMAIN shown : shown'[r] \subseteq Placed
  BY <1>1, <1>2 DEF BoardInv, Once
<1>4. ASSUME NEW r \in DOMAIN shown, NEW s \in DOMAIN shown,
             NEW i \in shown'[r], NEW j \in shown'[s], i.id = j.id
      PROVE  r = s /\ i = j
  <2>1. PICK k \in shown[r] : i = M(k)
    BY <1>2
  <2>2. PICK l \in shown[s] : j = M(l)
    BY <1>2
  <2>3. k.id = l.id
    BY <1>1, <1>4, <2>1, <2>2 DEF BoardInv, Once
  <2> QED BY <2>1, <2>2, <2>3 DEF BoardInv, Once
<1>5. DOMAIN shown' = DOMAIN shown
  BY <1>2
<1>6. Once(shown)'
  BY <1>3, <1>4, <1>5 DEF Once
<1> QED BY <1>2, <1>5, <1>6 DEF BoardInv

LEMMA BoardStep ==
  ASSUME ServerInv, BoardInv, [TrackerNext]_trackerVars
  PROVE  BoardInv'
<1>1. CASE UNCHANGED shown
  BY <1>1 DEF BoardInv, Once
<1>2. CASE Refetch
  <2>1. shown' = Tracker
    BY <1>2 DEF Refetch
  <2>2. DOMAIN Tracker \subseteq RowIds /\ Tracker = [r \in DOMAIN Tracker |-> Tracker[r]]
    BY TrackerRows
  <2>3. Once(Tracker)
    BY TrackerOnce
  <2> HIDE DEF Tracker
  <2> QED BY <2>1, <2>2, <2>3 DEF BoardInv, Once
<1>3. ASSUME NEW r, NEW i, NEW shift \in BOOLEAN, onToggle(r, i, shift) PROVE BoardInv'
  <2>1. \E ids : \E state \in {"read", "unread"} : Mark(ids, state)
    BY <1>3 DEF onToggle, MarkRun, Toggle
  <2>2. \E ids : \E state \in {"read", "unread"} : optimisticMark(ids, state)
    BY <2>1 DEF Mark
  <2> QED BY <2>2, OptimisticOnce
<1>4. CASE Screen
  <2>1. CASE ClickCell \/ ClickPopover
    <3>1. \E r, i : \E shift \in BOOLEAN : onToggle(r, i, shift)
      BY <2>1 DEF ClickCell, ClickPopover
    <3> QED BY <1>3, <3>1
  <2>2. CASE ScopeLoads \/ clearFilters \/ TimerFires \/ onClose
             \/ (\E f \in Filters : Toolbar(f)) \/ (\E p \in Places : MoveTo(p))
             \/ (\E n \in Numbers : AddIssuePopover(n) \/ AddSeriesDialog(n))
             \/ \E r \in RowIds : setAddFor(r) \/ EditTrackSheet(r)
    BY <1>1, <2>2 DEF ScopeLoads, clearFilters, TimerFires, onClose, Toolbar, MoveTo, setAddFor,
                      AddIssuePopover, AddSeriesDialog, EditTrackSheet, Quiet, Unseen
  <2> QED BY <1>2, <1>4, <2>1, <2>2 DEF Screen
<1>5. CASE Handlers \/ World
  BY <1>1, <1>5 DEF Handlers, MarkArrives, AddTrackIssues, CreateTrack, DeleteTrack, Lose, World,
                    BookEdited, BookLeaves, BookArrives, RemoveTrackIssue, ReadElsewhere,
                    Elsewhere, Quiet, Unseen
<1>6. CASE UNCHANGED trackerVars
  BY <1>1, <1>6 DEF trackerVars
<1> QED BY <1>4, <1>5, <1>6 DEF TrackerNext

\* A cell is drawn where there is an issue.
LEMMA CellHasIssue ==
  \A p \in Places : p.at = "cell" => p.row \in DOMAIN shown /\ Stack(p.row, p.base) # {}
<1> SUFFICES ASSUME NEW p \in Places, p.at = "cell"
             PROVE  p.row \in DOMAIN shown /\ Stack(p.row, p.base) # {}
  OBVIOUS
<1>1. Away.at = "away" /\ Bare.at = "bare" /\ InPopover.at = "popover"
      /\ \A r : Header(r).at = "header"
  BY DEF Away, Bare, Header, InPopover
<1> DEFINE H == {Header(r) : r \in Visible}
           C == UNION {{Cell(r, s) : s \in TrackRow(r)} : r \in Visible}
           P == IF Shows(hover) THEN {InPopover} ELSE {}
<1>2. p \in C
  <2>1. Places = {Away, Bare} \cup H \cup C \cup P
    BY DEF Places
  <2>2. (p \in H => p.at = "header") /\ (p \in P => p.at = "popover")
    <3>1. p \in H => p.at = "header"
      BY <1>1
    <3>2. p \in P => p.at = "popover"
      BY <1>1, Zenon
    <3> QED BY <3>1, <3>2
  <2> HIDE DEF H, C, P
  <2> QED BY <1>1, <2>1, <2>2
<1>3. PICK r \in Visible : p \in {Cell(r, s) : s \in TrackRow(r)}
  BY <1>2
<1>4. PICK s \in TrackRow(r) : p = Cell(r, s)
  BY <1>3
<1> QED BY <1>4 DEF Cell, TrackRow, Visible

LEMMA UnmountsKept ==
  ASSUME Unmounts
  PROVE  PointerInv'
<1>1. CASE pointer' \in Places'
  <2>1. (\A p \in Places : p.at = "cell" => p.row \in DOMAIN shown /\ Stack(p.row, p.base) # {})'
    BY CellHasIssue, PTL
  <2> QED BY <1>1, <2>1 DEF PointerInv
<1>2. CASE pointer' = Bare
  BY <1>2 DEF Bare, PointerInv
<1> QED BY <1>1, <1>2 DEF Unmounts

LEMMA PointerStep ==
  ASSUME PointerInv, [TrackerNext]_trackerVars
  PROVE  PointerInv'
<1>1. CASE UNCHANGED <<shown, pointer>>
  BY <1>1 DEF PointerInv, Stack
<1>2. CASE pointer' = Away
  BY <1>2 DEF PointerInv, Away
<1>3. ASSUME NEW r, NEW i, NEW shift \in BOOLEAN, onToggle(r, i, shift) PROVE PointerInv'
  <2>1. Unmounts
    BY <1>3 DEF onToggle, MarkRun, Toggle, Mark, Redrawn
  <2> QED BY <2>1, UnmountsKept
<1>4. CASE Screen
  <2>1. CASE ClickCell \/ ClickPopover
    <3>1. \E r, i : \E shift \in BOOLEAN : onToggle(r, i, shift)
      BY <2>1 DEF ClickCell, ClickPopover
    <3> QED BY <1>3, <3>1
  <2>2. CASE Refetch \/ ScopeLoads \/ clearFilters \/ TimerFires \/ \E f \in Filters : Toolbar(f)
    <3>1. Unmounts
      BY <2>2 DEF Refetch, ScopeLoads, clearFilters, TimerFires, Toolbar, Redrawn
    <3> QED BY <3>1, UnmountsKept
  <2>3. ASSUME NEW p \in Places, MoveTo(p) PROVE PointerInv'
    <3>1. pointer' = p /\ UNCHANGED shown
      BY <2>3 DEF MoveTo
    <3>2. p.at = "cell" => p.row \in DOMAIN shown /\ Stack(p.row, p.base) # {}
      BY CellHasIssue
    <3> QED BY <3>1, <3>2 DEF PointerInv, Stack
  <2>4. ASSUME NEW t \in RowIds, EditTrackSheet(t) PROVE PointerInv'
    BY <1>1, <1>2, <2>4 DEF EditTrackSheet, Covers, Unseen, mouse
  <2>5. CASE onClose \/ (\E n \in Numbers : AddIssuePopover(n) \/ AddSeriesDialog(n))
             \/ \E r \in RowIds : setAddFor(r)
    BY <1>1, <2>5 DEF onClose, setAddFor, AddIssuePopover, AddSeriesDialog, Quiet, Unseen, mouse
  <2> QED BY <1>4, <2>1, <2>2, <2>3, <2>4, <2>5 DEF Screen
<1>5. CASE Handlers \/ World
  BY <1>1, <1>5 DEF Handlers, MarkArrives, AddTrackIssues, CreateTrack, DeleteTrack, Lose, World,
                    BookEdited, BookLeaves, BookArrives, RemoveTrackIssue, ReadElsewhere,
                    Elsewhere, Quiet, Unseen, mouse
<1>6. CASE UNCHANGED trackerVars
  BY <1>1, <1>6 DEF trackerVars
<1> QED BY <1>4, <1>5, <1>6 DEF TrackerNext

LEMMA TypesStep ==
  ASSUME ScreenTypes, [TrackerNext]_trackerVars
  PROVE  ScreenTypes'
<1>1. CASE UNCHANGED <<filter, scoped, marks>> /\ timer' \in BOOLEAN
  BY <1>1 DEF ScreenTypes
<1>2. timer \in BOOLEAN /\ (hover # None) \in BOOLEAN
  BY DEF ScreenTypes
<1>3. ASSUME NEW f \in Filters \cup {NoFilter}, Toolbar(f) PROVE ScreenTypes'
  <2>1. f \in Filter
    <3>1. NoFilter \in Filter
      BY DEF NoFilter, Filter, Scopes, StatusFilters
    <3> QED BY <3>1, ConstantsAssumption
  <2> QED BY <1>3, <2>1 DEF Toolbar, Redrawn, ScreenTypes
<1>4. CASE Screen
  <2>1. CASE ClickCell \/ ClickPopover
    <3>1. UNCHANGED <<filter, scoped, timer>> /\ marks' = marks + 1
      BY <2>1 DEF ClickCell, ClickPopover, onToggle, MarkRun, Toggle, Mark, Redrawn
    <3> QED BY <3>1 DEF ScreenTypes
  <2>2. CASE Refetch \/ TimerFires \/ onClose
             \/ (\E n \in Numbers : AddIssuePopover(n) \/ AddSeriesDialog(n))
             \/ \E r \in RowIds : setAddFor(r)
    BY <1>1, <1>2, <2>2 DEF Refetch, TimerFires, onClose, Redrawn, setAddFor, AddIssuePopover,
                            AddSeriesDialog, Happens, Quiet, Unseen, mouse
  <2>3. CASE ScopeLoads
    BY <1>2, <2>3 DEF ScopeLoads, ScreenTypes, Redrawn
  <2>4. ASSUME NEW p \in Places, MoveTo(p) PROVE ScreenTypes'
    BY <1>1, <1>2, <2>4 DEF MoveTo, onHover, holdPopover, scheduleHide
  <2>5. ASSUME NEW t \in RowIds, EditTrackSheet(t) PROVE ScreenTypes'
    BY <1>1, <1>2, <2>5 DEF EditTrackSheet, Happens, Covers, scheduleHide, Unseen, mouse
  <2> QED BY <1>3, <1>4, <2>1, <2>2, <2>3, <2>4, <2>5 DEF Screen, clearFilters
<1>5. CASE Handlers \/ World
  BY <1>1, <1>2, <1>5 DEF Handlers, MarkArrives, AddTrackIssues, CreateTrack, DeleteTrack, Lose,
                          World, BookEdited, BookLeaves, BookArrives, RemoveTrackIssue,
                          ReadElsewhere, Elsewhere, Happens, Quiet, Unseen, mouse
<1>6. CASE UNCHANGED trackerVars
  BY <1>1, <1>2, <1>6 DEF trackerVars
<1> QED BY <1>4, <1>5, <1>6 DEF TrackerNext

LEMMA TrackerInitInv == TrackerInit => TrackerInv
<1> SUFFICES ASSUME TrackerInit PROVE TrackerInv
  OBVIOUS
<1>1. ServerInv
  <2>1. DOMAIN catalog \subseteq Files /\ \A b \in DOMAIN catalog : catalog[b] \in Form
    BY ConstantsAssumption DEF TrackerInit
  <2>2. DOMAIN added \subseteq Additions /\ added = [o \in DOMAIN added |-> added[o]]
        /\ \A o \in DOMAIN added : added[o].row = "main" /\ added[o].num \in Nat
    BY ConstantsAssumption DEF TrackerInit
  <2>3. progress \in [Files \cup Additions -> States] /\ standalone \subseteq Tracks
    BY ConstantsAssumption DEF TrackerInit, States
  <2> QED BY <2>1, <2>2, <2>3 DEF ServerInv
<1>2. SlotsInv
  BY DEF TrackerInit, SlotsInv, Idle
<1>3. BoardInv
  <2>1. shown = Tracker
    BY DEF TrackerInit
  <2> HIDE DEF Tracker
  <2> QED BY <1>1, <2>1, TrackerRows, TrackerOnce DEF BoardInv
<1>4. PointerInv
  BY DEF TrackerInit, PointerInv, Away
<1>5. ScreenTypes
  BY DEF TrackerInit, ScreenTypes, NoFilter, Filter, Scopes, StatusFilters
<1> QED BY <1>1, <1>2, <1>3, <1>4, <1>5 DEF TrackerInv

LEMMA TrackerInvariant == TrackerSpec => []TrackerInv
<1>1. TrackerInv /\ [TrackerNext]_trackerVars => TrackerInv'
  BY ServerStep, BoardStep, PointerStep, TypesStep DEF TrackerInv
<1> QED BY <1>1, TrackerInitInv, PTL DEF TrackerSpec

\* Type correctness.
THEOREM TrackerTyped == TrackerSpec => []TrackerTypes
<1>1. TrackerInv => TrackerTypes
  BY DEF TrackerInv, ServerInv, BoardInv, Once, Placed, ScreenTypes, TrackerTypes
<1> QED BY <1>1, TrackerInvariant, PTL

-----------------------------------------------------------------------------
(* Runs of cells.                                                          *)

\* A mark shows at once on every issue of the row that is marked.
LEMMA MarkShows ==
  ASSUME BoardInv, NEW ids, NEW state \in {"read", "unread"}, optimisticMark(ids, state),
         NEW r \in DOMAIN shown, NEW j \in shown[r], j.id \in ids
  PROVE  (\E k \in shown'[r] : k.id = j.id /\ k.state = "read") <=> state = "read"
<1> DEFINE M(i) == IF i.id \in ids THEN [i EXCEPT !.state = state] ELSE i
<1>1. ASSUME NEW i \in shown[r] PROVE M(i).id = i.id /\ (i.id \in ids => M(i).state = state)
  BY DEF BoardInv, Once, Placed, Issue
<1>2. shown'[r] = {M(i) : i \in shown[r]}
  BY DEF optimisticMark
<1> HIDE DEF M
<1>3. M(j) \in shown'[r]
  BY <1>2
<1> QED BY <1>1, <1>2, <1>3

\* Only clicks mark.
LEMMA ClicksMark ==
  ASSUME ScreenTypes, [TrackerNext]_trackerVars, marks' > marks, pointer.at = "cell"
  PROVE  ClickCell
<1>1. marks' # marks
  <2>1. ~(marks > marks)
    BY DEF ScreenTypes
  <2> SUFFICES ASSUME marks' = marks PROVE FALSE
    OBVIOUS
  <2> QED BY <2>1
<1>2. ~ClickPopover
  <2>1. ClickPopover => pointer = InPopover
    BY Zenon DEF ClickPopover
  <2>2. InPopover.at = "popover"
    BY DEF InPopover
  <2> QED BY <2>1, <2>2
<1>3. CASE Screen
  BY <1>1, <1>2, <1>3 DEF Screen, Refetch, ScopeLoads, clearFilters, Toolbar, TimerFires, MoveTo,
      onClose, AddIssuePopover, AddSeriesDialog, setAddFor, EditTrackSheet, Happens
<1>4. CASE Handlers \/ World
  BY <1>1, <1>4 DEF Handlers, MarkArrives, AddTrackIssues, CreateTrack, DeleteTrack, Lose,
      World, BookEdited, BookLeaves, BookArrives, RemoveTrackIssue, ReadElsewhere, Elsewhere, Happens
<1>5. CASE UNCHANGED trackerVars
  BY <1>1, <1>5 DEF trackerVars
<1> QED BY <1>3, <1>4, <1>5 DEF TrackerNext

\* The issue clicked is one of the cell's.
LEMMA CellIssueIs ==
  ASSUME BoardInv, PointerInv, pointer.at = "cell", pointer.row \in DOMAIN shown
  PROVE  IssueCell(Stack(pointer.row, pointer.base)) \in shown[pointer.row]
<1> DEFINE S == Stack(pointer.row, pointer.base)
           W == {i \in S : Whole(i)}
           T == IF W = {} THEN S ELSE W
<1>1. S # {} /\ S \subseteq shown[pointer.row] /\ shown[pointer.row] \subseteq Issue
  BY DEF PointerInv, Stack, BoardInv, Once, Placed
<1>2. T \subseteq S /\ T # {}
  BY <1>1
<1>3. IssueCell(S) = First(T)
  BY DEF IssueCell
<1> HIDE DEF S, T
<1>4. First(T) \in T
  BY <1>1, <1>2, FirstIs
<1> QED BY <1>1, <1>2, <1>3, <1>4 DEF S

\* The issue clicked and those between its number and the anchor's are marked.
LEMMA StretchMarked ==
  ASSUME BoardInv, NEW r \in DOMAIN shown, NEW i \in shown[r], NEW shift \in BOOLEAN,
         onToggle(r, i, shift), anchor # None, anchor.row = r, anchor' = anchor,
         Ascending(shown[r]),
         NEW a \in shown[r], NEW j \in shown[r], a.id = anchor.id,
         j = i \/ (a.num < j.num /\ j.num < i.num) \/ (i.num < j.num /\ j.num < a.num)
  PROVE  (\E k \in shown'[r] : k.id = j.id /\ k.state = "read") <=> ~anchor.wasRead
<1>1. \A x \in shown[r] : x.at \in Nat /\ x.num \in Nat
  BY DEF BoardInv, Once, Placed, Issue
<1>2. \A x, y \in shown[r] : x.id = y.id => x = y
  BY DEF BoardInv, Once
<1>3. CASE MarkRun(r, i)
  <2> DEFINE start == {x \in shown[r] : x.id = anchor.id}
             ids == {x.id : x \in Run(r, i)}
             state == IF anchor.wasRead THEN "unread" ELSE "read"
  <2>1. optimisticMark(ids, state) /\ state \in {"read", "unread"}
    BY <1>3 DEF MarkRun, Mark
  <2>2. a \in start
    OBVIOUS
  <2>3. \E k \in start \cup {i} : \E l \in start \cup {i} : k.at <= j.at /\ j.at <= l.at
    <3>1. CASE j = i
      BY <1>1, <3>1
    <3>2. CASE a.num < j.num /\ j.num < i.num
      <4>1. ~(j.at < a.at) /\ ~(i.at < j.at)
        BY <1>1, <3>2 DEF Ascending
      <4>2. a.at <= j.at /\ j.at <= i.at
        BY <1>1, <4>1
      <4> QED BY <2>2, <4>2
    <3>3. CASE i.num < j.num /\ j.num < a.num
      <4>1. ~(j.at < i.at) /\ ~(a.at < j.at)
        BY <1>1, <3>3 DEF Ascending
      <4>2. i.at <= j.at /\ j.at <= a.at
        BY <1>1, <4>1
      <4> QED BY <2>2, <4>2
    <3> QED BY <3>1, <3>2, <3>3
  <2>4. j \in Run(r, i)
    BY <2>3 DEF Run
  <2>5. j.id \in ids
    BY <2>4
  <2> HIDE DEF ids, state
  <2>6. (\E k \in shown'[r] : k.id = j.id /\ k.state = "read") <=> state = "read"
    BY <2>1, <2>5, MarkShows
  <2>7. state = "read" <=> ~anchor.wasRead
    BY DEF state
  <2> QED BY <2>6, <2>7
<1>4. CASE Toggle(r, i)
  <2> DEFINE state == IF i.state = "read" THEN "unread" ELSE "read"
  <2>1. anchor' = [row |-> r, id |-> i.id, wasRead |-> i.state = "read"]
    BY <1>4 DEF Toggle
  <2>2. anchor.id = i.id /\ anchor.wasRead = (i.state = "read")
    BY <2>1
  <2>3. a = i /\ j = i
    BY <1>1, <1>2, <2>2
  <2>4. optimisticMark({i.id}, state) /\ state \in {"read", "unread"}
    BY <1>4 DEF Toggle, Mark
  <2>5. state = "read" <=> ~anchor.wasRead
    BY <2>2
  <2> HIDE DEF state
  <2>6. (\E k \in shown'[r] : k.id = j.id /\ k.state = "read") <=> state = "read"
    BY <2>3, <2>4, MarkShows
  <2> QED BY <2>5, <2>6
<1> QED BY <1>3, <1>4 DEF onToggle

\* A run of cells marks what the row shows of the stretch.
THEOREM RunsMarkStretches == TrackerSpec => RunMarksTheStretch
<1>1. ASSUME TrackerInv, [TrackerNext]_trackerVars
      PROVE  (marks' > marks /\ anchor # None /\ anchor' = anchor /\ pointer.at = "cell") =>
        LET line == shown[anchor.row]
            i == IssueCell(Stack(pointer.row, pointer.base))
        IN  Ascending(line) =>
              \A a, j \in line :
                 /\ a.id = anchor.id
                 /\ j = i \/ (a.num < j.num /\ j.num < i.num) \/ (i.num < j.num /\ j.num < a.num)
                 => (\E k \in shown'[anchor.row] : k.id = j.id /\ k.state = "read") <=> ~anchor.wasRead
  <2> DEFINE r == pointer.row
             i == IssueCell(Stack(pointer.row, pointer.base))
  <2>1. SUFFICES ASSUME marks' > marks, anchor # None, anchor' = anchor, pointer.at = "cell",
                        Ascending(shown[anchor.row]),
                        NEW a \in shown[anchor.row], NEW j \in shown[anchor.row], a.id = anchor.id,
                        j = i \/ (a.num < j.num /\ j.num < i.num) \/ (i.num < j.num /\ j.num < a.num)
                 PROVE  (\E k \in shown'[anchor.row] : k.id = j.id /\ k.state = "read") <=> ~anchor.wasRead
    BY Zenon
  <2>2. ClickCell
    BY <2>1, <1>1, ClicksMark DEF TrackerInv
  <2>3. PICK shift \in BOOLEAN : onToggle(r, i, shift)
    BY <2>2 DEF ClickCell
  <2>4. r \in DOMAIN shown /\ i \in shown[r]
    BY <1>1, <2>1, CellIssueIs DEF TrackerInv, PointerInv
  <2> HIDE DEF i, r
  <2>5. anchor.row = r
    <3>1. CASE Toggle(r, i)
      <4>1. anchor' = [row |-> r, id |-> i.id, wasRead |-> i.state = "read"]
        BY <3>1 DEF Toggle
      <4> QED BY <2>1, <4>1
    <3> QED BY <2>3, <3>1 DEF onToggle
  <2> QED BY <1>1, <2>1, <2>3, <2>4, <2>5, StretchMarked DEF TrackerInv
<1> QED BY <1>1, TrackerInvariant, PTL DEF TrackerSpec, RunMarksTheStretch

-----------------------------------------------------------------------------
(* Every issue has a cell.                                                 *)

\* The server's half: the rows hold what they should, each once.
LEMMA RowsHoldAll ==
  ASSUME ServerInv
  PROVE  LET lines == Tracker
             In(r) == {i.id : i \in lines[r]}
         IN  /\ UNION {In(r) : r \in DOMAIN lines} =
                   {b \in DOMAIN catalog : catalog[b].row # "left out"}
                   \cup {o \in DOMAIN added : added[o].row = "main" => ~Taken(o)}
             /\ \A r, s \in DOMAIN lines : r # s => In(r) \cap In(s) = {}
             /\ \A r \in DOMAIN lines : Cardinality(In(r)) = Cardinality(lines[r])
<1> DEFINE In(r) == {i.id : i \in Tracker[r]}
           There == {b \in DOMAIN catalog : catalog[b].row # "left out"}
           Own == {o \in DOMAIN added : added[o].row = "main" => ~Taken(o)}
<1> HIDE DEF Tracker
<1>1. ASSUME NEW r \in DOMAIN Tracker PROVE r \in RowIds /\ In(r) = IdsOf(r)
  <2>1. r \in RowIds /\ Tracker[r] = {IssueOf(r, x) : x \in IdsOf(r)}
    BY TrackerRows, RowOfIds
  <2>2. \A x \in IdsOf(r) : IssueOf(r, x).id = x
    BY <2>1, IssuePlaced
  <2> QED BY <2>1, <2>2
<1>2. \A r, s \in DOMAIN Tracker : r # s => In(r) \cap In(s) = {}
  <2> HIDE DEF In
  <2> QED BY <1>1, IdsApart
<1>3. ASSUME NEW r \in DOMAIN Tracker PROVE Cardinality(In(r)) = Cardinality(Tracker[r])
  <2>1. \A i \in Tracker[r] : i.id \in Files \cup Additions
    BY <1>3, TrackerOnce DEF Once, Placed, Issue
  <2>2. \A i, j \in Tracker[r] : i.id = j.id => i = j
    BY <1>3, TrackerOnce DEF Once
  <2> QED BY <2>1, <2>2, OneEach
<1>4. ASSUME NEW r \in DOMAIN Tracker, NEW x \in In(r) PROVE x \in There \cup Own
  <2>1. r \in RowIds /\ x \in IdsOf(r) /\ "left out" \notin {"main", "annual"}
    BY <1>1, <1>4
  <2> QED BY <2>1, IdsThere DEF IdsOf, InRow
<1>5. ASSUME NEW x \in There PROVE \E r \in DOMAIN Tracker : x \in In(r)
  <2>1. catalog[x].row \in {"main", "annual"} /\ catalog[x].row \in RowIds
    BY <1>5 DEF ServerInv, Form, RowIds
  <2>2. x \in IdsOf(catalog[x].row)
    BY <1>5, <2>1 DEF IdsOf, InRow
  <2>3. catalog[x].row \in DOMAIN Tracker
    BY <2>1, <2>2, TrackerRows
  <2> HIDE DEF In
  <2> QED BY <1>1, <2>2, <2>3
<1>6. ASSUME NEW x \in Own PROVE \E r \in DOMAIN Tracker : x \in In(r)
  <2>1. added[x].row \in RowIds /\ added[x].row # "annual"
    BY <1>6, ConstantsAssumption DEF ServerInv, RowIds
  <2>2. x \in IdsOf(added[x].row)
    BY <1>6, <2>1 DEF IdsOf
  <2>3. added[x].row \in DOMAIN Tracker
    BY <2>1, <2>2, TrackerRows
  <2> HIDE DEF In
  <2> QED BY <1>1, <2>2, <2>3
<1> HIDE DEF In, There, Own
<1>7. UNION {In(r) : r \in DOMAIN Tracker} = There \cup Own
  BY <1>4, <1>5, <1>6
<1> QED BY <1>2, <1>3, <1>7 DEF In, There, Own

LEMMA OnePlace ==
  ASSUME NEW m \in Nat, NEW n \in Nat, NEW a \in 1..99, NEW b \in 1..99, 100 * m + a = 100 * n + b
  PROVE  a = b
OBVIOUS

\* The screen's half: every issue of a row that is shown is at or before the
\* column of its last.
LEMMA CellsDrawn ==
  ASSUME BoardInv, NEW r \in Visible, Ascending(shown[r])
  PROVE  UNION {Stack(r, s) : s \in TrackRow(r)} = shown[r]
<1>1. r \in DOMAIN shown
  BY DEF Visible
<1>2. shown[r] \subseteq Placed /\ shown[r] \subseteq Issue
      /\ \A i, j \in shown[r] : i.id = j.id => i = j
  BY <1>1 DEF BoardInv, Once, Placed
<1>3. IsFiniteSet(shown[r])
  <2>1. \A i \in shown[r] : i.id \in Files \cup Additions
    BY <1>2 DEF Issue
  <2> QED BY <1>2, <2>1, OneEach
<1>4. ASSUME NEW i \in shown[r] PROVE i \in UNION {Stack(r, s) : s \in TrackRow(r)}
  <2> DEFINE last == Last(shown[r])
  <2>1. last \in shown[r] /\ i.at <= last.at
    BY <1>2, <1>3, LastIs
  <2> HIDE DEF last
  <2>2. i.num \in Nat /\ last.num \in Nat /\ i.at \in Nat /\ last.at \in Nat
    BY <1>2, <2>1 DEF Issue
  <2>3. i.num <= last.num
    <3>1. CASE i.at < last.at
      BY <2>1, <3>1 DEF Ascending
    <3>2. CASE i.at = last.at
      <4>1. PICK m \in Nat, n \in Nat : i.at = 100 * m + i.id /\ last.at = 100 * n + last.id
        BY <1>2, <2>1 DEF Placed
      <4>2. i.id \in 1..99 /\ last.id \in 1..99
        BY <1>2, <2>1, FilesAndAdditions DEF Issue
      <4>3. i.id = last.id
        BY <3>2, <4>1, <4>2, OnePlace, Zenon
      <4> QED BY <1>2, <2>1, <2>2, <4>3
    <3> QED BY <2>1, <2>2, <3>1, <3>2
  <2>4. Base(i.num) <= Base(last.num)
    BY <2>2, <2>3 DEF Base
  <2>5. Base(i.num) <= lastBase(r)
    BY <2>1, <2>4 DEF lastBase, last
  <2>6. i \in Stack(r, Base(i.num)) /\ Base(i.num) \in ruler
    BY DEF Stack, ruler
  <2>7. Base(i.num) \in TrackRow(r)
    BY <2>5, <2>6 DEF TrackRow
  <2> QED BY <2>6, <2>7
<1> QED BY <1>4 DEF Stack

\* What the panel counts is what the rows hold.
LEMMA PanelCounts ==
  ASSUME BoardInv
  PROVE  SummaryPanel.sum.issues = Cardinality(UNION {shown[r] : r \in Visible})
<1> DEFINE U == UNION {shown[r] : r \in Visible}
           P == {p \in Visible \X U : p[2] \in shown[p[1]]}
           f == [p \in P |-> p[2]]
<1>1. \A r \in Visible : r \in DOMAIN shown
  BY DEF Visible
<1>2. \A i, j \in U : i.id = j.id => i = j
  BY <1>1 DEF BoardInv, Once
<1>3. \A i \in U : i.id \in Files \cup Additions
  BY <1>1 DEF BoardInv, Once, Placed, Issue
<1>4. IsFiniteSet(U)
  <2> HIDE DEF U
  <2> QED BY <1>2, <1>3, OneEach
<1>5. f \in [P -> U]
  OBVIOUS
<1>6. ASSUME NEW p \in P, NEW q \in P, f[p] = f[q] PROVE p = q
  <2>1. p = <<p[1], p[2]>> /\ q = <<q[1], q[2]>> /\ p[2] = q[2]
    BY <1>6
  <2>2. p[1] = q[1]
    BY <1>1, <2>1 DEF BoardInv, Once
  <2> QED BY <2>1, <2>2
<1>7. ASSUME NEW i \in U PROVE \E p \in P : f[p] = i
  <2>1. PICK r \in Visible : i \in shown[r]
    OBVIOUS
  <2>2. <<r, i>> \in P /\ f[<<r, i>>] = i
    BY <2>1
  <2> QED BY <2>2
<1>8. SummaryPanel.sum.issues = Cardinality(P)
  BY DEF SummaryPanel, sum
<1> HIDE DEF f, P, U
<1>9. f \in Injection(P, U) /\ f \in Surjection(P, U)
  BY <1>5, <1>6, <1>7 DEF Injection, IsInjective, Surjection
<1>10. Cardinality(P) = Cardinality(U)
  BY <1>4, <1>9, FS_Injection
<1> QED BY <1>8, <1>10 DEF U

\* Every issue has its place in a row, once, and a cell while the rows ascend.
THEOREM IssuesHaveCells == TrackerSpec => []EveryIssueHasACell
<1>1. TrackerInv => EveryIssueHasACell
  BY RowsHoldAll, CellsDrawn, PanelCounts DEF TrackerInv, EveryIssueHasACell
<1> QED BY <1>1, TrackerInvariant, PTL

=============================================================================
