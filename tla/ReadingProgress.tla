--------------------------- MODULE ReadingProgress ---------------------------
(***************************************************************************)
(* Writing one user's reading progress: the PUT, batch and mark handlers   *)
(* (transport/http/progress.go) over reading.Service (Upsert, Mark) and    *)
(* the unconditional upsert of sqlstore/progress.go.                       *)
(*                                                                         *)
(* Requests run concurrently, each on its own goroutine and connection,    *)
(* so reading the stored row, taking the time, storing the new row and     *)
(* broadcasting it are steps of their own.  Users do not share rows; the   *)
(* device label is left out.                                               *)
(***************************************************************************)
EXTENDS Integers, Sequences

CONSTANTS
  Books,
  PageCount,  \* book -> page_count column, 0 when the scanner could not open it
  Requests,   \* the sequences of writes a request may carry
  Calls,      \* the requests the server handles at a time
  MaxTime,    \* bound of the clock
  Loose       \* the books two calls may work on at a time, whose reads may fail;
              \* calls take turns on the others

Statuses == {"unread", "in_progress", "read"}

\* progressWriteReq, or a mark; sent is updatedAt, 0 when the client left it out.
Writes == [kind : {"upsert", "mark"}, book : Books, page : Int,
           status : Statuses \cup {""}, sent : Nat]

Rows == [page : Nat, status : Statuses \cup {""}, started : Nat, finished : Nat, at : Nat]

\* The zero domain.Progress that a Get without a row returns.
NoRow == [page |-> 0, status |-> "", started |-> 0, finished |-> 0, at |-> 0]

ASSUME ProgressAssumption ==
  /\ PageCount \in [Books -> Nat]
  /\ \A r \in Requests :
       /\ r \in Seq(Writes)
       /\ r # <<>>
       /\ \A i \in 1 .. Len(r) : r[i].kind = "mark" => r[i].status \in {"read", "unread"}
  /\ MaxTime \in Nat
  /\ Loose \subseteq Books

VARIABLES
  row,    \* book -> its row of read_progress
  now,    \* the server's clock
  pc,     \* call -> its next step, "idle" while it serves no request
  todo,   \* call -> the writes it has not finished
  old,    \* call -> the row its Upsert read
  new,    \* call -> the row it is about to store or has stored
  heard   \* book -> the row last broadcast on the progress topic

vars == <<row, now, pc, todo, old, new, heard>>

TypeOK ==
  /\ row \in [Books -> Rows]
  /\ now \in Nat \ {0}
  /\ pc \in [Calls -> {"idle", "look", "stamp", "store", "tell"}]
  /\ todo \in [Calls -> Seq(Writes)]
  /\ \A c \in Calls : pc[c] # "idle" => todo[c] # <<>>
  /\ old \in [Calls -> Rows]
  /\ new \in [Calls -> Rows]
  /\ heard \in [Books -> Rows]

Init ==
  /\ row = [b \in Books |-> NoRow]
  /\ now = 1
  /\ pc = [c \in Calls |-> "idle"]
  /\ todo = [c \in Calls |-> <<>>]
  /\ old = [c \in Calls |-> NoRow]
  /\ new = [c \in Calls |-> NoRow]
  /\ heard = row

-----------------------------------------------------------------------------
(* What a write makes of the row it found.                                 *)

LastIndex(b) == IF PageCount[b] = 0 THEN 0 ELSE PageCount[b] - 1

Clamp(p, hi) == IF p < 0 THEN 0 ELSE IF p > hi THEN hi ELSE p

DeriveStatus(b, p) ==
  IF PageCount[b] > 0 /\ p >= LastIndex(b) THEN "read" ELSE "in_progress"

NeverStale(w, o) == FALSE  \* mutation: the stale check dropped

Stale(w, o) == w.sent > 0 /\ o.at > w.sent

StampUnclamped(w, t) == IF w.sent = 0 THEN t ELSE w.sent  \* mutation: future clocks kept

\* Untimestamped writes and future clocks resolve to the server's time.
StampOf(w, t) == IF w.sent = 0 \/ w.sent > t THEN t ELSE w.sent

Upserted(w, o, t) ==
  LET page == Clamp(w.page, LastIndex(w.book))
      status == IF w.status = "" THEN DeriveStatus(w.book, page) ELSE w.status
      at == StampOf(w, t)
  IN [page |-> page,
      status |-> status,
      started |-> IF o.started = 0 /\ status # "unread" THEN at ELSE o.started,
      finished |-> IF status # "read" THEN 0
                   ELSE IF o.finished = 0 THEN at ELSE o.finished,
      at |-> at]

Marked(w, t) ==
  IF w.status = "read"
  THEN [page |-> LastIndex(w.book), status |-> "read", started |-> t, finished |-> t, at |-> t]
  ELSE [page |-> 0, status |-> "unread", started |-> 0, finished |-> 0, at |-> t]

-----------------------------------------------------------------------------
(* A call.                                                                 *)

BooksOf(s) == {s[i].book : i \in 1 .. Len(s)}

Busy(b) == \E c \in Calls : pc[c] # "idle" /\ b \in BooksOf(todo[c])

\* The batch loop: on to the next write, or the answer.
NextItem(c) ==
  /\ todo' = [todo EXCEPT ![c] = Tail(@)]
  /\ pc' = [pc EXCEPT ![c] = IF Len(todo[c]) = 1 THEN "idle" ELSE "look"]
  /\ old' = [old EXCEPT ![c] = NoRow]
  /\ new' = [new EXCEPT ![c] = NoRow]

\* A request arrives: one write (PUT, mark) or a batch, where a contentHash
\* item stands for one write to every copy of the book.
Begin(c, r) ==
  /\ pc[c] = "idle"
  /\ \A b \in BooksOf(r) \ Loose : ~Busy(b)
  /\ pc' = [pc EXCEPT ![c] = "look"]
  /\ todo' = [todo EXCEPT ![c] = r]
  /\ UNCHANGED <<row, now, old, new, heard>>

\* Upsert reads the stored row and ignores the error; Mark does not read.
Look(c) ==
  /\ pc[c] = "look"
  /\ pc' = [pc EXCEPT ![c] = "stamp"]
  /\ \/ /\ Head(todo[c]).kind = "upsert"
        /\ old' = [old EXCEPT ![c] = row[Head(todo[c]).book]]
     \/ /\ Head(todo[c]).kind = "mark" \/ Head(todo[c]).book \in Loose
        /\ old' = [old EXCEPT ![c] = NoRow]
  /\ UNCHANGED <<row, now, todo, new, heard>>

\* The time is taken after the row was read, and decides with it.
Stamp(c) ==
  LET w == Head(todo[c]) IN
  /\ pc[c] = "stamp"
  /\ ~(w.kind = "upsert" /\ Stale(w, old[c]))
  /\ new' = [new EXCEPT ![c] = IF w.kind = "mark" THEN Marked(w, now)
                               ELSE Upserted(w, old[c], now)]
  /\ pc' = [pc EXCEPT ![c] = "store"]
  /\ UNCHANGED <<row, now, todo, old, heard>>

\* ErrStaleWrite: the row it read is the answer.
Reject(c) ==
  /\ pc[c] = "stamp"
  /\ Head(todo[c]).kind = "upsert" /\ Stale(Head(todo[c]), old[c])
  /\ NextItem(c)
  /\ UNCHANGED <<row, now, heard>>

Store(c) ==
  /\ pc[c] = "store"
  /\ row' = [row EXCEPT ![Head(todo[c]).book] = new[c]]
  /\ pc' = [pc EXCEPT ![c] = "tell"]
  /\ UNCHANGED <<now, todo, old, new, heard>>

TellOld(c) ==  \* mutation: the row as it was before the write is broadcast
  /\ pc[c] = "tell"
  /\ heard' = [heard EXCEPT ![Head(todo[c]).book] = old[c]]
  /\ NextItem(c)
  /\ UNCHANGED <<row, now>>

Tell(c) ==
  /\ pc[c] = "tell"
  /\ heard' = [heard EXCEPT ![Head(todo[c]).book] = new[c]]
  /\ NextItem(c)
  /\ UNCHANGED <<row, now>>

\* The book is gone, or the database refuses: an error answer or item result.
Fail(c) ==
  /\ pc[c] \in {"look", "store"}
  /\ NextItem(c)
  /\ UNCHANGED <<row, now, heard>>

Tick ==
  /\ now < MaxTime
  /\ now' = now + 1
  /\ UNCHANGED <<row, pc, todo, old, new, heard>>

CallStep(c) ==
  Look(c) \/ Stamp(c) \/ Reject(c) \/ Store(c) \/ Tell(c) \/ Fail(c)

Next ==
  \/ Tick
  \/ \E c \in Calls : CallStep(c) \/ \E r \in Requests : Begin(c, r)

Spec == Init /\ [][Next]_vars

-----------------------------------------------------------------------------
(* Properties.                                                             *)

WellTimed(r) ==
  /\ r.started <= r.at
  /\ r.at <= now
  /\ r.finished # 0 <=> r.status = "read"
  /\ r.status \in {"in_progress", "read"} => r.started # 0
  /\ r.finished # 0 => r.started <= r.finished /\ r.finished <= r.at

\* However requests interleave and whatever clocks the devices have, a row says
\* that the reading began before it ended, that it ended if and only if the book
\* is read, and that none of it lies in the server's future: the statistics of
\* store/sqlstore/stats.go rely on it.
TimesOrdered == \A b \in Books : WellTimed(row[b])

\* An older row replaces a newer one only when the write never saw the newer
\* one: it was stored after the write's own read, or that read failed.
OlderOnlyOverUnseen ==
  [][\A b \in Books : row'[b].at < row[b].at =>
       \E c \in Calls : /\ pc[c] = "store"
                        /\ Head(todo[c]).book = b
                        /\ old[c] # row[b]]_vars

\* "A write older than the stored row is rejected as stale ... so no device can
\* clobber newer progress from another one" (service.go:50-54): on a book whose
\* calls take turns, no row is replaced by an older one.
Ruled == Books \ Loose
NewestKept == [][\A b \in Ruled : row'[b].at >= row[b].at]_vars

\* Once no call is at work on such a book, the last progress.updated event of the
\* book carries the row that is stored.
HeardIsStored == \A b \in Ruled : Busy(b) \/ heard[b] = row[b]

\* The rows of the books whose calls take turns are the registers of LastWriterWins.
LWW == INSTANCE LastWriterWins WITH
  Books <- Ruled, Blank <- NoRow, reg <- [b \in Ruled |-> row[b]]
ImplementsLWW == LWW!LWWSpec
=============================================================================
