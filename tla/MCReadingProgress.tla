------------------------- MODULE MCReadingProgress -------------------------
(* Small instances: a two-page book whose calls take turns, its unreadable *)
(* copy, and a two-page book whose calls overlap and whose reads may fail. *)
EXTENDS ReadingProgress

CONSTANTS b1, b2, b3, c1, c2

MCPageCount == [b \in Books |-> IF b = b2 THEN 0 ELSE 2]

W(kind, b, page, status, sent) ==
  [kind |-> kind, book |-> b, page |-> page, status |-> status, sent |-> sent]

\* The reader's stamped saves (one clock runs ahead), the client's unstamped
\* write, and both marks.
Overlapping ==
  {<<W("upsert", b3, 5, "", t)>> : t \in {1, 9}} \cup {<<W("mark", b3, 0, "read", 0)>>}

\* Replays (one clock runs ahead), an unstamped write, marks, a contentHash item
\* for a book with a copy, a batch of two writes to one book, and an explicit status.
Turns ==
  {<<W("upsert", b1, p, "", 1)>> : p \in {0, 5}}
    \cup {<<W("upsert", b1, 5, "", t)>> : t \in {0, 9}}
    \cup {<<W("mark", b1, 0, s, 0)>> : s \in {"read", "unread"}}
    \cup {<<W("upsert", b1, 1, "", 2), W("upsert", b2, 1, "", 2)>>,
          <<W("upsert", b1, 0, "unread", 0), W("upsert", b1, -1, "in_progress", 1)>>}

MCRequests == Overlapping \cup Turns
============================================================================
