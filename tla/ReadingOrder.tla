---------------------------- MODULE ReadingOrder ----------------------------
\* What a reading list promises its owner: entries in an order of their own,
\* each standing for an issue of the catalogue, for a collection, or keeping
\* the place of an issue that is not there.  Only a move reorders anything, and
\* only the entry it names; what is added comes last; an issue that leaves the
\* catalogue, or comes back, does so in the entry's own place.
CONSTANTS Books, Groups, Entries, None

VARIABLES
    entry,     \* the entries of the list: what each stands for
    ahead      \* <<x, y>> : x is read before y

Empty == [book |-> None, group |-> None]

TypeOK ==
    /\ DOMAIN entry \subseteq Entries
    /\ \A x \in DOMAIN entry :
          entry[x] \in [book : Books \cup {None}, group : Groups \cup {None}]
    /\ ahead \subseteq (DOMAIN entry) \X (DOMAIN entry)

Among(S) == {p \in ahead : p[1] \in S /\ p[2] \in S}

\* No issue and no collection has two entries.
Unique(e) ==
    \A x, y \in DOMAIN e : x # y /\ e[x] = e[y] => e[x] = Empty

Init == TypeOK /\ Unique(entry)

\* New entries, if any, follow all the old ones.
Append(old) ==
    /\ old \subseteq DOMAIN entry'
    /\ entry = [x \in old |-> entry'[x]]
    /\ ahead = {p \in ahead' : p[1] \in old /\ p[2] \in old}
    /\ old \X (DOMAIN entry' \ old) \subseteq ahead'

\* Entries leave: the rest keeps its order.
Remove(rest) ==
    /\ rest \subseteq DOMAIN entry
    /\ entry' = [x \in rest |-> entry[x]]
    /\ ahead' = Among(rest)

\* One entry moves among the others.
Move(x) ==
    /\ {p \in ahead' : x # p[1] /\ x # p[2]} = Among(DOMAIN entry \ {x})
    /\ UNCHANGED entry

\* An entry comes to stand for another issue, or for none, where it is.
Relink(x, b) ==
    /\ b \in Books \cup {None}
    /\ entry' = [entry EXCEPT ![x].book = b]
    /\ UNCHANGED ahead

Next ==
    /\ \/ Remove(DOMAIN entry')
       \/ Append(DOMAIN entry)
       \/ \E x \in DOMAIN entry : Move(x) \/ Relink(x, entry'[x].book)
    /\ Unique(entry')

Spec == Init /\ [][Next]_<<entry, ahead>>
=============================================================================
