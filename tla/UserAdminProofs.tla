-------------------------- MODULE UserAdminProofs --------------------------
(***************************************************************************)
(* Theorems about UserAdmin, for any number of accounts, of requests at a  *)
(* time and of other administrators.                                       *)
(***************************************************************************)
EXTENDS UserAdmin, TLAPS

AllRoles == Roles \cup {"owner"}
AllCeilings == Ceilings \cup {NoCeiling}
Tables == [Ids -> Accounts \cup {Nothing}]
Senders == {"dialog", "nobody", "elsewhere"}

\* A PATCH whose missing fields are still to be read, one that says all it will write, a
\* new account, and requests that say no more than whose account they are about.
Looks == [at : {"look"}, by : Senders, user : Ids, role : Roles \cup {Same},
          ceiling : Ceilings \cup {Same}, was : AllRoles \cup {Same}, basis : Accounts,
          meant : SUBSET {"role", "ceiling"}]
Patches == [at : {"password", "read", "write"}, by : Senders, user : Ids, role : AllRoles,
            ceiling : AllCeilings, was : AllRoles \cup {Same}, basis : Accounts,
            meant : SUBSET {"role", "ceiling"}]
Creations == [at : {"create"}, by : {"dialog", "nobody"}, user : Ids, name : Names,
              role : AllRoles, ceiling : AllCeilings]
Others == [at : {"revoke", "last", "done", "failed", "refetch", "delete"}, by : Senders, user : Ids]
Requests == Looks \cup Patches \cup Creations \cup Others \cup {Idle}

Sessions == [user : Ids, role : AllRoles, early : BOOLEAN]
Dialogs == [mode : {"create", "edit", "delete"}, user : Ids, row : Accounts, busy : BOOLEAN]

ServerTypes ==
  /\ acct \in Tables /\ made \in Nat
  /\ \A u \in Ids : u > made => ~There(u)
  /\ sess \subseteq Sessions /\ sign \in Sessions \cup {NoSign}

CardTypes ==
  /\ list \in Tables \cup {Nothing}
  /\ ask \in {NoAsk, Sent} \cup [at : {"back"}, data : Tables]
  /\ modal \in Dialogs \cup {Closed}

TypeOK == ServerTypes /\ CardTypes /\ call \in [Calls -> Requests]

Current(s) == There(s.user) /\ acct[s.user].role = s.role

Excused(s) ==
  \/ s.early \/ s.user \in unswept
  \/ \E c \in Calls : call[c].at = "revoke" /\ call[c].user = s.user

\* Sessions, and the sign-in under way, have the role of their account unless excused.
RolesHold ==
  /\ \A s \in sess : Current(s) \/ Excused(s)
  /\ sign.user <= made
  /\ sign # NoSign /\ There(sign.user) => Current(sign) \/ Excused(sign)

\* A request of the card that has changed accounts and has not fetched the list again.
Owing == \E c \in Calls : Own(c) /\ call[c].at \in {"revoke", "last", "done"}

ListHolds ==
  /\ list # Nothing /\ ask = NoAsk /\ ~marked /\ ~behind => list = acct \/ Owing
  /\ ask.at = "back" /\ ~behind => ask.data = acct \/ Owing

\* What a PATCH writes of a field nobody set is what its author, or the handler, read.
Keeps(r) ==
  /\ r.at = "look" =>
       \/ r.role = Same /\ r.ceiling # Same /\ r.meant = {"ceiling"}
       \/ r.ceiling = Same /\ r.role # Same /\ r.meant = {"role"}
  /\ r.at \in {"password", "read", "write"} =>
       /\ "role" \notin r.meant => r.role = r.basis.role
       /\ "ceiling" \notin r.meant /\ r.basis.role = "restricted" /\ r.basis.ceiling # NoCeiling =>
            r.ceiling = r.basis.ceiling
PatchesKeep == \A c \in Calls : Keeps(call[c])

Due(r) == r.at \in {"revoke", "last", "done"} /\ r.by # "elsewhere"

Inv == TypeOK /\ RolesHold /\ ListHolds /\ PatchesKeep

-----------------------------------------------------------------------------
(* Requests.                                                               *)

\* What a request is, by how far it has come.
LEMMA RequestKinds ==
  ASSUME NEW r \in Requests
  PROVE  /\ r.at = "look" => r \in Looks
         /\ r.at \in {"password", "read", "write"} => r \in Patches
         /\ r.at = "create" => r \in Creations
         /\ r.at \in {"revoke", "last", "done", "failed", "refetch", "delete"} => r \in Others
         /\ r.at # "idle" => r.user \in Ids /\ r.by \in Senders
         /\ r.at = "idle" => r = Idle
BY DEF Requests, Looks, Patches, Creations, Others, Idle, Senders

LEMMA OthersKeep == ASSUME NEW r \in Others \cup {Idle} PROVE r \in Requests /\ Keeps(r)
BY DEF Others, Idle, Keeps, Requests

\* A PATCH that goes on has the fields it had.
LEMMA PatchMoves ==
  ASSUME NEW r \in Patches, NEW to \in {"read", "write"}, NEW w \in AllRoles
  PROVE  /\ [r EXCEPT !.at = to] \in Patches
         /\ [r EXCEPT !.at = to, !.was = w] \in Patches
         /\ Keeps(r) => Keeps([r EXCEPT !.at = to]) /\ Keeps([r EXCEPT !.at = to, !.was = w])
         /\ [r EXCEPT !.at = to].at = to /\ [r EXCEPT !.at = to, !.was = w].at = to
BY DEF Patches, Keeps

\* What the handler adds to a PATCH with fields missing is what it read.
LEMMA LookFills ==
  ASSUME NEW r \in Looks, Keeps(r), NEW a \in Accounts, NEW q,
         q = [r EXCEPT !.at = "read", !.role = OrElse(r.role, a.role),
                       !.ceiling = OrElse(r.ceiling, a.ceiling), !.basis = a]
  PROVE  q \in Patches /\ Keeps(q)
<1>1. /\ q.at = "read" /\ q.by = r.by /\ q.user = r.user /\ q.was = r.was /\ q.meant = r.meant
      /\ q.role = OrElse(r.role, a.role) /\ q.ceiling = OrElse(r.ceiling, a.ceiling)
      /\ q.basis = a
  BY DEF Looks
<1>2. q.role \in AllRoles /\ q.ceiling \in AllCeilings
  BY <1>1 DEF Looks, Accounts, AllRoles, AllCeilings, OrElse
<1>3. q = [at |-> q.at, by |-> q.by, user |-> q.user, role |-> q.role, ceiling |-> q.ceiling,
           was |-> q.was, basis |-> q.basis, meant |-> q.meant]
  BY DEF Looks
<1>4. q \in Patches
  BY <1>1, <1>2, <1>3 DEF Looks, Patches
<1>5. Keeps(q)
  BY <1>1 DEF Looks, Keeps, OrElse
<1>6. QED
  BY <1>4, <1>5

\* A request that has nothing more to send, or whose sender nobody here waits for.
LEMMA OnWrites ==
  ASSUME call \in [Calls -> Requests], NEW c \in Calls, call[c].at # "idle",
         NEW stage \in {"revoke", "last", "done", "failed"}, On(c, stage)
  PROVE  \E r \in Others \cup {Idle} :
           /\ call' = [call EXCEPT ![c] = r]
           /\ IF call[c].by = "elsewhere" /\ stage # "revoke"
              THEN r = Idle
              ELSE r.at = stage /\ r.by = call[c].by /\ r.user = call[c].user
<1> DEFINE q == [at |-> stage, by |-> call[c].by, user |-> call[c].user]
<1>1. call[c].user \in Ids /\ call[c].by \in Senders
  BY RequestKinds
<1>2. q \in Others
  BY <1>1 DEF Others
<1>3. CASE call[c].by = "elsewhere" /\ stage # "revoke"
  <2>1. call' = [call EXCEPT ![c] = Idle]
    BY <1>3 DEF On
  <2>2. QED
    BY <1>3, <2>1
<1>4. CASE ~(call[c].by = "elsewhere" /\ stage # "revoke")
  <2>1. call' = [call EXCEPT ![c] = q]
    BY <1>4 DEF On
  <2>2. q.at = stage /\ q.by = call[c].by /\ q.user = call[c].user
    OBVIOUS
  <2>3. QED
    BY <1>2, <1>4, <2>1, <2>2
<1>5. QED
  BY <1>3, <1>4

Freed(r) == IF r.at # "idle" /\ r.by = "dialog" THEN [r EXCEPT !.by = "nobody"] ELSE r

\* A request whose dialog goes is about what it was about.
LEMMA FreedAlike ==
  ASSUME NEW r \in Requests
  PROVE  /\ Freed(r) \in Requests /\ Freed(r).at = r.at
         /\ r.at = "revoke" => Freed(r).user = r.user
         /\ Due(r) => Due(Freed(r))
         /\ Keeps(r) => Keeps(Freed(r))
<1>1. CASE r \in Looks
  BY <1>1 DEF Freed, Looks, Requests, Senders, Due, Keeps
<1>2. CASE r \in Patches
  BY <1>2 DEF Freed, Patches, Requests, Senders, Due, Keeps
<1>3. CASE r \in Creations
  BY <1>3 DEF Freed, Creations, Requests, Senders, Due, Keeps
<1>4. CASE r \in Others
  BY <1>4 DEF Freed, Others, Requests, Senders, Due, Keeps
<1>5. CASE r = Idle
  BY <1>5 DEF Freed, Idle, Requests, Due, Keeps
<1>6. QED
  BY <1>1, <1>2, <1>3, <1>4, <1>5 DEF Requests

LEMMA ShutFrees ==
  ASSUME NEW calls \in [Calls -> Requests], Shut(calls)
  PROVE  /\ call' \in [Calls -> Requests] /\ modal' = Closed
         /\ \A c \in Calls : call'[c] = Freed(calls[c])
<1>1. /\ modal' = Closed
      /\ call' = [c \in Calls |-> Freed(calls[c])]
  BY DEF Shut, Freed
<1>2. \A c \in Calls : Freed(calls[c]) \in Requests
  BY FreedAlike
<1>3. QED
  BY <1>1, <1>2

-----------------------------------------------------------------------------
(* What a step of requests leaves in order.                                *)

\* Requests move and no account, session or sign-in changes.
LEMMA RolesStay ==
  ASSUME RolesHold, UNCHANGED <<acct, made, sess, sign>>, unswept \subseteq unswept',
         \A c \in Calls : call[c].at = "revoke" =>
           call'[c].at = "revoke" /\ call'[c].user = call[c].user
  PROVE  RolesHold'
BY DEF RolesHold, Current, There, Excused

\* Requests move and neither the accounts nor what the card knows of them changes.
LEMMA ListStays ==
  ASSUME ListHolds, UNCHANGED <<acct, list, ask, marked>>, behind => behind',
         \A c \in Calls : Due(call[c]) => behind' \/ Due(call'[c])
  PROVE  ListHolds'
<1>1. \A c \in Calls : Due(call[c]) <=> Own(c) /\ call[c].at \in {"revoke", "last", "done"}
  BY DEF Due, Own
<1>2. \A c \in Calls : Due(call'[c]) <=> Own(c)' /\ call'[c].at \in {"revoke", "last", "done"}
  BY DEF Due, Own
<1>3. Owing => behind' \/ Owing'
  BY <1>1, <1>2 DEF Owing
<1>4. QED
  BY <1>3 DEF ListHolds

\* One request moves; nothing of the server and nothing the card knows changes.
LEMMA OneMoves ==
  ASSUME Inv, NEW c \in Calls, NEW r \in Requests, call' = [call EXCEPT ![c] = r], Keeps(r),
         call[c].at # "revoke", Due(call[c]) => behind' \/ Due(r), behind => behind',
         UNCHANGED <<server, list, ask, marked, unswept>>, modal' \in Dialogs \cup {Closed}
  PROVE  Inv'
<1>1. UNCHANGED <<acct, made, sess, sign, list, ask, marked, unswept>>
  BY DEF server
<1>2. call'[c] = r /\ \A d \in Calls : d # c => call'[d] = call[d]
  BY DEF Inv, TypeOK
<1>3. TypeOK'
  BY <1>1 DEF Inv, TypeOK, ServerTypes, CardTypes, There
<1>4. RolesHold'
  BY <1>1, <1>2, RolesStay DEF Inv
<1>5. ListHolds'
  BY <1>1, <1>2, ListStays DEF Inv
<1>6. PatchesKeep'
  BY <1>2 DEF Inv, PatchesKeep
<1>7. QED
  BY <1>3, <1>4, <1>5, <1>6 DEF Inv

\* The requests stay where they are.
LEMMA NoneMoves ==
  ASSUME Inv, UNCHANGED <<call, server, list, ask, marked, unswept, behind>>,
         modal' \in Dialogs \cup {Closed}
  PROVE  Inv'
<1>1. UNCHANGED <<acct, made, sess, sign, list, ask, marked, unswept, call, behind>>
  BY DEF server
<1>2. TypeOK'
  BY <1>1 DEF Inv, TypeOK, ServerTypes, CardTypes, There
<1>3. RolesHold' /\ ListHolds' /\ PatchesKeep'
  BY <1>1, RolesStay, ListStays DEF Inv, PatchesKeep
<1>4. QED
  BY <1>2, <1>3 DEF Inv

\* The sessions of an account are deleted: a sign-in under way is early now.
LEMMA SweptRoles ==
  ASSUME ServerTypes, RolesHold, NEW u \in Ids, Swept(u), UNCHANGED <<acct, made>>,
         unswept' = unswept \ {u},
         \A c \in Calls : call[c].at = "revoke" /\ call[c].user # u =>
           call'[c].at = "revoke" /\ call'[c].user = call[c].user
  PROVE  ServerTypes' /\ RolesHold'
<1>1. /\ sess' = {s \in sess : s.user # u}
      /\ sign' = IF sign.user = u THEN [sign EXCEPT !.early = TRUE] ELSE sign
  BY DEF Swept
<1>2. sign.user = u => sign \in Sessions
  BY DEF ServerTypes, NoSign, Ids
<1>3. CASE sign.user = u
  <2>1. sign' \in Sessions /\ sign'.early = TRUE /\ sign'.user = u
    BY <1>1, <1>2, <1>3 DEF Sessions
  <2>2. ServerTypes'
    BY <1>1, <2>1 DEF ServerTypes, There
  <2>3. \A s \in sess' : Current(s)' \/ Excused(s)'
    BY <1>1 DEF RolesHold, Current, Excused, There
  <2>4. QED
    BY <1>3, <2>1, <2>2, <2>3 DEF RolesHold, Excused
<1>4. CASE sign.user # u
  <2>1. sign' = sign
    BY <1>1, <1>4
  <2>2. ServerTypes'
    BY <1>1, <2>1 DEF ServerTypes, There
  <2>3. \A s \in sess' : Current(s)' \/ Excused(s)'
    BY <1>1 DEF RolesHold, Current, Excused, There
  <2>4. QED
    BY <1>4, <2>1, <2>2, <2>3 DEF RolesHold, Current, Excused, There
<1>5. QED
  BY <1>3, <1>4

-----------------------------------------------------------------------------
(* The server's steps.                                                     *)

LEMMA PasswordKeeps ==
  ASSUME AdminAssumption, Inv, NEW c \in Calls, SetUserPassword(c)
  PROVE  Inv'
<1>1. call[c] \in Patches /\ call[c].user \in Ids /\ call[c].at = "password"
  BY RequestKinds DEF SetUserPassword, Inv, TypeOK
<1>2. PICK r : r = [call[c] EXCEPT !.at = "read"]
  OBVIOUS
<1>3. call' = [call EXCEPT ![c] = r]
  BY <1>2 DEF SetUserPassword, Go, Inv, TypeOK
<1>4. r \in Patches /\ r \in Requests /\ Keeps(r) /\ r.at = "read"
  <2>1. Keeps(call[c])
    BY DEF Inv, PatchesKeep
  <2>2. \E w : w \in AllRoles
    BY DEF AllRoles
  <2>3. QED
    BY <1>1, <1>2, <2>1, <2>2, PatchMoves DEF Requests
<1>5. call'[c] = r /\ \A d \in Calls : d # c => call'[d] = call[d]
  BY <1>3 DEF Inv, TypeOK
<1>6. UNCHANGED <<acct, made, list, ask, marked, modal, behind>>
  BY DEF SetUserPassword, card
<1>7. ServerTypes' /\ RolesHold'
  BY <1>1, <1>5, <1>6, SweptRoles DEF SetUserPassword, Inv, TypeOK
<1>8. ListHolds'
  BY <1>1, <1>5, <1>6, ListStays DEF Inv, Due
<1>9. CardTypes' /\ call' \in [Calls -> Requests] /\ PatchesKeep'
  BY <1>3, <1>4, <1>5, <1>6 DEF Inv, TypeOK, CardTypes, PatchesKeep
<1>10. QED
  BY <1>7, <1>8, <1>9 DEF Inv, TypeOK

LEMMA LookKeeps ==
  ASSUME AdminAssumption, Inv, NEW c \in Calls, Look(c)
  PROVE  Inv'
<1>1. call[c] \in Looks /\ call[c].user \in Ids /\ call[c].at = "look" /\ Keeps(call[c])
  BY RequestKinds DEF Look, Inv, TypeOK, PatchesKeep
<1> DEFINE a == acct[call[c].user]
<1>2. a \in Accounts
  BY <1>1 DEF Look, There, Inv, TypeOK, ServerTypes, Tables
<1>3. PICK r : r = [call[c] EXCEPT !.at = "read", !.role = OrElse(call[c].role, a.role),
                                   !.ceiling = OrElse(call[c].ceiling, a.ceiling), !.basis = a]
  OBVIOUS
<1>4. call' = [call EXCEPT ![c] = r]
  BY <1>3 DEF Look
<1>5. UNCHANGED <<server, list, ask, marked, unswept, behind, modal>>
  BY DEF Look, card
<1> HIDE DEF a
<1>6. r \in Requests /\ Keeps(r)
  BY <1>1, <1>2, <1>3, LookFills DEF Requests
<1>7. QED
  BY <1>1, <1>4, <1>6, <1>5, OneMoves DEF Inv, TypeOK, CardTypes, Due

LEMMA ReadKeeps ==
  ASSUME AdminAssumption, Inv, NEW c \in Calls, UpdateReads(c)
  PROVE  Inv'
<1>1. call[c] \in Patches /\ call[c].user \in Ids /\ call[c].at = "read" /\ Keeps(call[c])
  BY RequestKinds DEF UpdateReads, Inv, TypeOK, PatchesKeep
<1>2. PICK w : w = acct[call[c].user].role
  OBVIOUS
<1>3. w \in AllRoles
  BY <1>1, <1>2 DEF UpdateReads, There, Inv, TypeOK, ServerTypes, Tables, Accounts, AllRoles
<1>4. PICK r : r = [call[c] EXCEPT !.at = "write", !.was = w]
  OBVIOUS
<1>5. call' = [call EXCEPT ![c] = r]
  BY <1>1, <1>2, <1>4 DEF UpdateReads, Inv, TypeOK, Patches
<1>6. r \in Requests /\ Keeps(r)
  BY <1>1, <1>3, <1>4, PatchMoves DEF Requests
<1>7. UNCHANGED <<server, list, ask, marked, unswept, behind, modal>>
  BY DEF UpdateReads, card
<1>8. QED
  BY <1>1, <1>5, <1>6, <1>7, OneMoves DEF Inv, TypeOK, CardTypes, Due

\* What an update writes, and who is to sign the account out.
LEMMA UpdateRow ==
  ASSUME Inv, NEW c \in Calls, UpdateWrites(c)
  PROVE  /\ call[c] \in Patches /\ call[c].at = "write" /\ call[c].user \in Ids
         /\ acct[call[c].user] \in Accounts
         /\ acct'[call[c].user] \in Accounts
         /\ acct'[call[c].user].role = call[c].role
         /\ acct'[call[c].user].ceiling = call[c].ceiling
         /\ \A v \in Ids : v # call[c].user => acct'[v] = acct[v]
         /\ acct' \in Tables
<1>0. PICK u : u = call[c].user
  OBVIOUS
<1>1. call[c] \in Patches /\ u \in Ids /\ call[c].at = "write"
  BY <1>0, RequestKinds DEF UpdateWrites, Inv, TypeOK
<1>2. acct \in Tables /\ acct[u] \in Accounts
  BY <1>0, <1>1 DEF UpdateWrites, There, Inv, TypeOK, ServerTypes, Tables
<1>3. PICK a : a = [acct[u] EXCEPT !.role = call[c].role, !.ceiling = call[c].ceiling]
  OBVIOUS
<1>4. acct' = [acct EXCEPT ![u] = a]
  BY <1>0, <1>1, <1>2, <1>3 DEF UpdateWrites, Tables, Accounts
<1>5. call[c].role \in AllRoles /\ call[c].ceiling \in AllCeilings
  BY <1>1 DEF Patches
<1>6. a \in Accounts /\ a.role = call[c].role /\ a.ceiling = call[c].ceiling
  BY <1>2, <1>3, <1>5 DEF Accounts, AllRoles, AllCeilings
<1>7. QED
  BY <1>0, <1>1, <1>2, <1>4, <1>6 DEF Tables

LEMMA UpdateKeeps ==
  ASSUME AdminAssumption, NothingIsApart, Inv, NEW c \in Calls, UpdateWrites(c)
  PROVE  Inv'
<1>0. PICK u : u = call[c].user
  OBVIOUS
<1>1. /\ call[c] \in Patches /\ call[c].at = "write" /\ u \in Ids
      /\ acct[u] \in Accounts /\ acct'[u] \in Accounts /\ acct'[u].role = call[c].role
      /\ \A v \in Ids : v # u => acct'[v] = acct[v]
      /\ acct' \in Tables
  BY <1>0, UpdateRow
<1> DEFINE stage == IF call[c].role # call[c].was THEN "revoke" ELSE "last"
<1>2. PICK r \in Others \cup {Idle} :
        /\ call' = [call EXCEPT ![c] = r]
        /\ IF call[c].by = "elsewhere" /\ stage # "revoke"
           THEN r = Idle
           ELSE r.at = stage /\ r.by = call[c].by /\ r.user = u
  <2>1. stage \in {"revoke", "last", "done", "failed"} /\ On(c, stage)
    BY DEF UpdateWrites
  <2> HIDE DEF stage
  <2>2. QED
    BY <1>0, <1>1, <2>1, OnWrites DEF Inv, TypeOK
<1>3. /\ UNCHANGED <<made, sess, sign, list, ask, marked, modal>>
      /\ behind' = (behind \/ ~Own(c))
      /\ unswept' = IF acct[u].role # call[c].was /\ call[c].role = call[c].was
                    THEN unswept \cup {u} ELSE unswept
  BY <1>0 DEF UpdateWrites, card
<1>4. call'[c] = r /\ \A d \in Calls : d # c => call'[d] = call[d]
  BY <1>2 DEF Inv, TypeOK
<1>5. ServerTypes'
  BY <1>0, <1>1, <1>3 DEF UpdateWrites, Inv, TypeOK, ServerTypes, There, NothingIsApart
<1>6. ASSUME NEW s \in Sessions, There(s.user), Current(s) \/ Excused(s)
      PROVE  Current(s)' \/ Excused(s)'
  <2>1. CASE Excused(s)
    BY <1>1, <1>3, <1>4, <2>1 DEF Excused
  <2>2. CASE Current(s) /\ s.user # u
    BY <1>1, <2>2 DEF Current, There, Sessions
  <2>3. CASE Current(s) /\ s.user = u
    <3>1. CASE call[c].role # call[c].was
      BY <1>2, <1>4, <2>3, <3>1 DEF Excused
    <3>2. CASE call[c].role = call[c].was /\ acct[u].role # call[c].was
      BY <1>3, <2>3, <3>2 DEF Excused
    <3>3. CASE call[c].role = call[c].was /\ acct[u].role = call[c].was
      BY <1>1, <2>3, <3>3 DEF Current, There, NothingIsApart
    <3>4. QED
      BY <3>1, <3>2, <3>3
  <2>4. QED
    BY <1>6, <2>1, <2>2, <2>3
<1>7. \A v \in Ids : There(v)' <=> There(v)
  BY <1>1 DEF There, NothingIsApart
<1>8. RolesHold'
  <2>1. ASSUME NEW s \in sess PROVE Current(s)' \/ Excused(s)'
    <3>1. s \in Sessions /\ (Current(s) \/ Excused(s))
      BY DEF Inv, TypeOK, ServerTypes, RolesHold
    <3>2. Excused(s) => Excused(s)'
      BY <1>1, <1>3, <1>4 DEF Excused
    <3>3. Current(s) => There(s.user)
      BY DEF Current
    <3>4. QED
      BY <1>6, <3>1, <3>2, <3>3
  <2>2. ASSUME sign # NoSign, There(sign.user)' PROVE Current(sign)' \/ Excused(sign)'
    <3>1. sign \in Sessions /\ sign.user \in Ids
      BY <2>2 DEF Inv, TypeOK, ServerTypes, Sessions
    <3>2. There(sign.user)
      BY <1>3, <1>7, <2>2, <3>1
    <3>3. Current(sign) \/ Excused(sign)
      BY <2>2, <3>2 DEF Inv, RolesHold
    <3>4. QED
      BY <1>3, <1>6, <3>1, <3>2, <3>3 DEF Current, Excused
  <2>3. QED
    BY <1>3, <2>1, <2>2 DEF Inv, RolesHold
<1>9. ListHolds'
  <2>1. Own(c) => Owing'
    BY <1>1, <1>2, <1>4 DEF Own, Owing, Idle
  <2>2. QED
    BY <1>3, <2>1 DEF ListHolds
<1>10. CardTypes' /\ call' \in [Calls -> Requests] /\ PatchesKeep'
  BY <1>2, <1>3, <1>4, OthersKeep DEF Inv, TypeOK, CardTypes, PatchesKeep
<1>11. QED
  BY <1>5, <1>8, <1>9, <1>10 DEF Inv, TypeOK

LEMMA RevokeKeeps ==
  ASSUME AdminAssumption, Inv, NEW c \in Calls, Revoke(c)
  PROVE  Inv'
<1>0. PICK u : u = call[c].user
  OBVIOUS
<1>1. call[c] \in Others /\ u \in Ids /\ call[c].at = "revoke"
  BY <1>0, RequestKinds DEF Revoke, Inv, TypeOK
<1>2. PICK r \in Others \cup {Idle} :
        /\ call' = [call EXCEPT ![c] = r]
        /\ IF call[c].by = "elsewhere" THEN r = Idle
           ELSE r.at = "last" /\ r.by = call[c].by /\ r.user = call[c].user
  <2>1. On(c, "last")
    BY DEF Revoke
  <2>2. QED
    BY <1>1, <2>1, OnWrites DEF Inv, TypeOK
<1>3. call'[c] = r /\ \A d \in Calls : d # c => call'[d] = call[d]
  BY <1>2 DEF Inv, TypeOK
<1>4. UNCHANGED <<acct, made, list, ask, marked, modal, behind>>
  BY DEF Revoke, card
<1>5. ASSUME Swept(u), unswept' = unswept \ {u} PROVE ServerTypes' /\ RolesHold'
  BY <1>0, <1>1, <1>3, <1>4, <1>5, SweptRoles DEF Inv, TypeOK
<1>6. ASSUME UNCHANGED <<sess, sign>>, unswept' = unswept \cup {u}
      PROVE  ServerTypes' /\ RolesHold'
  <2>1. \A s : Excused(s) => Excused(s)'
    BY <1>0, <1>3, <1>6 DEF Excused
  <2>2. QED
    BY <1>4, <1>6, <2>1 DEF Inv, TypeOK, ServerTypes, RolesHold, Current, Excused, There
<1>7. ServerTypes' /\ RolesHold'
  BY <1>0, <1>5, <1>6 DEF Revoke
<1>8. ListHolds'
  BY <1>1, <1>2, <1>3, <1>4, ListStays DEF Inv, Due
<1>9. CardTypes' /\ call' \in [Calls -> Requests] /\ PatchesKeep'
  BY <1>2, <1>3, <1>4, OthersKeep DEF Inv, TypeOK, CardTypes, PatchesKeep
<1>10. QED
  BY <1>7, <1>8, <1>9 DEF Inv, TypeOK

\* An answer is read, or a request comes to nothing.
LEMMA AnswerKeeps ==
  ASSUME AdminAssumption, Inv, NEW c \in Calls, PatchAnswers(c) \/ Refused(c)
  PROVE  Inv'
<1>1. call[c].at \notin {"idle", "revoke"}
  BY DEF PatchAnswers, Refused
<1>2. PICK stage \in {"done", "failed"} :
        /\ On(c, stage) /\ (stage = "done" => call[c].at = "last")
        /\ behind => behind'
        /\ stage = "failed" /\ Due(call[c]) => behind'
  <2>1. CASE PatchAnswers(c)
    BY <2>1 DEF PatchAnswers
  <2>2. CASE Refused(c)
    <3>1. On(c, "failed") /\ behind' = (behind \/ call[c].at \in {"last", "done"})
      BY <2>2 DEF Refused
    <3>2. Due(call[c]) => behind'
      BY <1>1, <3>1 DEF Due
    <3>3. QED
      BY <3>1, <3>2
  <2>3. QED
    BY <2>1, <2>2
<1>3. PICK r \in Others \cup {Idle} :
        /\ call' = [call EXCEPT ![c] = r]
        /\ IF call[c].by = "elsewhere" THEN r = Idle
           ELSE r.at = stage /\ r.by = call[c].by /\ r.user = call[c].user
  BY <1>1, <1>2, OnWrites DEF Inv, TypeOK
<1>4. UNCHANGED <<server, list, ask, marked, modal, unswept>>
  BY DEF PatchAnswers, Refused, card
<1>5. Due(call[c]) => behind' \/ Due(r)
  BY <1>2, <1>3 DEF Due
<1>6. r \in Requests /\ Keeps(r) /\ modal' \in Dialogs \cup {Closed}
  BY <1>4, OthersKeep DEF Inv, TypeOK, CardTypes
<1>7. QED
  BY <1>1, <1>2, <1>3, <1>4, <1>5, <1>6, OneMoves

\* A new account has an id that no session and no sign-in is of.
LEMMA CreateKeeps ==
  ASSUME AdminAssumption, NothingIsApart, Inv, NEW c \in Calls, Create(c)
  PROVE  Inv'
<1>1. call[c] \in Creations /\ call[c].at = "create"
  BY RequestKinds DEF Create, Inv, TypeOK
<1>2. PICK r \in Others \cup {Idle} :
        /\ call' = [call EXCEPT ![c] = r]
        /\ IF call[c].by = "elsewhere" THEN r = Idle
           ELSE r.at = "done" /\ r.by = call[c].by /\ r.user = call[c].user
  <2>1. On(c, "done")
    BY DEF Create
  <2>2. QED
    BY <1>1, <2>1, OnWrites DEF Inv, TypeOK
<1>3. call'[c] = r /\ \A d \in Calls : d # c => call'[d] = call[d]
  BY <1>2 DEF Inv, TypeOK
<1>4. PICK a : a = Account(call[c].name, call[c].role, call[c].ceiling)
  OBVIOUS
<1>5. a \in Accounts /\ made \in Nat /\ made + 1 \in Ids /\ ~There(made + 1)
  <2>1. a \in Accounts
    BY <1>1, <1>4 DEF Account, Accounts, Creations, AllRoles, AllCeilings
  <2>2. made \in Nat /\ made < MaxIds /\ MaxIds \in Nat
    BY DEF Create, AdminAssumption, Inv, TypeOK, ServerTypes
  <2>3. made + 1 \in Ids /\ made + 1 > made
    BY <2>2 DEF Ids
  <2>4. QED
    BY <2>1, <2>2, <2>3 DEF Inv, TypeOK, ServerTypes
<1>6. /\ made' = made + 1 /\ acct' = [acct EXCEPT ![made + 1] = a]
      /\ UNCHANGED <<sess, sign, list, ask, marked, modal, behind, unswept>>
  BY <1>4 DEF Create, card
<1>7. ServerTypes'
  BY <1>5, <1>6 DEF Inv, TypeOK, ServerTypes, Tables, There, Ids
<1>8. RolesHold'
  <2>1. \A s : Excused(s) => Excused(s)'
    BY <1>1, <1>3, <1>6 DEF Excused
  <2>2. \A s \in Sessions : Current(s) => Current(s)'
    BY <1>5, <1>6 DEF Current, There, Sessions, Inv, TypeOK, ServerTypes, Tables
  <2>3. \A s \in sess : Current(s)' \/ Excused(s)'
    BY <2>1, <2>2 DEF Inv, RolesHold, TypeOK, ServerTypes
  <2>4. sign # NoSign => sign \in Sessions /\ sign.user # made + 1 /\ sign.user \in Ids
    BY <1>5 DEF Inv, RolesHold, TypeOK, ServerTypes, Sessions, Ids
  <2>5. sign # NoSign /\ There(sign.user)' => Current(sign)' \/ Excused(sign)'
    <3>1. sign # NoSign /\ There(sign.user)' => There(sign.user)
      BY <1>5, <1>6, <2>4 DEF There, Inv, TypeOK, ServerTypes, Tables
    <3>2. QED
      BY <1>6, <2>1, <2>2, <2>4, <3>1 DEF Inv, RolesHold, Current, Excused
  <2>6. sign.user <= made'
    BY <1>5, <1>6 DEF Inv, RolesHold, TypeOK, ServerTypes, Sessions, Ids, NoSign
  <2>7. QED
    BY <1>6, <2>3, <2>5, <2>6 DEF RolesHold
<1>9. ListHolds'
  <2>1. Owing'
    BY <1>1, <1>2, <1>3 DEF Own, Owing, Idle, Creations
  <2>2. QED
    BY <2>1 DEF ListHolds
<1>10. CardTypes' /\ call' \in [Calls -> Requests] /\ PatchesKeep'
  BY <1>2, <1>3, <1>6, OthersKeep DEF Inv, TypeOK, CardTypes, PatchesKeep
<1>11. QED
  BY <1>7, <1>8, <1>9, <1>10 DEF Inv, TypeOK

LEMMA DeleteKeeps ==
  ASSUME AdminAssumption, Inv, NEW c \in Calls, Delete(c)
  PROVE  Inv'
<1>0. PICK u : u = call[c].user
  OBVIOUS
<1>1. call[c] \in Others /\ u \in Ids /\ call[c].at = "delete"
  BY <1>0, RequestKinds DEF Delete, Inv, TypeOK
<1>2. PICK r \in Others \cup {Idle} :
        /\ call' = [call EXCEPT ![c] = r]
        /\ IF call[c].by = "elsewhere" THEN r = Idle
           ELSE r.at = "done" /\ r.by = call[c].by /\ r.user = call[c].user
  <2>1. On(c, "done")
    BY DEF Delete
  <2>2. QED
    BY <1>1, <2>1, OnWrites DEF Inv, TypeOK
<1>3. call'[c] = r /\ \A d \in Calls : d # c => call'[d] = call[d]
  BY <1>2 DEF Inv, TypeOK
<1>4. /\ acct' = [acct EXCEPT ![u] = Nothing] /\ sess' = {s \in sess : s.user # u}
      /\ unswept' = unswept \ {u} /\ behind' = (behind \/ ~Own(c))
      /\ UNCHANGED <<made, sign, list, ask, marked, modal>>
  BY <1>0 DEF Delete, card
<1>5. ~There(u)' /\ \A v \in Ids : v # u => acct'[v] = acct[v]
  BY <1>1, <1>4 DEF There, Inv, TypeOK, ServerTypes, Tables
<1>6. ServerTypes'
  BY <1>1, <1>4, <1>5 DEF Inv, TypeOK, ServerTypes, Tables, There
<1>7. RolesHold'
  <2>1. ASSUME NEW s \in Sessions, s.user # u, Current(s) \/ Excused(s)
        PROVE  Current(s)' \/ Excused(s)'
    BY <1>1, <1>3, <1>4, <1>5, <2>1 DEF Current, Excused, There, Sessions
  <2>2. \A s \in sess' : Current(s)' \/ Excused(s)'
    BY <1>4, <2>1 DEF Inv, RolesHold, TypeOK, ServerTypes
  <2>3. ASSUME sign # NoSign, There(sign.user)' PROVE Current(sign)' \/ Excused(sign)'
    <3>1. sign \in Sessions /\ sign.user # u /\ sign.user \in Ids
      BY <1>4, <1>5, <2>3 DEF Inv, TypeOK, ServerTypes, Sessions
    <3>2. Current(sign) \/ Excused(sign)
      BY <1>4, <1>5, <2>3, <3>1 DEF Inv, RolesHold, There
    <3>3. QED
      BY <1>4, <2>1, <3>1, <3>2 DEF Current, Excused
  <2>4. QED
    BY <1>4, <2>2, <2>3 DEF Inv, RolesHold
<1>8. ListHolds'
  <2>1. Own(c) => Owing'
    BY <1>1, <1>2, <1>3 DEF Own, Owing, Idle
  <2>2. QED
    BY <1>4, <2>1 DEF ListHolds
<1>9. CardTypes' /\ call' \in [Calls -> Requests] /\ PatchesKeep'
  BY <1>2, <1>3, <1>4, OthersKeep DEF Inv, TypeOK, CardTypes, PatchesKeep
<1>10. QED
  BY <1>6, <1>7, <1>8, <1>9 DEF Inv, TypeOK

\* A sign-in reads the role its account has, and stores a session only while there is one.
LEMMA SignInKeeps ==
  ASSUME AdminAssumption, Inv, NEW u \in Worked, SignIn(u)
  PROVE  Inv'
<1>1. u \in Ids /\ There(u) /\ acct[u] \in Accounts
  BY DEF SignIn, There, AdminAssumption, Ids, Inv, TypeOK, ServerTypes, Tables
<1>2. /\ sign' = [user |-> u, role |-> acct[u].role, early |-> FALSE]
      /\ UNCHANGED <<acct, made, sess, call, list, ask, marked, modal, behind, unswept>>
  BY DEF SignIn, card
<1>3. sign' \in Sessions /\ sign'.user = u /\ sign'.role = acct[u].role
  BY <1>1, <1>2 DEF Sessions, Accounts, AllRoles
<1>4. TypeOK'
  BY <1>2, <1>3 DEF Inv, TypeOK, ServerTypes, CardTypes, There
<1>5. RolesHold'
  <2>1. \A s \in sess' : Current(s)' \/ Excused(s)'
    BY <1>2 DEF Inv, RolesHold, Current, Excused, There
  <2>2. sign'.user <= made' /\ Current(sign)'
    BY <1>1, <1>2, <1>3 DEF Inv, TypeOK, ServerTypes, Current, There, Ids
  <2>3. QED
    BY <2>1, <2>2 DEF RolesHold
<1>6. ListHolds' /\ PatchesKeep'
  BY <1>2, ListStays DEF Inv, PatchesKeep
<1>7. QED
  BY <1>4, <1>5, <1>6 DEF Inv

LEMMA IssueKeeps ==
  ASSUME AdminAssumption, Inv, Issue
  PROVE  Inv'
<1>1. /\ sign # NoSign /\ sign' = NoSign
      /\ sess' = IF There(sign.user) THEN sess \cup {sign} ELSE sess
      /\ UNCHANGED <<acct, made, call, list, ask, marked, modal, behind, unswept>>
  BY DEF Issue, card
<1>2. TypeOK'
  BY <1>1 DEF Inv, TypeOK, ServerTypes, CardTypes, There
<1>3. RolesHold'
  <2>1. \A s \in sess : Current(s)' \/ Excused(s)'
    BY <1>1 DEF Inv, RolesHold, Current, Excused, There
  <2>2. ASSUME NEW s, s = sign, There(sign.user) PROVE Current(s)' \/ Excused(s)'
    BY <1>1, <2>2 DEF Inv, RolesHold, Current, Excused, There
  <2>3. \A s \in sess' : Current(s)' \/ Excused(s)'
    BY <1>1, <2>1, <2>2
  <2>4. sign'.user = 0 /\ made' \in Nat
    BY <1>1, <1>2 DEF NoSign, TypeOK, ServerTypes
  <2>5. QED
    BY <1>1, <2>3, <2>4 DEF RolesHold
<1>4. ListHolds' /\ PatchesKeep'
  BY <1>1, ListStays DEF Inv, PatchesKeep
<1>5. QED
  BY <1>2, <1>3, <1>4 DEF Inv

\* Another administrator's PATCH sets one field and leaves the other to be read.
LEMMA ElsewhereKeeps ==
  ASSUME AdminAssumption, Inv, NEW c \in Calls, NEW u \in Worked, Elsewhere(c, u)
  PROVE  Inv'
<1>1. u \in Ids /\ call[c].at = "idle" /\ acct[u] \in Accounts
  BY DEF Elsewhere, There, AdminAssumption, Ids, Inv, TypeOK, ServerTypes, Tables
<1>2. UNCHANGED <<server, list, ask, marked, modal, behind, unswept>>
  BY DEF Elsewhere, card
<1>3. PICK r \in Requests : call' = [call EXCEPT ![c] = r] /\ Keeps(r)
  <2>1. ASSUME NEW f \in Roles \cup {Same}, NEW k \in Ceilings \cup {Same}, (f = Same) # (k = Same),
               call' = [call EXCEPT ![c] = [at |-> "look", by |-> "elsewhere", user |-> u, role |-> f,
                          ceiling |-> k, was |-> Same, basis |-> acct[u],
                          meant |-> IF f = Same THEN {"ceiling"} ELSE {"role"}]]
        PROVE  \E r \in Requests : call' = [call EXCEPT ![c] = r] /\ Keeps(r)
    <3>1. PICK r : r = [at |-> "look", by |-> "elsewhere", user |-> u, role |-> f,
                        ceiling |-> k, was |-> Same, basis |-> acct[u],
                        meant |-> IF f = Same THEN {"ceiling"} ELSE {"role"}]
      OBVIOUS
    <3>2. r \in Looks
      BY <1>1, <3>1 DEF Looks, Senders
    <3>3. Keeps(r)
      BY <2>1, <3>1 DEF Keeps
    <3>4. QED
      BY <2>1, <3>1, <3>2, <3>3 DEF Requests
  <2>2. ASSUME call' = [call EXCEPT ![c] = [at |-> "delete", by |-> "elsewhere", user |-> u]]
        PROVE  \E r \in Requests : call' = [call EXCEPT ![c] = r] /\ Keeps(r)
    <3>1. [at |-> "delete", by |-> "elsewhere", user |-> u] \in Others
      BY <1>1 DEF Others, Senders
    <3>2. QED
      BY <2>2, <3>1, OthersKeep
  <2>3. QED
    BY <2>1, <2>2 DEF Elsewhere
<1>4. modal' \in Dialogs \cup {Closed}
  BY <1>2 DEF Inv, TypeOK, CardTypes
<1>5. QED
  BY <1>1, <1>2, <1>3, <1>4, OneMoves DEF Due

-----------------------------------------------------------------------------
(* The card's steps.                                                       *)

\* The dialog goes, with or without a request for the list ending.
LEMMA ShutKeeps ==
  ASSUME Inv, NEW calls \in [Calls -> Requests], Shut(calls),
         \A c \in Calls : /\ call[c].at = "revoke" \/ Due(call[c]) => calls[c] = call[c]
                          /\ Keeps(calls[c]),
         UNCHANGED server, UNCHANGED <<unswept>>
  PROVE  /\ RolesHold' /\ PatchesKeep' /\ ServerTypes' /\ call' \in [Calls -> Requests]
         /\ modal' = Closed /\ \A c \in Calls : Due(call[c]) => Due(call'[c])
<1>1. /\ call' \in [Calls -> Requests] /\ modal' = Closed
      /\ \A c \in Calls : call'[c] = Freed(calls[c])
  BY ShutFrees
<1>2. \A c \in Calls : /\ Freed(calls[c]).at = calls[c].at
                       /\ calls[c].at = "revoke" => Freed(calls[c]).user = calls[c].user
                       /\ Due(calls[c]) => Due(Freed(calls[c]))
                       /\ Keeps(Freed(calls[c]))
  BY FreedAlike
<1>3. UNCHANGED <<acct, made, sess, sign>>
  BY DEF server
<1>4. RolesHold'
  BY <1>1, <1>2, <1>3, RolesStay DEF Inv
<1>5. PatchesKeep' /\ ServerTypes'
  BY <1>1, <1>2, <1>3 DEF Inv, TypeOK, ServerTypes, There, PatchesKeep
<1>6. QED
  BY <1>1, <1>2, <1>4, <1>5

\* The requests move at most as Shut lets them, and nothing of the server changes.
Moved ==
  /\ RolesHold' /\ PatchesKeep' /\ ServerTypes' /\ call' \in [Calls -> Requests]
  /\ modal' \in Dialogs \cup {Closed}
  /\ \A c \in Calls : Due(call[c]) => Due(call'[c])

LEMMA ResumeMoves ==
  ASSUME Inv, Resume(call), UNCHANGED server, UNCHANGED <<unswept>>
  PROVE  Moved
<1>1. CASE \E c \in Calls : call[c].at = "refetch"
  <2> DEFINE calls == [c \in Calls |-> IF call[c].at = "refetch" THEN Idle ELSE call[c]]
  <2>1. Shut(calls)
    BY <1>1 DEF Resume
  <2>2. /\ calls \in [Calls -> Requests]
        /\ \A c \in Calls : /\ call[c].at = "revoke" \/ Due(call[c]) => calls[c] = call[c]
                            /\ Keeps(calls[c])
    BY OthersKeep DEF Inv, TypeOK, PatchesKeep, Due
  <2> HIDE DEF calls
  <2>3. QED
    BY <2>1, <2>2, ShutKeeps DEF Moved
<1>2. CASE ~\E c \in Calls : call[c].at = "refetch"
  <2>1. UNCHANGED <<call, modal, acct, made, sess, sign>>
    BY <1>2 DEF Resume, server
  <2>2. RolesHold'
    BY <2>1, RolesStay DEF Inv
  <2>3. QED
    BY <2>1, <2>2 DEF Moved, Inv, TypeOK, ServerTypes, CardTypes, There, PatchesKeep
<1>3. QED
  BY <1>1, <1>2

LEMMA DueOwing ==
  ASSUME \A c \in Calls : Due(call[c]) => Due(call'[c])
  PROVE  Owing => Owing'
<1>1. \A c \in Calls : Due(call[c]) <=> Own(c) /\ call[c].at \in {"revoke", "last", "done"}
  BY DEF Due, Own
<1>2. \A c \in Calls : Due(call'[c]) <=> Own(c)' /\ call'[c].at \in {"revoke", "last", "done"}
  BY DEF Due, Own
<1>3. QED
  BY <1>1, <1>2 DEF Owing

LEMMA ListKeeps ==
  ASSUME AdminAssumption, Inv, Serve \/ Arrive \/ ListFails
  PROVE  Inv'
<1>1. CASE Serve
  <2>1. /\ ask' = [at |-> "back", data |-> acct]
        /\ UNCHANGED <<acct, made, sess, sign, call, list, marked, modal, unswept>>
    BY <1>1 DEF Serve, server
  <2>2. ask' \in [at : {"back"}, data : Tables] /\ ask'.data = acct /\ ask' # NoAsk
    BY <2>1 DEF Inv, TypeOK, ServerTypes, NoAsk
  <2>3. TypeOK'
    BY <2>1, <2>2 DEF Inv, TypeOK, ServerTypes, CardTypes, There
  <2>4. RolesHold' /\ PatchesKeep'
    BY <2>1, RolesStay DEF Inv, PatchesKeep
  <2>5. ListHolds'
    BY <2>1, <2>2 DEF ListHolds
  <2>6. QED
    BY <2>3, <2>4, <2>5 DEF Inv
<1>2. CASE Arrive
  <2>1. /\ ask.at = "back" /\ list' = ask.data /\ ask' = NoAsk /\ Resume(call)
        /\ UNCHANGED <<server, behind, unswept>>
    BY <1>2 DEF Arrive
  <2>2. Moved
    BY <2>1, ResumeMoves
  <2>3. ask.data \in Tables
    BY <2>1 DEF Inv, TypeOK, CardTypes, NoAsk, Sent
  <2>4. Owing => Owing'
    BY <2>2, DueOwing DEF Moved
  <2>5. ListHolds'
    BY <2>1, <2>4 DEF Inv, ListHolds, NoAsk, server
  <2>6. CardTypes'
    BY <2>1, <2>2, <2>3 DEF CardTypes, Moved
  <2>7. QED
    BY <2>2, <2>5, <2>6 DEF Inv, TypeOK, Moved
<1>3. CASE ListFails
  <2>1. /\ ask' = NoAsk /\ marked' = TRUE /\ Resume(call)
        /\ UNCHANGED <<server, list, behind, unswept>>
    BY <1>3 DEF ListFails
  <2>2. Moved
    BY <2>1, ResumeMoves
  <2>3. ListHolds'
    BY <2>1 DEF ListHolds, NoAsk
  <2>4. CardTypes'
    BY <2>1, <2>2 DEF CardTypes, Moved, Inv, TypeOK
  <2>5. QED
    BY <2>2, <2>3, <2>4 DEF Inv, TypeOK, Moved
<1>4. QED
  BY <1>1, <1>2, <1>3

LEMMA OpenKeeps ==
  ASSUME AdminAssumption, Inv,
         OpenCreate \/ \E u \in Worked, mode \in {"edit", "delete"} : OpenRow(u, mode)
  PROVE  Inv'
<1>1. UNCHANGED <<call, server, list, ask, marked, unswept, behind>>
  BY DEF OpenCreate, OpenRow
<1>2. CASE OpenCreate
  <2>1. Account("", "member", NoCeiling) \in Accounts
    BY DEF Account, Accounts, AdminAssumption
  <2>2. OwnerUserID \in Ids
    BY DEF OwnerUserID, Ids, AdminAssumption
  <2>3. modal' \in Dialogs
    BY <1>2, <2>1, <2>2 DEF OpenCreate, Dialog, Dialogs
  <2>4. QED
    BY <1>1, <2>3, NoneMoves
<1>3. ASSUME NEW u \in Worked, NEW mode \in {"edit", "delete"}, OpenRow(u, mode) PROVE Inv'
  <2>1. u \in Ids /\ list[u] \in Accounts
    BY <1>3 DEF OpenRow, AdminAssumption, Ids, Inv, TypeOK, CardTypes, Tables
  <2>2. modal' \in Dialogs
    BY <1>3, <2>1 DEF OpenRow, Dialog, Dialogs
  <2>3. QED
    BY <1>1, <2>2, NoneMoves
<1>4. QED
  BY <1>2, <1>3

\* A dialog that sends its request is busy and is the one it was.
LEMMA BusyDialog ==
  ASSUME modal \in Dialogs
  PROVE  [modal EXCEPT !.busy = TRUE] \in Dialogs /\ [modal EXCEPT !.busy = FALSE] \in Dialogs
BY DEF Dialogs

\* A form says what it does not touch as the row has it.
LEMMA SaveKeeps ==
  ASSUME AdminAssumption, Inv, NEW c \in Calls, Save(c)
  PROVE  Inv'
<1>1. /\ call[c].at = "idle" /\ modal' = [modal EXCEPT !.busy = TRUE]
      /\ UNCHANGED <<server, list, ask, marked, behind, unswept>>
  BY DEF Save
<1>2. modal \in Dialogs
  BY DEF Save, CanSave, Closed, Inv, TypeOK, CardTypes
<1>3. modal.user \in Ids /\ modal.row \in Accounts
  BY <1>2 DEF Dialogs
<1>4. PICK f \in Forms :
        call' = [call EXCEPT ![c] =
          [at |-> IF "password" \in f.touched THEN "password" ELSE "read", by |-> "dialog",
           user |-> modal.user, meant |-> Meant(f), was |-> Same, basis |-> modal.row,
           role |-> f.role, ceiling |-> CeilingOf(f)]]
  BY DEF Save
<1>5. PICK r : r = [at |-> IF "password" \in f.touched THEN "password" ELSE "read", by |-> "dialog",
                    user |-> modal.user, meant |-> Meant(f), was |-> Same, basis |-> modal.row,
                    role |-> f.role, ceiling |-> CeilingOf(f)]
  OBVIOUS
<1>6. /\ f.role \in AllRoles /\ f.ceiling \in Ceilings
      /\ "role" \notin f.touched => f.role = modal.row.role
      /\ "ceiling" \notin f.touched =>
           f.ceiling = IF modal.row.ceiling = NoCeiling THEN "Teen" ELSE modal.row.ceiling
  BY <1>3 DEF Forms, AllRoles, Accounts
<1>7. Meant(f) \in SUBSET {"role", "ceiling"} /\ CeilingOf(f) \in AllCeilings
  BY <1>6 DEF Meant, CeilingOf, AllCeilings
<1>8. r \in Patches
  BY <1>3, <1>5, <1>6, <1>7 DEF Patches, Senders
<1>9. Keeps(r)
  <2>1. r.at \in {"password", "read"} /\ r.role = f.role /\ r.ceiling = CeilingOf(f)
    BY <1>5
  <2>2. r.meant = Meant(f) /\ r.basis = modal.row
    BY <1>5
  <2>3. "role" \notin Meant(f) => "role" \notin f.touched
    BY DEF Meant
  <2>4. "ceiling" \notin Meant(f) => "role" \notin f.touched /\ "ceiling" \notin f.touched
    BY DEF Meant
  <2>5. QED
    BY <1>6, <2>1, <2>2, <2>3, <2>4 DEF Keeps, CeilingOf
<1>10. modal' \in Dialogs /\ r \in Requests /\ call' = [call EXCEPT ![c] = r]
  BY <1>1, <1>2, <1>4, <1>5, <1>8, BusyDialog DEF Requests
<1>11. QED
  BY <1>1, <1>9, <1>10, OneMoves DEF Due

LEMMA SaveNewKeeps ==
  ASSUME AdminAssumption, Inv, NEW c \in Calls, NEW n \in Names, SaveNew(c, n)
  PROVE  Inv'
<1>1. /\ call[c].at = "idle" /\ modal' = [modal EXCEPT !.busy = TRUE]
      /\ UNCHANGED <<server, list, ask, marked, behind, unswept>>
  BY DEF SaveNew
<1>2. modal \in Dialogs /\ modal.row \in Accounts
  BY DEF SaveNew, CanSave, Closed, Inv, TypeOK, CardTypes, Dialogs
<1>3. PICK f \in Forms :
        call' = [call EXCEPT ![c] = [at |-> "create", by |-> "dialog", user |-> OwnerUserID,
                                     name |-> n, role |-> f.role, ceiling |-> CeilingOf(f)]]
  BY DEF SaveNew
<1>4. PICK r : r = [at |-> "create", by |-> "dialog", user |-> OwnerUserID,
                    name |-> n, role |-> f.role, ceiling |-> CeilingOf(f)]
  OBVIOUS
<1>5. f.role \in AllRoles /\ CeilingOf(f) \in AllCeilings /\ OwnerUserID \in Ids
  <2>1. f.role \in AllRoles /\ f.ceiling \in Ceilings
    BY <1>2 DEF Forms, AllRoles, Accounts
  <2>2. CeilingOf(f) \in AllCeilings
    BY <2>1 DEF CeilingOf, AllCeilings
  <2>3. OwnerUserID \in Ids
    BY AdminAssumption DEF OwnerUserID, Ids
  <2>4. QED
    BY <2>1, <2>2, <2>3
<1>6. r \in Creations /\ r.at = "create"
  BY <1>4, <1>5 DEF Creations
<1>7. r \in Requests /\ Keeps(r) /\ call' = [call EXCEPT ![c] = r]
  BY <1>3, <1>4, <1>6 DEF Requests, Keeps
<1>8. modal' \in Dialogs
  BY <1>1, <1>2, BusyDialog
<1>9. QED
  BY <1>1, <1>7, <1>8, OneMoves DEF Due

LEMMA RemoveKeeps ==
  ASSUME AdminAssumption, Inv, NEW c \in Calls, Remove(c)
  PROVE  Inv'
<1>1. /\ call[c].at = "idle" /\ modal' = [modal EXCEPT !.busy = TRUE]
      /\ call' = [call EXCEPT ![c] = [at |-> "delete", by |-> "dialog", user |-> modal.user]]
      /\ UNCHANGED <<server, list, ask, marked, behind, unswept>>
  BY DEF Remove
<1>2. modal \in Dialogs /\ modal.user \in Ids
  BY DEF Remove, CanRemove, Closed, Inv, TypeOK, CardTypes, Dialogs
<1>3. PICK r : r = [at |-> "delete", by |-> "dialog", user |-> modal.user]
  OBVIOUS
<1>4. r \in Others
  BY <1>2, <1>3 DEF Others, Senders
<1>5. r \in Requests /\ Keeps(r) /\ modal' \in Dialogs
  BY <1>1, <1>2, <1>4, OthersKeep, BusyDialog
<1>6. QED
  BY <1>1, <1>3, <1>5, OneMoves DEF Due

LEMMA DismissKeeps ==
  ASSUME AdminAssumption, Inv, Dismiss
  PROVE  Inv'
<1>1. Shut(call) /\ UNCHANGED server /\ UNCHANGED <<list, ask, marked, behind, unswept>>
  BY DEF Dismiss
<1>2. /\ RolesHold' /\ PatchesKeep' /\ ServerTypes' /\ call' \in [Calls -> Requests]
      /\ modal' = Closed /\ \A c \in Calls : Due(call[c]) => Due(call'[c])
  BY <1>1, ShutKeeps DEF Inv, TypeOK, PatchesKeep
<1>3. ListHolds' /\ CardTypes'
  BY <1>1, <1>2, ListStays DEF Inv, TypeOK, CardTypes, server
<1>4. QED
  BY <1>2, <1>3 DEF Inv, TypeOK

\* The answer comes: the list is asked for anew, or the first one is awaited.
LEMMA DoneKeeps ==
  ASSUME AdminAssumption, Inv, NEW c \in Calls, Done(c)
  PROVE  Inv'
<1>1. call[c] \in Others /\ call[c].at = "done"
  BY RequestKinds DEF Done, Inv, TypeOK
<1>2. PICK r : r = [call[c] EXCEPT !.at = "refetch"]
  OBVIOUS
<1>3. r \in Others /\ r.at = "refetch"
  BY <1>1, <1>2 DEF Others
<1>4. r \in Requests /\ Keeps(r)
  BY <1>3, OthersKeep
<1>5. UNCHANGED <<server, list, marked, unswept>>
  BY DEF Done
<1>6. Go(c, "refetch") => call' = [call EXCEPT ![c] = r]
  BY <1>2 DEF Go, Inv, TypeOK
<1>7. CASE list = Nothing /\ ask # NoAsk
  <2>1. /\ call' = [call EXCEPT ![c] = r] /\ UNCHANGED <<ask, modal>>
        /\ behind' = (behind \/ ask # Sent)
    BY <1>6, <1>7 DEF Done
  <2>2. call'[c] = r /\ \A d \in Calls : d # c => call'[d] = call[d]
    BY <2>1 DEF Inv, TypeOK
  <2>3. UNCHANGED <<acct, made, sess, sign>>
    BY <1>5 DEF server
  <2>4. RolesHold'
    BY <1>1, <1>5, <2>2, <2>3, RolesStay DEF Inv
  <2>5. PatchesKeep'
    BY <1>4, <2>2 DEF Inv, PatchesKeep
  <2>6. ListHolds'
    <3>1. (ask.at = "back" => ask # Sent) /\ list' = Nothing
      BY <1>5, <1>7 DEF Sent
    <3>2. ask'.at = "back" => behind'
      BY <2>1, <3>1
    <3>3. QED
      BY <3>1, <3>2 DEF ListHolds
  <2>7. TypeOK'
    BY <1>4, <1>5, <2>1, <2>3 DEF Inv, TypeOK, ServerTypes, CardTypes, There
  <2>8. QED
    BY <2>4, <2>5, <2>6, <2>7 DEF Inv
<1>8. CASE ~(list = Nothing /\ ask # NoAsk)
  <2>1. ask' = Sent
    BY <1>8 DEF Done
  <2>2. ListHolds'
    BY <2>1 DEF ListHolds, Sent, NoAsk
  <2>3. RolesHold' /\ PatchesKeep' /\ ServerTypes' /\ call' \in [Calls -> Requests]
        /\ modal' \in Dialogs \cup {Closed}
    <3>1. CASE \E d \in Calls : call[d].at = "refetch"
      <4> DEFINE calls == [d \in Calls |-> CASE d = c -> r
                                             [] call[d].at = "refetch" -> Idle
                                             [] OTHER -> call[d]]
      <4>1. Shut(calls)
        BY <1>2, <1>8, <3>1 DEF Done
      <4>2. \A d \in Calls : /\ d = c => calls[d] = r
                             /\ d # c /\ call[d].at = "refetch" => calls[d] = Idle
                             /\ d # c /\ call[d].at # "refetch" => calls[d] = call[d]
        BY <1>1
      <4>3. \A d \in Calls : calls[d] \in Requests /\ Keeps(calls[d])
        BY <1>4, <4>2, OthersKeep DEF Inv, TypeOK, PatchesKeep
      <4>4. calls \in [Calls -> Requests]
        BY <4>3
      <4> HIDE DEF calls
      <4>5. call' \in [Calls -> Requests] /\ modal' = Closed
            /\ \A d \in Calls : call'[d] = Freed(calls[d])
        BY <4>1, <4>4, ShutFrees
      <4>6. \A d \in Calls : /\ Freed(calls[d]).at = calls[d].at
                             /\ calls[d].at = "revoke" => Freed(calls[d]).user = calls[d].user
                             /\ Keeps(Freed(calls[d]))
        BY <4>3, <4>4, FreedAlike
      <4>7. UNCHANGED <<acct, made, sess, sign>>
        BY <1>5 DEF server
      <4>8. \A d \in Calls : call[d].at = "revoke" =>
              call'[d].at = "revoke" /\ call'[d].user = call[d].user
        BY <1>1, <4>2, <4>5, <4>6
      <4>9. RolesHold'
        BY <1>5, <4>7, <4>8, RolesStay DEF Inv
      <4>10. QED
        BY <4>5, <4>6, <4>7, <4>9 DEF Inv, TypeOK, ServerTypes, There, PatchesKeep
    <3>2. CASE ~\E d \in Calls : call[d].at = "refetch"
      <4>1. call' = [call EXCEPT ![c] = r] /\ modal' = modal
        BY <1>6, <1>8, <3>2 DEF Done
      <4>2. call'[c] = r /\ \A d \in Calls : d # c => call'[d] = call[d]
        BY <4>1 DEF Inv, TypeOK
      <4>3. UNCHANGED <<acct, made, sess, sign>>
        BY <1>5 DEF server
      <4>4. RolesHold'
        BY <1>1, <1>5, <4>2, <4>3, RolesStay DEF Inv
      <4>5. PatchesKeep'
        BY <1>4, <4>2 DEF Inv, PatchesKeep
      <4>6. QED
        BY <1>4, <4>1, <4>3, <4>4, <4>5 DEF Inv, TypeOK, ServerTypes, CardTypes, There
    <3>3. QED
      BY <3>1, <3>2
  <2>4. CardTypes'
    BY <1>5, <2>1, <2>3 DEF Inv, TypeOK, CardTypes
  <2>5. QED
    BY <2>2, <2>3, <2>4 DEF Inv, TypeOK
<1>9. QED
  BY <1>7, <1>8

LEMMA FailedKeeps ==
  ASSUME AdminAssumption, Inv, NEW c \in Calls, Failed(c)
  PROVE  Inv'
<1>1. /\ call[c].at = "failed" /\ call' = [call EXCEPT ![c] = Idle]
      /\ modal' = IF call[c].by = "dialog" THEN [modal EXCEPT !.busy = FALSE] ELSE modal
      /\ UNCHANGED <<server, list, ask, marked, behind, unswept>>
  BY DEF Failed
<1>2. Idle \in Requests /\ Keeps(Idle)
  BY OthersKeep
<1>3. modal' \in Dialogs \cup {Closed}
  <2>1. CASE modal \in Dialogs
    BY <1>1, <2>1, BusyDialog
  <2>2. CASE modal = Closed
    <3>1. [Closed EXCEPT !.busy = FALSE] = Closed
      BY DEF Closed
    <3>2. QED
      BY <1>1, <2>2, <3>1
  <2>3. QED
    BY <2>1, <2>2 DEF Inv, TypeOK, CardTypes
<1>4. QED
  BY <1>1, <1>2, <1>3, OneMoves DEF Due

-----------------------------------------------------------------------------

LEMMA InitHolds == ASSUME AdminAssumption, NothingIsApart, Init PROVE Inv
<1>1. PICK n \in Names, k \in Ceilings :
        acct = [u \in Ids |-> CASE u = OwnerUserID -> Account("owner", "owner", NoCeiling)
                                [] u = 2 -> Account(n, "restricted", k)
                                [] OTHER -> Nothing]
  BY DEF Init
<1>2. /\ Account("owner", "owner", NoCeiling) \in Accounts /\ Account(n, "restricted", k) \in Accounts
      /\ Account(n, "restricted", k).role = "restricted"
  BY DEF Account, Accounts, AdminAssumption
<1>3. 1 \in Ids /\ 2 \in Ids /\ made = 2 /\ \A u \in Ids : u > 2 => u # 1 /\ u # 2
  BY DEF Ids, AdminAssumption, Init
<1>4. /\ acct[2] = Account(n, "restricted", k)
      /\ \A u \in Ids : acct[u] \in Accounts \cup {Nothing} /\ (u > 2 => acct[u] = Nothing)
  BY <1>1, <1>2, <1>3 DEF OwnerUserID
<1>5. acct \in Tables
  BY <1>1, <1>4 DEF Tables
<1>6. sess = {[user |-> 2, role |-> "restricted", early |-> FALSE]} /\ sign = NoSign
  BY DEF Init
<1>7. sess \subseteq Sessions
  BY <1>3, <1>6 DEF Sessions, AllRoles, AdminAssumption
<1>8. ServerTypes
  BY <1>3, <1>4, <1>5, <1>6, <1>7 DEF ServerTypes, There
<1>9. \A s \in sess : Current(s)
  BY <1>2, <1>4, <1>6 DEF Current, There, NothingIsApart
<1>10. RolesHold
  BY <1>3, <1>6, <1>9 DEF RolesHold, NoSign
<1>11. CardTypes /\ ListHolds
  BY DEF Init, CardTypes, ListHolds, Sent, NoAsk
<1>12. call \in [Calls -> Requests] /\ PatchesKeep
  BY OthersKeep DEF Init, PatchesKeep
<1>13. QED
  BY <1>8, <1>10, <1>11, <1>12 DEF Inv, TypeOK

\* The inductive step, action by action.
LEMMA StepKeeps == ASSUME AdminAssumption, NothingIsApart, Inv, [Next]_vars PROVE Inv'
<1>1. CASE UNCHANGED vars
  <2>1. UNCHANGED <<call, server, list, ask, marked, unswept, behind>> /\ UNCHANGED modal
    BY <1>1 DEF vars, card
  <2>2. QED
    BY <2>1, NoneMoves DEF Inv, TypeOK, CardTypes
<1>2. CASE Next
  <2>1. ASSUME NEW c \in Calls, ServerStep(c) PROVE Inv'
    BY <2>1, PasswordKeeps, LookKeeps, ReadKeeps, UpdateKeeps, RevokeKeeps, AnswerKeeps,
       CreateKeeps, DeleteKeeps DEF ServerStep
  <2>2. ASSUME NEW c \in Calls, CardStep(c) PROVE Inv'
    BY <2>2, SaveKeeps, SaveNewKeeps, RemoveKeeps, DoneKeeps, FailedKeeps DEF CardStep
  <2>3. QED
    BY <1>2, <2>1, <2>2, ElsewhereKeeps, SignInKeeps, IssueKeeps, ListKeeps, OpenKeeps,
       DismissKeeps DEF Next
<1>3. QED
  BY <1>1, <1>2

\* Accounts, sessions, requests, the list and the dialog keep their types, whatever is
\* answered, refused or dismissed in between.
THEOREM TypeCorrect == ASSUME AdminAssumption, NothingIsApart PROVE Spec => []TypeOK
<1>1. Inv => TypeOK
  BY DEF Inv
<1>2. QED
  BY <1>1, InitHolds, StepKeeps, PTL DEF Spec

\* Every session is of its account's present role, but for the excepted, for any number
\* of accounts, administrators and requests at a time.
THEOREM RolesAreSigned ==
  ASSUME AdminAssumption, NothingIsApart
  PROVE  Spec => []RoleChangeSignsOut
<1>1. Inv => RoleChangeSignsOut
  BY DEF Inv, RolesHold, RoleChangeSignsOut, Current, Excused
<1>2. QED
  BY <1>1, InitHolds, StepKeeps, PTL DEF Spec

\* With nothing under way the card lists the accounts there are, but for the excepted.
THEOREM CardListsAccounts ==
  ASSUME AdminAssumption, NothingIsApart
  PROVE  Spec => []ListSettles
<1>1. Inv => ListSettles
  BY DEF Inv, ListHolds, ListSettles, Owing
<1>2. QED
  BY <1>1, InitHolds, StepKeeps, PTL DEF Spec

\* A restricted account's role and ceiling change only by a request whose author set them
\* or had not been shown them.
THEOREM RestrictionsSeen ==
  ASSUME AdminAssumption, NothingIsApart
  PROVE  Spec => NoRestrictionLostUnseen
<1> DEFINE A == \A u \in Ids :
       There(u) /\ acct[u].role = "restricted" /\ acct[u].ceiling # NoCeiling /\ There(u)' =>
         /\ acct'[u].role # acct[u].role => SetBy(u, "role")
         /\ acct'[u].ceiling # acct[u].ceiling => SetBy(u, "ceiling")
<1>1. ASSUME Inv, [Next]_vars PROVE A
  <2>1. ASSUME NEW c \in Calls, UpdateWrites(c), NEW u \in Ids,
               acct[u].role = "restricted", acct[u].ceiling # NoCeiling
        PROVE  /\ acct'[u].role # acct[u].role => SetBy(u, "role")
               /\ acct'[u].ceiling # acct[u].ceiling => SetBy(u, "ceiling")
    <3>1. CASE u # call[c].user
      BY <1>1, <2>1, <3>1, UpdateRow
    <3>2. CASE u = call[c].user
      <4>1. /\ call[c].at = "write" /\ acct'[u].role = call[c].role
            /\ acct'[u].ceiling = call[c].ceiling
        BY <1>1, <2>1, <3>2, UpdateRow
      <4>2. Keeps(call[c])
        BY <1>1 DEF Inv, PatchesKeep
      <4>3. QED
        BY <2>1, <3>2, <4>1, <4>2 DEF Keeps, SetBy
    <3>3. QED
      BY <3>1, <3>2
  <2>2. ASSUME NEW c \in Calls, Create(c), NEW u \in Ids, There(u) PROVE acct'[u] = acct[u]
    <3>1. made + 1 > made /\ u # made + 1
      BY <1>1, <2>2 DEF Inv, TypeOK, ServerTypes, Ids
    <3>2. QED
      BY <1>1, <2>2, <3>1 DEF Create, Inv, TypeOK, ServerTypes, Tables
  <2>3. ASSUME NEW c \in Calls, Delete(c), NEW u \in Ids, There(u)' PROVE acct'[u] = acct[u]
    BY <1>1, <2>3 DEF Delete, There, Inv, TypeOK, ServerTypes, Tables
  <2>4. ASSUME NEW c \in Calls,
               \/ SetUserPassword(c) \/ Look(c) \/ UpdateReads(c) \/ Revoke(c)
               \/ PatchAnswers(c) \/ Refused(c) \/ CardStep(c) \/ \E u \in Worked : Elsewhere(c, u)
        PROVE  acct' = acct
    BY <2>4 DEF SetUserPassword, Look, UpdateReads, Revoke, PatchAnswers, Refused, CardStep,
       Save, SaveNew, Remove, Done, Failed, Elsewhere, server
  <2>5. ASSUME \/ \E u \in Worked : SignIn(u) \/ \E mode \in {"edit", "delete"} : OpenRow(u, mode)
               \/ Issue \/ Serve \/ Arrive \/ ListFails \/ OpenCreate \/ Dismiss
               \/ UNCHANGED vars
        PROVE  acct' = acct
    BY <2>5 DEF SignIn, OpenRow, Issue, Serve, Arrive, ListFails, OpenCreate, Dismiss, vars, server
  <2>6. acct' = acct => A
    BY DEF There
  <2>7. (\E c \in Calls : UpdateWrites(c)) => A
    BY <2>1
  <2>8. (\E c \in Calls : Create(c) \/ Delete(c)) => A
    BY <2>2, <2>3
  <2> HIDE DEF A
  <2>9. QED
    BY <1>1, <2>4, <2>5, <2>6, <2>7, <2>8 DEF Next, ServerStep
<1>2. Inv /\ [Next]_vars => [A]_vars
  BY <1>1
<1>3. QED
  BY <1>2, InitHolds, StepKeeps, PTL DEF Spec, NoRestrictionLostUnseen
=============================================================================
