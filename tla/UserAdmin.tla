------------------------------ MODULE UserAdmin ------------------------------
(***************************************************************************)
(* Administering accounts: the users card of the settings screen and its   *)
(* dialogs (components/UsersCard.tsx), over the server's handlers          *)
(* (transport/http/users.go), its auth service (service/auth/auth.go) and  *)
(* the tables of accounts and sessions (sqlstore/user.go), which no        *)
(* transaction holds together.                                             *)
(*                                                                         *)
(* Other administrators send requests of their own.  The card is told of   *)
(* nothing: it reads the list again only after its own changes.  Display   *)
(* names are left out: a save that changes nothing else is one of those.   *)
(***************************************************************************)
EXTENDS Naturals

CONSTANTS
  Names,     \* usernames of the accounts that may be created
  Roles,     \* the roles that are given out
  Ceilings,
  NoCeiling, \* "": unrestricted
  Same,      \* a field a PATCH does not send
  Nothing,   \* no account; no list yet
  Calls,     \* the requests on their way at a time
  MaxIds,    \* bound of the accounts made
  Worked,    \* those anybody works on
  MaxActs    \* bound of the dialogs opened, others' requests and sign-ins

ASSUME AdminAssumption ==
  /\ {"member", "restricted"} \subseteq Roles /\ "Teen" \in Ceilings
  /\ NoCeiling \notin Ceilings /\ Same \notin Roles \cup Ceilings \cup {NoCeiling}
  /\ MaxIds \in Nat /\ MaxIds >= 2 /\ Worked \subseteq 1 .. MaxIds /\ MaxActs \in Nat

VARIABLES
  acct,     \* id -> account: the user table
  made,     \* ids given out
  sess,     \* the sessions, with the role each was issued for
  sign,     \* the sign-in under way: the account it read
  call,     \* the requests
  list,     \* the card's list, as last fetched
  ask,      \* its request: none, sent, or back with what it read
  marked,   \* the list is invalid and nothing is fetching it
  modal,    \* the open dialog and what is typed into it
  acts,
  behind,   \* history: accounts changed since the list was read, and no refetch will follow
  unswept   \* history: accounts whose role changed unnoticed, or whose sessions could not be deleted

server == <<acct, made, sess, sign>>
card == <<list, ask, marked, modal>>
vars == <<server, call, card, acts, behind, unswept>>

Ids == 1 .. MaxIds
OwnerUserID == 1
NoSign == [user |-> 0]
NoAsk == [at |-> "none"]
Sent == [at |-> "sent"]
Closed == [mode |-> "none"]
Idle == [at |-> "idle"]

Account(name, role, ceiling) == [name |-> name, role |-> role, ceiling |-> ceiling]
Accounts == [name : Names \cup {"owner", ""}, role : Roles \cup {"owner"},
             ceiling : Ceilings \cup {NoCeiling}]
ASSUME NothingIsApart == Nothing \notin Accounts
There(u) == acct[u] # Nothing

\* The owner and one account of each other kind there is room for.
Init ==
  /\ \E n \in Names : \E k \in Ceilings :
       acct = [u \in Ids |->
                 CASE u = OwnerUserID -> Account("owner", "owner", NoCeiling)
                   [] u = 2 -> Account(n, "restricted", k)
                   [] OTHER -> Nothing]
  /\ made = 2
  /\ sess = {[user |-> 2, role |-> "restricted", early |-> FALSE]}
  /\ sign = NoSign
  /\ call = [c \in Calls |-> Idle]
  /\ list = Nothing /\ ask = Sent /\ marked = FALSE
  /\ modal = Closed /\ acts = 0
  /\ behind = FALSE /\ unswept = {}

Act == acts < MaxActs /\ acts' = acts + 1

-----------------------------------------------------------------------------
(* The server.                                                             *)

Go(c, stage) == call' = [call EXCEPT ![c].at = stage]

\* On, with no more to send: nobody here waits for another administrator's request.
On(c, stage) ==
  call' = [call EXCEPT ![c] = IF @.by = "elsewhere" /\ stage # "revoke" THEN Idle
                              ELSE [at |-> stage, by |-> @.by, user |-> @.user]]
Own(c) == call[c].at # "idle" /\ call[c].by # "elsewhere"

\* DeleteForUser: those about to be stored are not there to be deleted.
Swept(u) ==
  /\ sess' = {s \in sess : s.user # u}
  /\ sign' = IF sign.user = u THEN [sign EXCEPT !.early = TRUE] ELSE sign

\* SetUserPassword; its effect on sign-ins is ClientSession's subject.
SetUserPassword(c) ==
  /\ call[c].at = "password"
  /\ There(call[c].user)
  /\ Swept(call[c].user) /\ unswept' = unswept \ {call[c].user}
  /\ Go(c, "read")
  /\ UNCHANGED <<acct, made, card, acts, behind>>

OrElse(sent, stored) == IF sent = Same THEN stored ELSE sent

LookAtBlank(c) ==  \* mutation: what was not sent is blank
  /\ call[c].at = "look" /\ There(call[c].user)
  /\ LET r == call[c] IN
     call' = [call EXCEPT ![c] = [r EXCEPT !.at = "read", !.role = OrElse(r.role, "member"),
                !.ceiling = OrElse(r.ceiling, NoCeiling), !.basis = acct[r.user]]]
  /\ UNCHANGED <<server, card, acts, behind, unswept>>

\* The handler reads the account for the fields that were not sent; a form sends all.
Look(c) ==
  /\ call[c].at = "look" /\ There(call[c].user)
  /\ LET r == call[c]
         cur == acct[r.user]
     IN call' = [call EXCEPT ![c] = [r EXCEPT !.at = "read", !.role = OrElse(r.role, cur.role),
                   !.ceiling = OrElse(r.ceiling, cur.ceiling), !.basis = cur]]
  /\ UNCHANGED <<server, card, acts, behind, unswept>>

\* UpdateUser reads it again, writes every field, then compares the roles.
UpdateReads(c) ==
  /\ call[c].at = "read" /\ There(call[c].user)
  /\ call' = [call EXCEPT ![c].at = "write", ![c].was = acct[call[c].user].role]
  /\ UNCHANGED <<server, card, acts, behind, unswept>>

UpdateWritesFirst(c) ==  \* mutation: the role is compared with the row just written
  /\ call[c].at = "write" /\ There(call[c].user)
  /\ acct' = [acct EXCEPT ![call[c].user].role = call[c].role,
                          ![call[c].user].ceiling = call[c].ceiling]
  /\ On(c, "last")
  /\ behind' = (behind \/ ~Own(c))
  /\ UNCHANGED <<made, sess, sign, card, acts, unswept>>

UpdateWrites(c) ==
  LET u == call[c].user IN
  /\ call[c].at = "write" /\ There(u)
  /\ acct' = [acct EXCEPT ![u].role = call[c].role, ![u].ceiling = call[c].ceiling]
  /\ On(c, IF call[c].role # call[c].was THEN "revoke" ELSE "last")
  /\ behind' = (behind \/ ~Own(c))
  /\ unswept' = IF acct[u].role # call[c].was /\ call[c].role = call[c].was
                THEN unswept \cup {u} ELSE unswept
  /\ UNCHANGED <<made, sess, sign, card, acts>>

\* The error of DeleteForUser is dropped: a request whose sender has gone away
\* cannot delete either.
Revoke(c) ==
  /\ call[c].at = "revoke"
  /\ \/ Swept(call[c].user) /\ unswept' = unswept \ {call[c].user}
     \/ UNCHANGED <<sess, sign>> /\ unswept' = unswept \cup {call[c].user}
  /\ On(c, "last")
  /\ UNCHANGED <<acct, made, card, acts, behind>>

\* The account is read once more for the answer.
PatchAnswers(c) ==
  /\ call[c].at = "last" /\ There(call[c].user)
  /\ On(c, "done")
  /\ UNCHANGED <<server, card, acts, behind, unswept>>

Create(c) ==
  /\ call[c].at = "create" /\ made < MaxIds
  /\ \A u \in Ids : There(u) => acct[u].name # call[c].name
  /\ made' = made + 1
  /\ acct' = [acct EXCEPT ![made + 1] = Account(call[c].name, call[c].role, call[c].ceiling)]
  /\ On(c, "done")
  /\ UNCHANGED <<sess, sign, card, acts, behind, unswept>>

\* The sessions go with the account.
Delete(c) ==
  LET u == call[c].user IN
  /\ call[c].at = "delete" /\ u # OwnerUserID /\ There(u)
  /\ acct' = [acct EXCEPT ![u] = Nothing]
  /\ sess' = {s \in sess : s.user # u}
  /\ unswept' = unswept \ {u}
  /\ On(c, "done")
  /\ behind' = (behind \/ ~Own(c))
  /\ UNCHANGED <<made, sign, card, acts>>

\* The account is gone, the owner's, or the name taken; a query fails; or the
\* answer is lost, which the client cannot tell from the others.
Refused(c) ==
  /\ call[c].at \in {"password", "look", "read", "write", "last", "create", "delete", "done"}
  /\ On(c, "failed")
  /\ behind' = (behind \/ call[c].at \in {"last", "done"})
  /\ UNCHANGED <<server, card, acts, unswept>>

\* Login or Refresh: the account is read, then a session stored for it.  The owner
\* has no password.
SignIn(u) ==
  /\ Act /\ sign = NoSign /\ There(u) /\ u # OwnerUserID
  /\ sign' = [user |-> u, role |-> acct[u].role, early |-> FALSE]
  /\ UNCHANGED <<acct, made, sess, call, card, behind, unswept>>

Issue ==
  /\ sign # NoSign
  /\ sess' = IF There(sign.user) THEN sess \cup {sign} ELSE sess
  /\ sign' = NoSign
  /\ UNCHANGED <<acct, made, call, card, acts, behind, unswept>>

\* Another administrator's request: one field of a PATCH, or a deletion.
Elsewhere(c, u) ==
  /\ Act /\ call[c].at = "idle" /\ There(u)
  /\ \/ \E r \in Roles \cup {Same}, k \in Ceilings \cup {Same} :
          /\ (r = Same) # (k = Same)
          /\ call' = [call EXCEPT ![c] = [at |-> "look", by |-> "elsewhere", user |-> u, role |-> r,
                        ceiling |-> k, was |-> Same, basis |-> acct[u],
                        meant |-> IF r = Same THEN {"ceiling"} ELSE {"role"}]]
     \/ call' = [call EXCEPT ![c] = [at |-> "delete", by |-> "elsewhere", user |-> u]]
  /\ UNCHANGED <<server, card, behind, unswept>>

ServerStep(c) ==
  \/ SetUserPassword(c) \/ Look(c) \/ UpdateReads(c) \/ UpdateWrites(c) \/ Revoke(c)
  \/ PatchAnswers(c) \/ Create(c) \/ Delete(c) \/ Refused(c)

-----------------------------------------------------------------------------
(* The list.                                                               *)

\* A dialog goes; what it has sent runs on without it.
Shut(calls) ==
  /\ modal' = Closed
  /\ call' = [c \in Calls |-> IF calls[c].at # "idle" /\ calls[c].by = "dialog"
                              THEN [calls[c] EXCEPT !.by = "nobody"] ELSE calls[c]]

\* The request for the list ends, however it does: those who awaited it close the
\* dialog, whichever is open by now.
Resume(calls) ==
  IF \E c \in Calls : calls[c].at = "refetch"
  THEN Shut([c \in Calls |-> IF calls[c].at = "refetch" THEN Idle ELSE calls[c]])
  ELSE call' = calls /\ UNCHANGED modal

Serve ==
  /\ ask = Sent
  /\ ask' = [at |-> "back", data |-> acct]
  /\ behind' = FALSE
  /\ UNCHANGED <<server, call, list, marked, modal, acts, unswept>>

Arrive ==
  /\ ask.at = "back"
  /\ list' = ask.data /\ ask' = NoAsk /\ marked' = FALSE
  /\ Resume(call)
  /\ UNCHANGED <<server, acts, behind, unswept>>

ListFails ==
  /\ ask # NoAsk
  /\ ask' = NoAsk /\ marked' = TRUE
  /\ Resume(call)
  /\ UNCHANGED <<server, list, acts, behind, unswept>>

-----------------------------------------------------------------------------
(* The card and its dialogs.                                               *)

Dialog(mode, u, row) == [mode |-> mode, user |-> u, row |-> row, busy |-> FALSE]

OpenCreate ==
  /\ Act /\ modal = Closed
  /\ modal' = Dialog("create", OwnerUserID, Account("", "member", NoCeiling))
  /\ UNCHANGED <<server, call, list, ask, marked, behind, unswept>>

\* A row's buttons; an owner cannot be deleted.
OpenRow(u, mode) ==
  /\ Act /\ modal = Closed
  /\ list # Nothing /\ list[u] # Nothing
  /\ mode = "delete" => list[u].role # "owner"
  /\ modal' = Dialog(mode, u, list[u])
  /\ UNCHANGED <<server, call, list, ask, marked, behind, unswept>>

\* What the dialog's form may hold: the row it was opened on but for the fields touched.
\* The ceiling begins as the row's, or Teen, and shows for restricted accounts only.
Forms ==
  {f \in [role : Roles \cup {modal.row.role}, ceiling : Ceilings, touched : SUBSET {"role", "ceiling", "password"}] :
     /\ "role" \notin f.touched => f.role = modal.row.role
     /\ "ceiling" \in f.touched => f.role = "restricted"
     /\ "ceiling" \notin f.touched =>
          f.ceiling = IF modal.row.ceiling = NoCeiling THEN "Teen" ELSE modal.row.ceiling
     /\ modal.user = OwnerUserID => "password" \notin f.touched}

\* save: every field goes out as the form has it, touched or not.
CeilingOf(f) == IF f.role = "restricted" THEN f.ceiling ELSE NoCeiling

\* The role decides whether there is a ceiling.
Meant(f) == IF "role" \in f.touched THEN {"role", "ceiling"} ELSE f.touched \cap {"ceiling"}

\* A dialog's button sends one request at a time.
CanSave(mode) == modal.mode = mode /\ ~modal.busy
CanRemove == modal.mode = "delete" /\ ~modal.busy

Save(c) ==
  /\ CanSave("edit") /\ call[c].at = "idle"
  /\ modal' = [modal EXCEPT !.busy = TRUE]
  /\ \E f \in Forms :
       call' = [call EXCEPT ![c] =
         [at |-> IF "password" \in f.touched THEN "password" ELSE "read", by |-> "dialog",
          user |-> modal.user, meant |-> Meant(f), was |-> Same, basis |-> modal.row,
          role |-> f.role, ceiling |-> CeilingOf(f)]]
  /\ UNCHANGED <<server, list, ask, marked, acts, behind, unswept>>

SaveNew(c, n) ==
  /\ CanSave("create") /\ call[c].at = "idle"
  /\ modal' = [modal EXCEPT !.busy = TRUE]
  /\ \E f \in Forms :
       call' = [call EXCEPT ![c] = [at |-> "create", by |-> "dialog", user |-> OwnerUserID,
                                    name |-> n, role |-> f.role, ceiling |-> CeilingOf(f)]]
  /\ UNCHANGED <<server, list, ask, marked, acts, behind, unswept>>

Remove(c) ==
  /\ CanRemove /\ call[c].at = "idle"
  /\ modal' = [modal EXCEPT !.busy = TRUE]
  /\ call' = [call EXCEPT ![c] = [at |-> "delete", by |-> "dialog", user |-> modal.user]]
  /\ UNCHANGED <<server, list, ask, marked, acts, behind, unswept>>

\* The cross and the backdrop close a dialog even while it is busy.
Dismiss ==
  /\ modal # Closed
  /\ Shut(call)
  /\ UNCHANGED <<server, list, ask, marked, acts, behind, unswept>>

DoneQuietly(c) ==  \* mutation: the list is not invalidated
  /\ call[c].at = "done"
  /\ Shut([call EXCEPT ![c] = Idle])
  /\ UNCHANGED <<server, list, ask, marked, acts, behind, unswept>>

\* The answer comes.  The list is fetched anew, in place of the request under way, and
\* awaited; a first request under way is awaited as it is.
Done(c) ==
  /\ call[c].at = "done"
  /\ IF list = Nothing /\ ask # NoAsk
     THEN /\ Go(c, "refetch")
          /\ behind' = (behind \/ ask # Sent) /\ UNCHANGED <<ask, modal>>
     ELSE /\ IF \E d \in Calls : call[d].at = "refetch"
             THEN Shut([d \in Calls |-> CASE d = c -> [call[c] EXCEPT !.at = "refetch"]
                                          [] call[d].at = "refetch" -> Idle
                                          [] OTHER -> call[d]])
             ELSE Go(c, "refetch") /\ UNCHANGED modal
          /\ ask' = Sent /\ UNCHANGED behind
  /\ UNCHANGED <<server, list, marked, acts, unswept>>

Failed(c) ==
  /\ call[c].at = "failed"
  /\ call' = [call EXCEPT ![c] = Idle]
  /\ modal' = IF call[c].by = "dialog" THEN [modal EXCEPT !.busy = FALSE] ELSE modal
  /\ UNCHANGED <<server, list, ask, marked, acts, behind, unswept>>

CardStep(c) == Save(c) \/ Remove(c) \/ Done(c) \/ Failed(c) \/ \E n \in Names : SaveNew(c, n)

Next ==
  \/ \E c \in Calls : ServerStep(c) \/ CardStep(c) \/ \E u \in Worked : Elsewhere(c, u)
  \/ \E u \in Worked : SignIn(u) \/ \E mode \in {"edit", "delete"} : OpenRow(u, mode)
  \/ Issue \/ Serve \/ Arrive \/ ListFails \/ OpenCreate \/ Dismiss

Spec == Init /\ [][Next]_vars
-----------------------------------------------------------------------------
\* "A role change revokes the user's sessions so a downgrade ... takes effect immediately"
\* (auth.go:213-215), and a deleted account has none: every session left is of its account's
\* present role, but while the change is being made, for a sign-in that overtook it, and
\* after changes that crossed each other or a revocation that failed.
RoleChangeSignsOut ==
  \A s \in sess :
    \/ There(s.user) /\ acct[s.user].role = s.role
    \/ s.early \/ s.user \in unswept
    \/ \E c \in Calls : call[c].at = "revoke" /\ call[c].user = s.user

SetBy(u, field) ==
  \E c \in Calls :
    /\ call[c].at = "write" /\ call[c].user = u
    /\ (field \in call[c].meant \/ call[c].basis # acct[u])

\* A restricted account's role and ceiling change only by a request whose author set them,
\* or had not been shown them: a save of the name or the password, and a PATCH that leaves
\* a field out, keep what the form was opened on, or the handler read.
NoRestrictionLostUnseen ==
  [][\A u \in Ids :
       There(u) /\ acct[u].role = "restricted" /\ acct[u].ceiling # NoCeiling /\ There(u)' =>
         /\ acct'[u].role # acct[u].role => SetBy(u, "role")
         /\ acct'[u].ceiling # acct[u].ceiling => SetBy(u, "ceiling")]_vars

\* With nothing under way the card lists the accounts there are, unless others changed them,
\* an answer was lost, the list could not be read, or the first one was read before the change.
ListSettles ==
  list # Nothing /\ ask = NoAsk /\ ~marked /\ ~behind /\ (\A c \in Calls : ~Own(c)) => list = acct
=============================================================================
