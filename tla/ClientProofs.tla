--------------------------- MODULE ClientProofs ---------------------------
(***************************************************************************)
(* The clients, for any users, servers, requests, issues, members and      *)
(* mutations, and any bounds.                                              *)
(* ClientSession: the invariant adds to its four properties what a refresh *)
(* remembers of its pair from one query to the next, and that the          *)
(* handshake of a page load is alone.                                      *)
(* ClientCache: a view that is not right has something under way that will *)
(* refresh it, and that is what each step passes on.                       *)
(***************************************************************************)
EXTENDS ClientSession, ClientCache, TLAPS

Types ==
  /\ home \in [Users -> Servers]
  /\ issued \in 0 .. MaxPairs
  /\ owner \in [Pairs -> Users \cup {NoUser}] /\ gen \in [Pairs -> Nat]
  /\ sess \subseteq 1 .. issued
  /\ \A p \in 1 .. issued : owner[p] \in Users
  /\ pw \in [Users -> Nat]
  /\ cur \in Clients /\ at = [c \in Clients |-> at[c]]

RequestRecords ==
  [stage : Stages, by : Clients \cup {Gone}, pair : Pairs \cup {None}, got : Pairs \cup {None},
   retried : BOOLEAN, boot : BOOLEAN, early : BOOLEAN]

Calls == req \in [Requests -> RequestRecords]

Logins ==
  /\ login \in [stage : {"none", "verified", "issued"}, user : Users \cup {NoUser},
                gen : Nat, got : Pairs \cup {None}, early : BOOLEAN]
  /\ login.stage # "none" => login.user \in Users /\ cur < MaxClients
  /\ leaving \in [pair : Pairs \cup {None}, by : Clients \cup {Gone}]

\* No pair is held before it is issued.
Holders ==
  /\ stored \in 0 .. issued /\ token \in 0 .. issued
  /\ \A r \in Requests : req[r].pair \in 0 .. issued /\ req[r].got \in 0 .. issued
  /\ login.got \in 0 .. issued /\ leaving.pair \in 0 .. issued

\* A request under way is of a client object there has been.
Senders == \A r \in Requests : req[r].stage # "idle" => req[r].by \in 1 .. cur

\* What a refresh found holds to its end: its pair is of its server and, once deleted, gone.
Refreshes ==
  \A r \in Requests :
    /\ req[r].stage \in {"refresh", "found", "deleted", "answered"} => req[r].pair \in 1 .. issued
    /\ req[r].stage \in {"found", "deleted"} => IssuedAt(req[r].pair, req[r].by)
    /\ req[r].stage \in {"deleted", "answered"} => req[r].pair \notin sess
    /\ req[r].stage = "answered" => req[r].got \in 1 .. issued /\ IssuedAt(req[r].got, req[r].by)
    /\ req[r].stage # "answered" => req[r].got = None

\* A sign-in or a refresh whose pair descends from an old password knows it was overtaken,
\* or will be told.
Outdated ==
  /\ \A r \in Requests :
       req[r].stage \in {"found", "deleted"} /\ gen[req[r].pair] < pw[owner[req[r].pair]] =>
         owner[req[r].pair] \in changing \/ req[r].early
  /\ login.stage = "verified" /\ login.gen < pw[login.user] =>
       login.user \in changing \/ login.early

\* Signed out, with nothing to bring a pair back.
SignedOff == away => stored = None /\ \A r \in Requests : ~Refreshing(r)

\* A sign-in's answer is for the user who signs in.
Answers ==
  /\ login.stage = "issued" => login.got \in 1 .. issued /\ owner[login.got] = login.user
  /\ login.stage # "issued" => login.got = None

\* The handshake of a page load is alone, and sends the pair its client object does.
Boots ==
  \A r \in Requests : req[r].stage # "idle" /\ req[r].boot =>
    /\ screen = "starting" /\ login.stage = "none"
    /\ req[r].by = cur /\ (req[r].stage = "sent" => req[r].pair = token)
    /\ \A q \in Requests \ {r} : req[q].stage = "idle"

Inv ==
  /\ Types /\ Calls /\ Logins /\ Holders /\ Senders /\ Refreshes /\ Outdated /\ Answers /\ Boots
  /\ SessionsAreHeld /\ RevocationHolds /\ SignedOff /\ ActsAsShown

\* Steps of the connect card, and those that change nothing the invariant speaks of.
Quiet ==
  \/ Back \/ Connected \/ ConnectFails \/ (\E s \in Servers : establish(s))
  \/ ExpireAccess \/ UNCHANGED vars

------------------------------------------------------------------------------
\* A pair is issued: the others are what they were.
LEMMA IssueFacts ==
  ASSUME Types, NEW u \in Users, NEW g \in Nat, issue(u, g)
  PROVE  /\ issued' = issued + 1 /\ issued + 1 \in Pairs
         /\ owner' \in [Pairs -> Users \cup {NoUser}] /\ gen' \in [Pairs -> Nat]
         /\ owner'[issued + 1] = u /\ gen'[issued + 1] = g
         /\ \A p \in 1 .. issued : owner'[p] = owner[p] /\ gen'[p] = gen[p]
         /\ sess' = sess \cup {issued + 1} /\ issued + 1 \notin sess
BY SessionAssumption DEF Types, issue, Pairs

USE DEF None, Gone

------------------------------------------------------------------------------
LEMMA InitInv == Init => Inv
<1> SUFFICES ASSUME Init PROVE Inv
  OBVIOUS
<1> USE SessionAssumption DEF Pairs, None, Clients, Gone
<1>1. PICK u \in Users :
        /\ home \in [Users -> Servers]
        /\ owner = [p \in Pairs |-> IF p = 1 THEN u ELSE NoUser]
        /\ at = [c \in Clients |-> home[u]] /\ user = u
  BY DEF Init
<1>2. Types
  BY <1>1 DEF Init, Types
<1>7. Calls /\ Logins /\ Holders
  BY DEF Init, Calls, Logins, Holders, RequestRecords, NoRequest, NoLogin, Staying, Stages
<1>3. Senders /\ Refreshes /\ Boots
  BY DEF Init, Senders, Refreshes, Boots, NoRequest
<1>4. Outdated /\ Answers /\ SignedOff
  BY DEF Init, Outdated, Answers, SignedOff, NoRequest, NoLogin
<1>5. SessionsAreHeld /\ ActsAsShown
  BY <1>1 DEF Init, SessionsAreHeld, ActsAsShown, IssuedAt
<1>6. RevocationHolds
  BY <1>1 DEF Init, RevocationHolds
<1> QED BY <1>2, <1>3, <1>4, <1>5, <1>6, <1>7 DEF Inv
\* The app sends a request.
LEMMA SendStep ==
  ASSUME Inv, NEW r \in Requests, Send(r)
  PROVE  Inv'
<1>1. Types /\ Calls /\ Logins /\ Holders /\ Senders /\ Refreshes /\ Outdated /\ Answers /\ Boots
      /\ SessionsAreHeld /\ RevocationHolds /\ SignedOff /\ ActsAsShown
  BY DEF Inv
<1>2. /\ screen = "ready"
      /\ req[r].stage = "idle"
      /\ req' = [req EXCEPT ![r] = [NoRequest EXCEPT !.stage = "sent", !.by = cur, !.pair = token]]
      /\ UNCHANGED <<home, issued, owner, gen, sess, pw, changing, stored, user,
                      disconnected, screen, cur, token, at, adrift, early, away, crossed,
                      login, leaving>>
  BY DEF Send, AppShown, server, sessions, client, shown, object, history
<1>3. /\ Calls'
      /\ req'[r].stage = "sent" /\ req'[r].by = cur /\ req'[r].pair = token /\ req'[r].got = None
      /\ req'[r].boot = FALSE
      /\ \A q \in Requests \ {r} : req'[q] = req[q]
  <2>1. cur \in Clients /\ token \in Pairs \cup {None}
    BY <1>1, <1>2, SessionAssumption DEF Types, Holders, Pairs, Clients
  <2>2. [NoRequest EXCEPT !.stage = "sent", !.by = cur, !.pair = token] \in RequestRecords
    BY <1>1, <1>2, <2>1 DEF NoRequest, Calls, RequestRecords, Stages
  <2> QED BY <1>1, <1>2, <2>2 DEF NoRequest, Calls, RequestRecords
<1>4. Types' /\ Logins' /\ Answers' /\ RevocationHolds'
  BY SessionAssumption, <1>1, <1>2, <1>3
  DEF Types, Pairs, Logins, Answers, RevocationHolds, Outdated, Holders, IssuedAt
<1>5. Holders'
  BY SessionAssumption, <1>1, <1>2, <1>3 DEF Holders, Types
<1>6. Senders'
  BY SessionAssumption, <1>1, <1>2, <1>3 DEF Senders, Types, Clients
<1>7. Refreshes'
  BY SessionAssumption, <1>1, <1>2, <1>3 DEF Refreshes, Types, Holders, Senders, IssuedAt
<1>8. Outdated'
  BY SessionAssumption, <1>1, <1>2, <1>3 DEF Outdated, Refreshes, RevocationHolds, Types
<1>9. Boots'
  BY SessionAssumption, <1>1, <1>2, <1>3 DEF Boots
<1>10. SessionsAreHeld'
  BY SessionAssumption, <1>1, <1>2, <1>3
  DEF SessionsAreHeld, Holders, Refreshes, Answers, Types
<1>11. SignedOff'
  BY SessionAssumption, <1>1, <1>2, <1>3 DEF SignedOff, Refreshing
<1>12. ActsAsShown'
  BY SessionAssumption, <1>1, <1>2, <1>3
  DEF ActsAsShown, AppShown, IssuedAt, Holders, Senders, Refreshes, Answers, Boots, Types
<1> QED BY <1>3, <1>4, <1>5, <1>6, <1>7, <1>8, <1>9, <1>10, <1>11, <1>12 DEF Inv

\* A request is answered.
LEMMA ServedStep ==
  ASSUME Inv, NEW r \in Requests, Served(r)
  PROVE  Inv'
<1>1. Types /\ Calls /\ Logins /\ Holders /\ Senders /\ Refreshes /\ Outdated /\ Answers /\ Boots
      /\ SessionsAreHeld /\ RevocationHolds /\ SignedOff /\ ActsAsShown
  BY DEF Inv
<1>2. /\ req' = [req EXCEPT ![r] = NoRequest]
      /\ req[r].stage = "sent" /\ IssuedAt(req[r].pair, req[r].by)
      /\ \/ req[r].boot /\ user' = owner[req[r].pair] /\ ~disconnected' /\ screen' = "ready"
         \/ ~req[r].boot /\ UNCHANGED <<user, disconnected, screen>>
      /\ UNCHANGED <<home, issued, owner, gen, sess, pw, changing, stored, cur, token,
                      at, adrift, early, away, crossed, login, leaving>>
  BY DEF Served, Valid, server, sessions, client, shown, object, history
<1>3. /\ Calls'
      /\ req'[r].stage = "idle" /\ req'[r].got = None /\ req'[r].pair = None
      /\ \A q \in Requests \ {r} : req'[q] = req[q]
  BY <1>1, <1>2 DEF Calls, RequestRecords, NoRequest, Stages
<1>4. Types' /\ Logins' /\ Answers' /\ RevocationHolds'
  BY SessionAssumption, <1>1, <1>2, <1>3
  DEF Types, Pairs, Logins, Answers, RevocationHolds, Outdated, Holders, IssuedAt
<1>5. Holders'
  BY SessionAssumption, <1>1, <1>2, <1>3 DEF Holders, Types
<1>6. Senders'
  BY SessionAssumption, <1>1, <1>2, <1>3 DEF Senders, Types, Clients
<1>7. Refreshes'
  BY SessionAssumption, <1>1, <1>2, <1>3 DEF Refreshes, Types, Holders, Senders, IssuedAt
<1>8. Outdated'
  BY SessionAssumption, <1>1, <1>2, <1>3 DEF Outdated, Refreshes, RevocationHolds, Types
<1>9. Boots'
  BY SessionAssumption, <1>1, <1>2, <1>3 DEF Boots
<1>10. SessionsAreHeld'
  BY SessionAssumption, <1>1, <1>2, <1>3
  DEF SessionsAreHeld, Holders, Refreshes, Answers, Types
<1>11. SignedOff'
  BY SessionAssumption, <1>1, <1>2, <1>3 DEF SignedOff, Refreshing
<1>12. ActsAsShown'
  BY SessionAssumption, <1>1, <1>2, <1>3
  DEF ActsAsShown, AppShown, IssuedAt, Holders, Senders, Refreshes, Answers, Boots, Types
<1> QED BY <1>3, <1>4, <1>5, <1>6, <1>7, <1>8, <1>9, <1>10, <1>11, <1>12 DEF Inv

\* A request is answered 401.
LEMMA UnauthorizedStep ==
  ASSUME Inv, NEW r \in Requests, Unauthorized(r)
  PROVE  Inv'
<1>1. Types /\ Calls /\ Logins /\ Holders /\ Senders /\ Refreshes /\ Outdated /\ Answers /\ Boots
      /\ SessionsAreHeld /\ RevocationHolds /\ SignedOff /\ ActsAsShown
  BY DEF Inv
<1>2. /\ req[r].stage = "sent"
      /\ \/ req' = [req EXCEPT ![r] = NoRequest] /\ (screen' = "auth" \/ UNCHANGED screen)
         \/ /\ stored # None /\ UNCHANGED screen
            /\ req' = [req EXCEPT ![r] = [req[r] EXCEPT !.stage = "refresh", !.pair = stored]]
      /\ UNCHANGED <<home, issued, owner, gen, sess, pw, changing, stored, user,
                      disconnected, cur, token, at, adrift, early, away, crossed, login,
                      leaving>>
  BY DEF Unauthorized, Fail, Refresh, server, sessions, client, shown, object, history
<1>3. /\ Calls'
      /\ \/ req'[r].stage = "idle" /\ req'[r].got = None /\ req'[r].pair = None
         \/ /\ stored # None /\ UNCHANGED screen
            /\ req'[r].stage = "refresh" /\ req'[r].pair = stored
            /\ req'[r].by = req[r].by /\ req'[r].got = req[r].got
            /\ req'[r].boot = req[r].boot /\ req'[r].early = req[r].early
      /\ \A q \in Requests \ {r} : req'[q] = req[q]
  <2>1. stored \in Pairs \cup {None}
    BY <1>1, <1>2, SessionAssumption DEF Types, Holders, Pairs
  <2>2. /\ NoRequest \in RequestRecords
        /\ [req[r] EXCEPT !.stage = "refresh", !.pair = stored] \in RequestRecords
    BY <1>1, <2>1 DEF NoRequest, Calls, RequestRecords, Stages
  <2>3. CASE req' = [req EXCEPT ![r] = NoRequest]
    BY <1>1, <2>2, <2>3 DEF NoRequest, Calls, RequestRecords
  <2>4. CASE /\ stored # None /\ UNCHANGED screen
             /\ req' = [req EXCEPT ![r] = [req[r] EXCEPT !.stage = "refresh", !.pair = stored]]
    BY <1>1, <2>2, <2>4 DEF Calls, RequestRecords
  <2> QED BY <1>2, <2>3, <2>4
<1>4. Types' /\ Logins' /\ Answers' /\ RevocationHolds'
  BY SessionAssumption, <1>1, <1>2, <1>3
  DEF Types, Pairs, Logins, Answers, RevocationHolds, Outdated, Holders, IssuedAt
<1>5. Holders'
  BY SessionAssumption, <1>1, <1>2, <1>3 DEF Holders, Types
<1>6. Senders'
  BY SessionAssumption, <1>1, <1>2, <1>3 DEF Senders, Types, Clients
<1>7. Refreshes'
  BY SessionAssumption, <1>1, <1>2, <1>3 DEF Refreshes, Types, Holders, Senders, IssuedAt
<1>8. Outdated'
  BY SessionAssumption, <1>1, <1>2, <1>3 DEF Outdated, Refreshes, RevocationHolds, Types
<1>9. Boots'
  BY SessionAssumption, <1>1, <1>2, <1>3 DEF Boots
<1>10. SessionsAreHeld'
  BY SessionAssumption, <1>1, <1>2, <1>3
  DEF SessionsAreHeld, Holders, Refreshes, Answers, Types
<1>11. SignedOff'
  BY SessionAssumption, <1>1, <1>2, <1>3 DEF SignedOff, Refreshing
<1>12. ActsAsShown'
  BY SessionAssumption, <1>1, <1>2, <1>3
  DEF ActsAsShown, AppShown, IssuedAt, Holders, Senders, Refreshes, Answers, Boots, Types
<1> QED BY <1>3, <1>4, <1>5, <1>6, <1>7, <1>8, <1>9, <1>10, <1>11, <1>12 DEF Inv

\* The remembered server cannot be reached.
LEMMA UnreachableStep ==
  ASSUME Inv, NEW r \in Requests, Unreachable(r)
  PROVE  Inv'
<1>1. Types /\ Calls /\ Logins /\ Holders /\ Senders /\ Refreshes /\ Outdated /\ Answers /\ Boots
      /\ SessionsAreHeld /\ RevocationHolds /\ SignedOff /\ ActsAsShown
  BY DEF Inv
<1>2. /\ req' = [req EXCEPT ![r] = NoRequest] /\ screen' = "auth"
      /\ req[r].stage = "sent" /\ req[r].boot
      /\ UNCHANGED <<home, issued, owner, gen, sess, pw, changing, stored, user,
                      disconnected, cur, token, at, adrift, early, away, crossed, login,
                      leaving>>
  BY DEF Unreachable, server, sessions, client, shown, object, history
<1>3. /\ Calls'
      /\ req'[r].stage = "idle" /\ req'[r].got = None /\ req'[r].pair = None
      /\ \A q \in Requests \ {r} : req'[q] = req[q]
  BY <1>1, <1>2 DEF Calls, RequestRecords, NoRequest, Stages
<1>4. Types' /\ Logins' /\ Answers' /\ RevocationHolds'
  BY SessionAssumption, <1>1, <1>2, <1>3
  DEF Types, Pairs, Logins, Answers, RevocationHolds, Outdated, Holders, IssuedAt
<1>5. Holders'
  BY SessionAssumption, <1>1, <1>2, <1>3 DEF Holders, Types
<1>6. Senders'
  BY SessionAssumption, <1>1, <1>2, <1>3 DEF Senders, Types, Clients
<1>7. Refreshes'
  BY SessionAssumption, <1>1, <1>2, <1>3 DEF Refreshes, Types, Holders, Senders, IssuedAt
<1>8. Outdated'
  BY SessionAssumption, <1>1, <1>2, <1>3 DEF Outdated, Refreshes, RevocationHolds, Types
<1>9. Boots'
  BY SessionAssumption, <1>1, <1>2, <1>3 DEF Boots
<1>10. SessionsAreHeld'
  BY SessionAssumption, <1>1, <1>2, <1>3
  DEF SessionsAreHeld, Holders, Refreshes, Answers, Types
<1>11. SignedOff'
  BY SessionAssumption, <1>1, <1>2, <1>3 DEF SignedOff, Refreshing
<1>12. ActsAsShown'
  BY SessionAssumption, <1>1, <1>2, <1>3
  DEF ActsAsShown, AppShown, IssuedAt, Holders, Senders, Refreshes, Answers, Boots, Types
<1> QED BY <1>3, <1>4, <1>5, <1>6, <1>7, <1>8, <1>9, <1>10, <1>11, <1>12 DEF Inv

\* A refresh reads its session.
LEMMA RefreshReadsStep ==
  ASSUME Inv, NEW r \in Requests, RefreshReads(r)
  PROVE  Inv'
<1>1. Types /\ Calls /\ Logins /\ Holders /\ Senders /\ Refreshes /\ Outdated /\ Answers /\ Boots
      /\ SessionsAreHeld /\ RevocationHolds /\ SignedOff /\ ActsAsShown
  BY DEF Inv
<1>2. /\ req[r].stage = "refresh"
      /\ req' = [req EXCEPT ![r] = [req[r] EXCEPT
                   !.stage = IF req[r].pair \in sess /\ IssuedAt(req[r].pair, req[r].by)
                             THEN "found" ELSE "refused",
                   !.early = req[r].pair \in early]]
      /\ UNCHANGED <<home, issued, owner, gen, sess, pw, changing, stored, user,
                      disconnected, screen, cur, token, at, adrift, early, away, crossed,
                      login, leaving>>
  BY DEF RefreshReads, server, sessions, client, shown, object, history
<1>3. /\ Calls'
      /\ \/ req'[r].stage = "found" /\ req[r].pair \in sess /\ IssuedAt(req[r].pair, req[r].by)
         \/ req'[r].stage = "refused"
      /\ req[r].pair \in early => req'[r].early
      /\ req'[r].pair = req[r].pair /\ req'[r].by = req[r].by
      /\ req'[r].got = req[r].got /\ req'[r].boot = req[r].boot
      /\ \A q \in Requests \ {r} : req'[q] = req[q]
  <2>1. \A s \in {"found", "refused"}, e \in BOOLEAN :
          [req[r] EXCEPT !.stage = s, !.early = e] \in RequestRecords
    BY <1>1 DEF Calls, RequestRecords, Stages
  <2> DEFINE s == IF req[r].pair \in sess /\ IssuedAt(req[r].pair, req[r].by)
                  THEN "found" ELSE "refused"
             e == req[r].pair \in early
  <2>2. req' = [req EXCEPT ![r] = [req[r] EXCEPT !.stage = s, !.early = e]]
    BY <1>2
  <2>3. /\ \/ s = "found" /\ req[r].pair \in sess /\ IssuedAt(req[r].pair, req[r].by)
           \/ s = "refused"
        /\ s \in {"found", "refused"} /\ e \in BOOLEAN /\ (req[r].pair \in early => e)
    OBVIOUS
  <2> HIDE DEF s, e
  <2>4. Calls'
    BY <1>1, <2>1, <2>2, <2>3 DEF Calls
  <2>5. /\ req'[r].stage = s /\ req'[r].early = e
        /\ req'[r].pair = req[r].pair /\ req'[r].by = req[r].by
        /\ req'[r].got = req[r].got /\ req'[r].boot = req[r].boot
        /\ \A q \in Requests \ {r} : req'[q] = req[q]
    BY <1>1, <2>2 DEF Calls, RequestRecords
  <2> QED BY <2>3, <2>4, <2>5
<1>4. Types' /\ Logins' /\ Answers' /\ RevocationHolds'
  BY SessionAssumption, <1>1, <1>2, <1>3
  DEF Types, Pairs, Logins, Answers, RevocationHolds, Outdated, Holders, IssuedAt
<1>5. Holders'
  BY SessionAssumption, <1>1, <1>2, <1>3 DEF Holders, Types
<1>6. Senders'
  BY SessionAssumption, <1>1, <1>2, <1>3 DEF Senders, Types, Clients
<1>7. Refreshes'
  BY SessionAssumption, <1>1, <1>2, <1>3 DEF Refreshes, Types, Holders, Senders, IssuedAt
<1>8. Outdated'
  BY SessionAssumption, <1>1, <1>2, <1>3 DEF Outdated, Refreshes, RevocationHolds, Types
<1>9. Boots'
  BY SessionAssumption, <1>1, <1>2, <1>3 DEF Boots
<1>10. SessionsAreHeld'
  BY SessionAssumption, <1>1, <1>2, <1>3
  DEF SessionsAreHeld, Holders, Refreshes, Answers, Types
<1>11. SignedOff'
  BY SessionAssumption, <1>1, <1>2, <1>3 DEF SignedOff, Refreshing
<1>12. ActsAsShown'
  BY SessionAssumption, <1>1, <1>2, <1>3
  DEF ActsAsShown, AppShown, IssuedAt, Holders, Senders, Refreshes, Answers, Boots, Types
<1> QED BY <1>3, <1>4, <1>5, <1>6, <1>7, <1>8, <1>9, <1>10, <1>11, <1>12 DEF Inv

\* A refresh deletes the session it found.
LEMMA RefreshDeletesStep ==
  ASSUME Inv, NEW r \in Requests, RefreshDeletes(r)
  PROVE  Inv'
<1>1. Types /\ Calls /\ Logins /\ Holders /\ Senders /\ Refreshes /\ Outdated /\ Answers /\ Boots
      /\ SessionsAreHeld /\ RevocationHolds /\ SignedOff /\ ActsAsShown
  BY DEF Inv
<1>2. /\ req[r].stage = "found"
      /\ sess' = sess \ {req[r].pair}
      /\ adrift' = adrift \ {req[r].pair} /\ early' = early \ {req[r].pair}
      /\ req' = [req EXCEPT ![r] = [req[r] EXCEPT !.stage = "deleted"]]
      /\ UNCHANGED <<home, issued, owner, gen, pw, changing, stored, user, disconnected,
                      screen, cur, token, at, away, crossed, login, leaving>>
  BY DEF RefreshDeletes, server, sessions, client, shown, object, history
<1>3. /\ Calls'
      /\ req'[r].stage = "deleted"
      /\ req'[r].pair = req[r].pair /\ req'[r].by = req[r].by
      /\ req'[r].got = req[r].got /\ req'[r].boot = req[r].boot /\ req'[r].early = req[r].early
      /\ \A q \in Requests \ {r} : req'[q] = req[q]
  <2>1. [req[r] EXCEPT !.stage = "deleted"] \in RequestRecords
    BY <1>1, <1>2 DEF Calls, RequestRecords, Stages
  <2> QED BY <1>1, <1>2, <2>1 DEF Calls, RequestRecords
<1>4. Types' /\ Logins' /\ Answers'
  BY SessionAssumption, <1>1, <1>2, <1>3 DEF Types, Pairs, Logins, Answers, IssuedAt
<1>5. Holders'
  BY SessionAssumption, <1>1, <1>2, <1>3 DEF Holders, Types
<1>6. Senders'
  BY SessionAssumption, <1>1, <1>2, <1>3 DEF Senders, Types, Clients
<1>7. Refreshes'
  BY SessionAssumption, <1>1, <1>2, <1>3 DEF Refreshes, Types, Holders, Senders, IssuedAt
<1>8. Outdated'
  BY SessionAssumption, <1>1, <1>2, <1>3 DEF Outdated, Refreshes, RevocationHolds, Types
<1>9. Boots'
  BY SessionAssumption, <1>1, <1>2, <1>3 DEF Boots
<1>10. SessionsAreHeld'
  BY SessionAssumption, <1>1, <1>2, <1>3
  DEF SessionsAreHeld, Holders, Refreshes, Answers, Types
<1>11. RevocationHolds'
  BY SessionAssumption, <1>1, <1>2, <1>3
  DEF RevocationHolds, Outdated, Types, Holders, Answers
<1>12. SignedOff'
  BY SessionAssumption, <1>1, <1>2, <1>3 DEF SignedOff, Refreshing
<1>13. ActsAsShown'
  BY SessionAssumption, <1>1, <1>2, <1>3
  DEF ActsAsShown, AppShown, IssuedAt, Holders, Senders, Refreshes, Answers, Boots, Types
<1> QED BY <1>3, <1>4, <1>5, <1>6, <1>7, <1>8, <1>9, <1>10, <1>11, <1>12, <1>13 DEF Inv

\* A refresh is lost on its way.
LEMMA RefreshLostStep ==
  ASSUME Inv, NEW r \in Requests, RefreshLost(r)
  PROVE  Inv'
<1>1. Types /\ Calls /\ Logins /\ Holders /\ Senders /\ Refreshes /\ Outdated /\ Answers /\ Boots
      /\ SessionsAreHeld /\ RevocationHolds /\ SignedOff /\ ActsAsShown
  BY DEF Inv
<1>2. /\ req[r].stage \in {"refresh", "found", "deleted", "answered"}
      /\ adrift' = adrift \cup ({req[r].pair, req[r].got} \cap sess)
      /\ req' = [req EXCEPT ![r] = [req[r] EXCEPT !.stage = "refused", !.got = None]]
      /\ UNCHANGED <<home, issued, owner, gen, sess, pw, changing, stored, user,
                      disconnected, screen, cur, token, at, early, away, crossed, login,
                      leaving>>
  BY DEF RefreshLost, Lose, Refreshing, server, sessions, client, shown, object, history
<1>3. /\ Calls'
      /\ req'[r].stage = "refused" /\ req'[r].got = None
      /\ req'[r].pair = req[r].pair /\ req'[r].by = req[r].by
      /\ req'[r].boot = req[r].boot
      /\ \A q \in Requests \ {r} : req'[q] = req[q]
  <2>1. [req[r] EXCEPT !.stage = "refused", !.got = None] \in RequestRecords
    BY <1>1, <1>2 DEF Calls, RequestRecords, Stages
  <2> QED BY <1>1, <1>2, <2>1 DEF Calls, RequestRecords
<1>4. Types' /\ Logins' /\ Answers' /\ RevocationHolds'
  BY SessionAssumption, <1>1, <1>2, <1>3
  DEF Types, Pairs, Logins, Answers, RevocationHolds, Outdated, Holders, IssuedAt
<1>5. Holders'
  BY SessionAssumption, <1>1, <1>2, <1>3 DEF Holders, Types
<1>6. Senders'
  BY SessionAssumption, <1>1, <1>2, <1>3 DEF Senders, Types, Clients
<1>7. Refreshes'
  BY SessionAssumption, <1>1, <1>2, <1>3 DEF Refreshes, Types, Holders, Senders, IssuedAt
<1>8. Outdated'
  BY SessionAssumption, <1>1, <1>2, <1>3 DEF Outdated, Refreshes, RevocationHolds, Types
<1>9. Boots'
  BY SessionAssumption, <1>1, <1>2, <1>3 DEF Boots
<1>10. SessionsAreHeld'
  BY SessionAssumption, <1>1, <1>2, <1>3
  DEF SessionsAreHeld, Holders, Refreshes, Answers, Types
<1>11. SignedOff'
  BY SessionAssumption, <1>1, <1>2, <1>3 DEF SignedOff, Refreshing
<1>12. ActsAsShown'
  BY SessionAssumption, <1>1, <1>2, <1>3
  DEF ActsAsShown, AppShown, IssuedAt, Holders, Senders, Refreshes, Answers, Boots, Types
<1> QED BY <1>3, <1>4, <1>5, <1>6, <1>7, <1>8, <1>9, <1>10, <1>11, <1>12 DEF Inv

\* A refresh is answered.
LEMMA RefreshedStep ==
  ASSUME Inv, NEW r \in Requests, Refreshed(r)
  PROVE  Inv'
<1>1. Types /\ Calls /\ Logins /\ Holders /\ Senders /\ Refreshes /\ Outdated /\ Answers /\ Boots
      /\ SessionsAreHeld /\ RevocationHolds /\ SignedOff /\ ActsAsShown
  BY DEF Inv
<1>2. /\ req[r].stage = "answered"
      /\ stored' = req[r].got /\ user' = owner[req[r].got]
      /\ token' = IF req[r].by = cur THEN req[r].got ELSE token
      /\ adrift' = adrift \cup (({stored} \ {req[r].pair}) \cap sess)
      /\ crossed' = (crossed \/ req[r].by # cur)
      /\ req' = [req EXCEPT ![r] = [req[r] EXCEPT !.stage = "sent", !.pair = req[r].got, !.got = None,
                                                 !.retried = TRUE, !.early = FALSE]]
      /\ UNCHANGED <<home, issued, owner, gen, sess, pw, changing, screen, cur, at,
                      early, away, login, leaving>>
  BY DEF Refreshed, Lose, server, sessions, client, shown, object, history
<1>3. /\ Calls'
      /\ req'[r].stage = "sent" /\ req'[r].pair = req[r].got /\ req'[r].got = None
      /\ req'[r].by = req[r].by /\ req'[r].boot = req[r].boot
      /\ \A q \in Requests \ {r} : req'[q] = req[q]
  <2>1. [req[r] EXCEPT !.stage = "sent", !.pair = req[r].got, !.got = None,
                     !.retried = TRUE, !.early = FALSE] \in RequestRecords
    BY <1>1, <1>2 DEF Calls, RequestRecords, Stages
  <2> QED BY <1>1, <1>2, <2>1 DEF Calls, RequestRecords
<1>4. Types' /\ Logins' /\ Answers' /\ RevocationHolds'
  BY SessionAssumption, <1>1, <1>2, <1>3
  DEF Types, Pairs, Logins, Answers, RevocationHolds, Outdated, Holders, IssuedAt
<1>5. Holders'
  BY SessionAssumption, <1>1, <1>2, <1>3 DEF Holders, Types
<1>6. Senders'
  BY SessionAssumption, <1>1, <1>2, <1>3 DEF Senders, Types, Clients
<1>7. Refreshes'
  BY SessionAssumption, <1>1, <1>2, <1>3 DEF Refreshes, Types, Holders, Senders, IssuedAt
<1>8. Outdated'
  BY SessionAssumption, <1>1, <1>2, <1>3 DEF Outdated, Refreshes, RevocationHolds, Types
<1>9. Boots'
  BY SessionAssumption, <1>1, <1>2, <1>3 DEF Boots
<1>10. SessionsAreHeld'
  BY SessionAssumption, <1>1, <1>2, <1>3
  DEF SessionsAreHeld, Holders, Refreshes, Answers, Types
<1>11. SignedOff'
  BY SessionAssumption, <1>1, <1>2, <1>3 DEF SignedOff, Refreshing
<1>12. ActsAsShown'
  BY SessionAssumption, <1>1, <1>2, <1>3
  DEF ActsAsShown, AppShown, IssuedAt, Holders, Senders, Refreshes, Answers, Boots, Types
<1> QED BY <1>3, <1>4, <1>5, <1>6, <1>7, <1>8, <1>9, <1>10, <1>11, <1>12 DEF Inv

\* A refresh is refused.
LEMMA RefreshFailsStep ==
  ASSUME Inv, NEW r \in Requests, RefreshFails(r)
  PROVE  Inv'
<1>1. Types /\ Calls /\ Logins /\ Holders /\ Senders /\ Refreshes /\ Outdated /\ Answers /\ Boots
      /\ SessionsAreHeld /\ RevocationHolds /\ SignedOff /\ ActsAsShown
  BY DEF Inv
<1>2. /\ req[r].stage = "refused"
      /\ stored' = None /\ disconnected'
      /\ adrift' = adrift \cup ({stored, req[r].pair} \cap sess)
      /\ screen' = IF req[r].boot THEN "auth" ELSE screen
      /\ req' = [req EXCEPT ![r] = NoRequest]
      /\ UNCHANGED <<home, issued, owner, gen, sess, pw, changing, user, cur, token, at,
                      early, away, crossed, login, leaving>>
  BY DEF RefreshFails, Lose, Fail, server, sessions, client, shown, object, history
<1>3. /\ Calls'
      /\ req'[r].stage = "idle" /\ req'[r].got = None /\ req'[r].pair = None
      /\ \A q \in Requests \ {r} : req'[q] = req[q]
  BY <1>1, <1>2 DEF Calls, RequestRecords, NoRequest, Stages
<1>4. Types' /\ Logins' /\ Answers' /\ RevocationHolds'
  BY SessionAssumption, <1>1, <1>2, <1>3
  DEF Types, Pairs, Logins, Answers, RevocationHolds, Outdated, Holders, IssuedAt
<1>5. Holders'
  BY SessionAssumption, <1>1, <1>2, <1>3 DEF Holders, Types
<1>6. Senders'
  BY SessionAssumption, <1>1, <1>2, <1>3 DEF Senders, Types, Clients
<1>7. Refreshes'
  BY SessionAssumption, <1>1, <1>2, <1>3 DEF Refreshes, Types, Holders, Senders, IssuedAt
<1>8. Outdated'
  BY SessionAssumption, <1>1, <1>2, <1>3 DEF Outdated, Refreshes, RevocationHolds, Types
<1>9. Boots'
  BY SessionAssumption, <1>1, <1>2, <1>3 DEF Boots
<1>10. SessionsAreHeld'
  BY SessionAssumption, <1>1, <1>2, <1>3
  DEF SessionsAreHeld, Holders, Refreshes, Answers, Types
<1>11. SignedOff'
  BY SessionAssumption, <1>1, <1>2, <1>3 DEF SignedOff, Refreshing
<1>12. ActsAsShown'
  BY SessionAssumption, <1>1, <1>2, <1>3
  DEF ActsAsShown, AppShown, IssuedAt, Holders, Senders, Refreshes, Answers, Boots, Types
<1> QED BY <1>3, <1>4, <1>5, <1>6, <1>7, <1>8, <1>9, <1>10, <1>11, <1>12 DEF Inv

\* A refresh issues the next pair.
LEMMA RefreshIssuesStep ==
  ASSUME Inv, NEW r \in Requests, RefreshIssues(r)
  PROVE  Inv'
<1>1. Types /\ Calls /\ Logins /\ Holders /\ Senders /\ Refreshes /\ Outdated /\ Answers /\ Boots
      /\ SessionsAreHeld /\ RevocationHolds /\ SignedOff /\ ActsAsShown
  BY DEF Inv
<1>2. /\ req[r].stage = "deleted"
      /\ issue(owner[req[r].pair], gen[req[r].pair])
      /\ early' = IF req[r].early THEN early \cup {issued + 1} ELSE early
      /\ req' = [req EXCEPT ![r] = [req[r] EXCEPT !.stage = "answered", !.got = issued + 1]]
      /\ UNCHANGED <<home, pw, changing, stored, user, disconnected, screen, cur, token,
                      at, adrift, away, crossed, login, leaving>>
  BY DEF RefreshIssues, server, sessions, client, shown, object, history
<1>3. /\ Calls'
      /\ req'[r].stage = "answered" /\ req'[r].got = issued + 1
      /\ req'[r].pair = req[r].pair /\ req'[r].by = req[r].by
      /\ req'[r].boot = req[r].boot
      /\ \A q \in Requests \ {r} : req'[q] = req[q]
      /\ owner[req[r].pair] \in Users /\ gen[req[r].pair] \in Nat
      /\ issued' = issued + 1 /\ issued + 1 \in Pairs /\ sess' = sess \cup {issued + 1}
      /\ owner' \in [Pairs -> Users \cup {NoUser}] /\ gen' \in [Pairs -> Nat]
      /\ owner'[issued + 1] = owner[req[r].pair] /\ gen'[issued + 1] = gen[req[r].pair]
      /\ \A p \in 1 .. issued : owner'[p] = owner[p] /\ gen'[p] = gen[p]
  <2>1. owner[req[r].pair] \in Users /\ gen[req[r].pair] \in Nat
    BY <1>1, <1>2, SessionAssumption DEF Types, Refreshes, Pairs
  <2>2. issued + 1 \in Pairs
    BY <1>1, <1>2, IssueFacts, <2>1
  <2>3. [req[r] EXCEPT !.stage = "answered", !.got = issued + 1] \in RequestRecords
    BY <1>1, <2>2 DEF Calls, RequestRecords, Stages
  <2>4. Calls' /\ req'[r].stage = "answered" /\ req'[r].got = issued + 1
        /\ req'[r].pair = req[r].pair /\ req'[r].by = req[r].by /\ req'[r].boot = req[r].boot
        /\ \A q \in Requests \ {r} : req'[q] = req[q]
    BY <1>1, <1>2, <2>3 DEF Calls, RequestRecords
  <2> QED BY <1>1, <1>2, <2>1, <2>4, IssueFacts
<1>4. Logins'
  BY SessionAssumption, <1>1, <1>2, <1>3 DEF Logins, Types, IssuedAt
<1>5. Types'
  <2>1. \A p \in 1 .. issued + 1 : p \in 1 .. issued \/ p = issued + 1
    BY <1>1 DEF Types
  <2>2. \A p \in 1 .. issued' : owner'[p] \in Users
    BY <1>1, <1>2, <1>3, <2>1 DEF Types
  <2>3. issued' \in 0 .. MaxPairs /\ sess' \subseteq 1 .. issued'
    BY <1>1, <1>3 DEF Types, Pairs
  <2> QED BY <1>1, <1>2, <1>3, <2>2, <2>3 DEF Types
<1>6. Holders'
  BY SessionAssumption, <1>1, <1>2, <1>3 DEF Holders, Types
<1>7. Senders'
  BY SessionAssumption, <1>1, <1>2, <1>3 DEF Senders, Types, Clients
<1>8. Refreshes'
  BY SessionAssumption, <1>1, <1>2, <1>3 DEF Refreshes, Types, Holders, Senders, IssuedAt
<1>9. Outdated'
  BY SessionAssumption, <1>1, <1>2, <1>3 DEF Outdated, Refreshes, RevocationHolds, Types
<1>10. Answers'
  BY SessionAssumption, <1>1, <1>2, <1>3 DEF Answers, Types
<1>11. Boots'
  BY SessionAssumption, <1>1, <1>2, <1>3 DEF Boots
<1>12. SessionsAreHeld'
  BY SessionAssumption, <1>1, <1>2, <1>3
  DEF SessionsAreHeld, Holders, Refreshes, Answers, Types
<1>13. RevocationHolds'
  BY SessionAssumption, <1>1, <1>2, <1>3
  DEF RevocationHolds, Outdated, Types, Holders, Answers
<1>14. SignedOff'
  BY SessionAssumption, <1>1, <1>2, <1>3 DEF SignedOff, Refreshing
<1>15. ActsAsShown'
  BY SessionAssumption, <1>1, <1>2, <1>3
  DEF ActsAsShown, AppShown, IssuedAt, Holders, Senders, Refreshes, Answers, Boots, Types
<1> QED BY <1>3, <1>4, <1>5, <1>6, <1>7, <1>8, <1>9, <1>10, <1>11, <1>12, <1>13, <1>14,
     <1>15 DEF Inv

\* A password is set.
LEMMA SetUserPasswordStep ==
  ASSUME Inv, NEW u \in Users, SetUserPassword(u)
  PROVE  Inv'
<1>1. Types /\ Calls /\ Logins /\ Holders /\ Senders /\ Refreshes /\ Outdated /\ Answers /\ Boots
      /\ SessionsAreHeld /\ RevocationHolds /\ SignedOff /\ ActsAsShown
  BY DEF Inv
<1>2. /\ pw' = [pw EXCEPT ![u] = @ + 1] /\ changing' = changing \cup {u}
      /\ UNCHANGED <<home, issued, owner, gen, sess, stored, user, disconnected, screen,
                      cur, token, at, adrift, early, away, crossed, req, login, leaving>>
  BY DEF SetUserPassword, server, sessions, client, shown, object, history
<1>3. Calls' /\ Logins' /\ Holders' /\ Senders' /\ Answers' /\ Boots'
  BY SessionAssumption, <1>1, <1>2
  DEF Calls, Logins, Types, Holders, Senders, Clients, Answers, Boots, IssuedAt
<1>4. Types'
  BY SessionAssumption, <1>1, <1>2 DEF Types, Pairs
<1>5. Refreshes'
  BY SessionAssumption, <1>1, <1>2 DEF Refreshes, Types, Holders, Senders, IssuedAt
<1>6. Outdated'
  BY SessionAssumption, <1>1, <1>2 DEF Outdated, Refreshes, RevocationHolds, Types
<1>7. SessionsAreHeld'
  BY SessionAssumption, <1>1, <1>2 DEF SessionsAreHeld, Holders, Refreshes, Answers, Types
<1>8. RevocationHolds'
  BY SessionAssumption, <1>1, <1>2 DEF RevocationHolds, Outdated, Types, Holders, Answers
<1>9. SignedOff'
  BY SessionAssumption, <1>1, <1>2 DEF SignedOff, Refreshing
<1>10. ActsAsShown'
  BY SessionAssumption, <1>1, <1>2
  DEF ActsAsShown, AppShown, IssuedAt, Holders, Senders, Refreshes, Answers, Boots, Types
<1> QED BY <1>3, <1>4, <1>5, <1>6, <1>7, <1>8, <1>9, <1>10 DEF Inv

\* The sessions of a changed password are revoked.
LEMMA DeleteForUserStep ==
  ASSUME Inv, NEW u \in Users, DeleteForUser(u)
  PROVE  Inv'
<1>1. Types /\ Calls /\ Logins /\ Holders /\ Senders /\ Refreshes /\ Outdated /\ Answers /\ Boots
      /\ SessionsAreHeld /\ RevocationHolds /\ SignedOff /\ ActsAsShown
  BY DEF Inv
<1>2. /\ u \in changing /\ changing' = changing \ {u} /\ sess' = {p \in sess : owner[p] # u}
      /\ login' = IF login.user = u THEN [login EXCEPT !.early = TRUE] ELSE login
      /\ adrift' = adrift \cap sess' /\ early' = early \cap sess'
      /\ req' = [q \in Requests |->
                   IF req[q].stage \in {"found", "deleted"} /\ owner[req[q].pair] = u
                   THEN [req[q] EXCEPT !.early = TRUE] ELSE req[q]]
      /\ UNCHANGED <<home, issued, owner, gen, pw, stored, user, disconnected, screen,
                      cur, token, at, away, crossed, leaving>>
  BY DEF DeleteForUser, server, sessions, client, shown, object, history
<1>3. /\ Calls'
      /\ \A q \in Requests :
              /\ req'[q].stage = req[q].stage /\ req'[q].pair = req[q].pair /\ req'[q].by = req[q].by
              /\ req'[q].got = req[q].got /\ req'[q].boot = req[q].boot
              /\ req[q].early => req'[q].early
              /\ req[q].stage \in {"found", "deleted"} /\ owner[req[q].pair] = u => req'[q].early
      /\ Logins'
      /\ login'.stage = login.stage /\ login'.user = login.user /\ login'.got = login.got
      /\ login'.gen = login.gen /\ (login.early \/ login.user = u => login'.early)
  <2>1. \A q \in Requests : [req[q] EXCEPT !.early = TRUE] \in RequestRecords
    BY <1>1 DEF Calls, RequestRecords
  <2>2. Calls'
    BY <1>1, <1>2, <2>1 DEF Calls
  <2>3. \A q \in Requests :
          /\ req'[q].stage = req[q].stage /\ req'[q].pair = req[q].pair /\ req'[q].by = req[q].by
          /\ req'[q].got = req[q].got /\ req'[q].boot = req[q].boot
          /\ req[q].early => req'[q].early
          /\ req[q].stage \in {"found", "deleted"} /\ owner[req[q].pair] = u => req'[q].early
    BY <1>1, <1>2 DEF Calls, RequestRecords
  <2>4. /\ Logins'
        /\ login'.stage = login.stage /\ login'.user = login.user /\ login'.got = login.got
        /\ login'.gen = login.gen /\ (login.early \/ login.user = u => login'.early)
    BY <1>1, <1>2 DEF Logins
  <2> QED BY <2>2, <2>3, <2>4
<1>4. Types' /\ Senders' /\ Answers' /\ Boots'
  BY SessionAssumption, <1>1, <1>2, <1>3
  DEF Types, Pairs, Senders, Clients, Answers, Boots, IssuedAt
<1>5. Logins'
  BY SessionAssumption, <1>1, <1>2, <1>3 DEF Logins, Types
<1>6. Holders'
  BY SessionAssumption, <1>1, <1>2, <1>3 DEF Holders, Types
<1>7. Refreshes'
  BY SessionAssumption, <1>1, <1>2, <1>3 DEF Refreshes, Types, Holders, Senders, IssuedAt
<1>8. Outdated'
  BY SessionAssumption, <1>1, <1>2, <1>3 DEF Outdated, Refreshes, RevocationHolds, Types
<1>9. SessionsAreHeld'
  BY SessionAssumption, <1>1, <1>2, <1>3
  DEF SessionsAreHeld, Holders, Refreshes, Answers, Types
<1>10. RevocationHolds'
  BY SessionAssumption, <1>1, <1>2, <1>3
  DEF RevocationHolds, Outdated, Types, Holders, Answers
<1>11. SignedOff'
  BY SessionAssumption, <1>1, <1>2, <1>3 DEF SignedOff, Refreshing
<1>12. ActsAsShown'
  BY SessionAssumption, <1>1, <1>2, <1>3
  DEF ActsAsShown, AppShown, IssuedAt, Holders, Senders, Refreshes, Answers, Boots, Types
<1> QED BY <1>3, <1>4, <1>5, <1>6, <1>7, <1>8, <1>9, <1>10, <1>11, <1>12 DEF Inv

\* A sign-in is verified.
LEMMA LoginVerifiesStep ==
  ASSUME Inv, NEW u \in Users, LoginVerifies(u)
  PROVE  Inv'
<1>1. Types /\ Calls /\ Logins /\ Holders /\ Senders /\ Refreshes /\ Outdated /\ Answers /\ Boots
      /\ SessionsAreHeld /\ RevocationHolds /\ SignedOff /\ ActsAsShown
  BY DEF Inv
<1>2. /\ login.stage = "none" /\ cur < MaxClients /\ screen # "starting"
      /\ login' = [NoLogin EXCEPT !.stage = "verified", !.user = u, !.gen = pw[u]]
      /\ UNCHANGED <<home, issued, owner, gen, sess, pw, changing, stored, user,
                      disconnected, screen, cur, token, at, adrift, early, away, crossed,
                      req, leaving>>
  BY DEF LoginVerifies, CanSignIn, LoginShown, server, sessions, client, shown, object, history
<1>3. /\ Calls'
      /\ Logins' /\ login'.stage = "verified" /\ login'.got = None
      /\ login'.user = u /\ login'.gen = pw[u]
  BY <1>1, <1>2 DEF Logins, NoLogin, Types, Calls
<1>4. /\ Types' /\ Holders' /\ Senders'
      /\ Refreshes' /\ RevocationHolds' /\ SignedOff' /\ ActsAsShown'
  BY SessionAssumption, <1>1, <1>2, <1>3
  DEF Types, Pairs, Holders, Senders, Clients, Refreshes, IssuedAt, RevocationHolds,
      Outdated, Answers, SignedOff, Refreshing, ActsAsShown, AppShown, Boots
<1>5. Logins'
  BY SessionAssumption, <1>1, <1>2, <1>3 DEF Logins, Types
<1>6. Outdated'
  BY SessionAssumption, <1>1, <1>2, <1>3 DEF Outdated, Refreshes, RevocationHolds, Types
<1>7. Answers'
  BY SessionAssumption, <1>1, <1>2, <1>3 DEF Answers, Types
<1>8. Boots'
  BY SessionAssumption, <1>1, <1>2, <1>3 DEF Boots
<1>9. SessionsAreHeld'
  BY SessionAssumption, <1>1, <1>2, <1>3
  DEF SessionsAreHeld, Holders, Refreshes, Answers, Types
<1> QED BY <1>3, <1>4, <1>5, <1>6, <1>7, <1>8, <1>9 DEF Inv

\* A sign-in is issued its pair.
LEMMA LoginIssuesStep ==
  ASSUME Inv, LoginIssues
  PROVE  Inv'
<1>1. Types /\ Calls /\ Logins /\ Holders /\ Senders /\ Refreshes /\ Outdated /\ Answers /\ Boots
      /\ SessionsAreHeld /\ RevocationHolds /\ SignedOff /\ ActsAsShown
  BY DEF Inv
<1>2. /\ login.stage = "verified"
      /\ issue(login.user, login.gen)
      /\ early' = IF login.early THEN early \cup {issued + 1} ELSE early
      /\ login' = [login EXCEPT !.stage = "issued", !.got = issued + 1]
      /\ UNCHANGED <<home, pw, changing, stored, user, disconnected, screen, cur, token,
                      at, adrift, away, crossed, req, leaving>>
  BY DEF LoginIssues, server, sessions, client, shown, object, history
<1>3. /\ Calls'
      /\ Logins' /\ login'.stage = "issued" /\ login'.got = issued + 1 /\ login'.user = login.user
      /\ login.user \in Users /\ login.gen \in Nat
      /\ issued' = issued + 1 /\ issued + 1 \in Pairs /\ sess' = sess \cup {issued + 1}
      /\ owner' \in [Pairs -> Users \cup {NoUser}] /\ gen' \in [Pairs -> Nat]
      /\ owner'[issued + 1] = login.user /\ gen'[issued + 1] = login.gen
      /\ \A p \in 1 .. issued : owner'[p] = owner[p] /\ gen'[p] = gen[p]
  <2>1. login.user \in Users /\ login.gen \in Nat
    BY <1>1, <1>2 DEF Logins
  <2>2. issued + 1 \in Pairs
    BY <1>1, <1>2, IssueFacts, <2>1
  <2>3. Logins' /\ login'.stage = "issued" /\ login'.got = issued + 1 /\ login'.user = login.user
    BY <1>1, <1>2, <2>1, <2>2 DEF Logins
  <2> QED BY <1>1, <1>2, <2>1, <2>3, IssueFacts DEF Calls
<1>4. Types'
  <2>1. \A p \in 1 .. issued + 1 : p \in 1 .. issued \/ p = issued + 1
    BY <1>1 DEF Types
  <2>2. \A p \in 1 .. issued' : owner'[p] \in Users
    BY <1>1, <1>2, <1>3, <2>1 DEF Types
  <2>3. issued' \in 0 .. MaxPairs /\ sess' \subseteq 1 .. issued'
    BY <1>1, <1>3 DEF Types, Pairs
  <2> QED BY <1>1, <1>2, <1>3, <2>2, <2>3 DEF Types
<1>5. Logins'
  BY SessionAssumption, <1>1, <1>2, <1>3 DEF Logins, Types
<1>6. Holders'
  BY SessionAssumption, <1>1, <1>2, <1>3 DEF Holders, Types
<1>7. Senders'
  BY SessionAssumption, <1>1, <1>2, <1>3 DEF Senders, Types, Clients
<1>8. Refreshes'
  BY SessionAssumption, <1>1, <1>2, <1>3 DEF Refreshes, Types, Holders, Senders, IssuedAt
<1>9. Outdated'
  BY SessionAssumption, <1>1, <1>2, <1>3 DEF Outdated, Refreshes, RevocationHolds, Types
<1>10. Answers'
  BY SessionAssumption, <1>1, <1>2, <1>3 DEF Answers, Types
<1>11. Boots'
  BY SessionAssumption, <1>1, <1>2, <1>3 DEF Boots
<1>12. SessionsAreHeld'
  BY SessionAssumption, <1>1, <1>2, <1>3
  DEF SessionsAreHeld, Holders, Refreshes, Answers, Types
<1>13. RevocationHolds'
  BY SessionAssumption, <1>1, <1>2, <1>3
  DEF RevocationHolds, Outdated, Types, Holders, Answers
<1>14. SignedOff'
  BY SessionAssumption, <1>1, <1>2, <1>3 DEF SignedOff, Refreshing
<1>15. ActsAsShown'
  BY SessionAssumption, <1>1, <1>2, <1>3
  DEF ActsAsShown, AppShown, IssuedAt, Holders, Senders, Refreshes, Answers, Boots, Types
<1> QED BY <1>3, <1>4, <1>5, <1>6, <1>7, <1>8, <1>9, <1>10, <1>11, <1>12, <1>13, <1>14,
     <1>15 DEF Inv

\* A sign-in is answered.
LEMMA SignedInStep ==
  ASSUME Inv, SignedIn
  PROVE  Inv'
<1>1. Types /\ Calls /\ Logins /\ Holders /\ Senders /\ Refreshes /\ Outdated /\ Answers /\ Boots
      /\ SessionsAreHeld /\ RevocationHolds /\ SignedOff /\ ActsAsShown
  BY DEF Inv
<1>2. /\ login.stage = "issued"
      /\ stored' = login.got /\ user' = login.user /\ screen' = "ready" /\ ~disconnected'
      /\ cur' = cur + 1 /\ token' = login.got
      /\ at' = [at EXCEPT ![cur + 1] = home[login.user]]
      /\ login' = NoLogin
      /\ ~away' /\ ~crossed'
      /\ adrift' = adrift \cup ({stored} \cap sess)
      /\ UNCHANGED <<home, issued, owner, gen, sess, pw, changing, early, req, leaving>>
  BY DEF SignedIn, Lose, NewClient, server, sessions, client, shown, object, history
<1>3. /\ Calls'
      /\ cur + 1 \in Clients /\ Logins' /\ login'.got = None
      /\ login'.stage = "none"
      /\ at'[cur + 1] = home[login.user] /\ \A c \in 1 .. cur : at'[c] = at[c]
      /\ at' = [c \in Clients |-> at'[c]]
  <2>1. cur + 1 \in Clients /\ cur \in Nat
    BY <1>1, <1>2, SessionAssumption DEF Types, Logins, Clients
  <2>2. Logins' /\ login'.got = None /\ login'.stage = "none"
    BY <1>1, <1>2 DEF Logins, NoLogin
  <2>3. at'[cur + 1] = home[login.user] /\ \A c \in 1 .. cur : at'[c] = at[c]
    BY <1>1, <1>2, <2>1, SessionAssumption DEF Types, Clients
  <2>4. at' = [c \in Clients |-> at'[c]]
    BY <1>1, <1>2, <2>1 DEF Types
  <2> QED BY <1>1, <1>2, <2>1, <2>2, <2>3, <2>4 DEF Calls
<1>4. Types'
  BY SessionAssumption, <1>1, <1>2, <1>3 DEF Types, Pairs
<1>5. Logins'
  BY SessionAssumption, <1>1, <1>2, <1>3 DEF Logins, Types
<1>6. Holders'
  BY SessionAssumption, <1>1, <1>2, <1>3 DEF Holders, Types
<1>7. Senders'
  BY SessionAssumption, <1>1, <1>2, <1>3 DEF Senders, Types, Clients
<1>8. Refreshes'
  BY SessionAssumption, <1>1, <1>2, <1>3 DEF Refreshes, Types, Holders, Senders, IssuedAt
<1>9. Outdated'
  BY SessionAssumption, <1>1, <1>2, <1>3 DEF Outdated, Refreshes, RevocationHolds, Types
<1>10. Answers'
  BY SessionAssumption, <1>1, <1>2, <1>3 DEF Answers, Types
<1>11. Boots'
  BY SessionAssumption, <1>1, <1>2, <1>3 DEF Boots
<1>12. SessionsAreHeld'
  BY SessionAssumption, <1>1, <1>2, <1>3
  DEF SessionsAreHeld, Holders, Refreshes, Answers, Types
<1>13. RevocationHolds'
  BY SessionAssumption, <1>1, <1>2, <1>3
  DEF RevocationHolds, Outdated, Types, Holders, Answers
<1>14. SignedOff'
  BY SessionAssumption, <1>1, <1>2, <1>3 DEF SignedOff, Refreshing
<1>15. ActsAsShown'
  BY SessionAssumption, <1>1, <1>2, <1>3
  DEF ActsAsShown, AppShown, IssuedAt, Holders, Senders, Refreshes, Answers, Boots, Types
<1> QED BY <1>3, <1>4, <1>5, <1>6, <1>7, <1>8, <1>9, <1>10, <1>11, <1>12, <1>13, <1>14,
     <1>15 DEF Inv

\* A sign-in fails.
LEMMA LoginFailsStep ==
  ASSUME Inv, LoginFails
  PROVE  Inv'
<1>1. Types /\ Calls /\ Logins /\ Holders /\ Senders /\ Refreshes /\ Outdated /\ Answers /\ Boots
      /\ SessionsAreHeld /\ RevocationHolds /\ SignedOff /\ ActsAsShown
  BY DEF Inv
<1>2. /\ login' = NoLogin /\ adrift' = adrift \cup ({login.got} \cap sess)
      /\ UNCHANGED <<home, issued, owner, gen, sess, pw, changing, stored, user,
                      disconnected, screen, cur, token, at, early, away, crossed, req,
                      leaving>>
  BY DEF LoginFails, Lose, server, sessions, client, shown, object, history
<1>3. /\ Calls'
      /\ Logins' /\ login'.got = None /\ login'.stage = "none"
  BY <1>1, <1>2 DEF Logins, NoLogin, Calls
<1>4. Types' /\ Senders' /\ Refreshes' /\ RevocationHolds' /\ SignedOff' /\ ActsAsShown'
  BY SessionAssumption, <1>1, <1>2, <1>3
  DEF Types, Pairs, Senders, Clients, Refreshes, Holders, IssuedAt, RevocationHolds,
      Outdated, Answers, SignedOff, Refreshing, ActsAsShown, AppShown, Boots
<1>5. Logins'
  BY SessionAssumption, <1>1, <1>2, <1>3 DEF Logins, Types
<1>6. Holders'
  BY SessionAssumption, <1>1, <1>2, <1>3 DEF Holders, Types
<1>7. Outdated'
  BY SessionAssumption, <1>1, <1>2, <1>3 DEF Outdated, Refreshes, RevocationHolds, Types
<1>8. Answers'
  BY SessionAssumption, <1>1, <1>2, <1>3 DEF Answers, Types
<1>9. Boots'
  BY SessionAssumption, <1>1, <1>2, <1>3 DEF Boots
<1>10. SessionsAreHeld'
  BY SessionAssumption, <1>1, <1>2, <1>3
  DEF SessionsAreHeld, Holders, Refreshes, Answers, Types
<1> QED BY <1>3, <1>4, <1>5, <1>6, <1>7, <1>8, <1>9, <1>10 DEF Inv

\* A user signs out.
LEMMA SignOutStep ==
  ASSUME Inv, SignOut
  PROVE  Inv'
<1>1. Types /\ Calls /\ Logins /\ Holders /\ Senders /\ Refreshes /\ Outdated /\ Answers /\ Boots
      /\ SessionsAreHeld /\ RevocationHolds /\ SignedOff /\ ActsAsShown
  BY DEF Inv
<1>2. /\ screen = "ready" /\ leaving = Staying
      /\ stored' = None /\ leaving' = [pair |-> stored, by |-> cur]
      /\ away' => login.stage = "none" /\ \A r \in Requests : ~Refreshing(r)
      /\ UNCHANGED <<home, issued, owner, gen, sess, pw, changing, user, disconnected,
                      screen, cur, token, at, adrift, early, crossed, req, login>>
  BY DEF SignOut, ChipShown, AppShown, server, sessions, client, shown, object, history
<1>3. /\ Calls'
      /\ Logins' /\ leaving'.pair = stored /\ leaving.pair = None
  <2>1. stored \in Pairs \cup {None} /\ cur \in Clients
    BY <1>1, SessionAssumption DEF Types, Holders, Pairs
  <2>2. Logins' /\ leaving'.pair = stored /\ leaving.pair = None
    BY <1>1, <1>2, <2>1 DEF Logins, Staying
  <2> QED BY <1>1, <1>2, <2>2 DEF Calls
<1>4. /\ Types' /\ Senders' /\ Refreshes'
      /\ Outdated' /\ Answers' /\ RevocationHolds' /\ ActsAsShown'
  BY SessionAssumption, <1>1, <1>2, <1>3
  DEF Types, Pairs, Senders, Clients, Refreshes, Holders, IssuedAt, Outdated,
      RevocationHolds, Answers, ActsAsShown, AppShown, Boots
<1>5. Logins'
  BY SessionAssumption, <1>1, <1>2, <1>3 DEF Logins, Types
<1>6. Holders'
  BY SessionAssumption, <1>1, <1>2, <1>3 DEF Holders, Types
<1>7. Boots'
  BY SessionAssumption, <1>1, <1>2, <1>3 DEF Boots
<1>8. SessionsAreHeld'
  BY SessionAssumption, <1>1, <1>2, <1>3
  DEF SessionsAreHeld, Holders, Refreshes, Answers, Types
<1>9. SignedOff'
  BY SessionAssumption, <1>1, <1>2, <1>3 DEF SignedOff, Refreshing
<1> QED BY <1>3, <1>4, <1>5, <1>6, <1>7, <1>8, <1>9 DEF Inv

\* Signing out ends.
LEMMA SignedOutStep ==
  ASSUME Inv, SignedOut
  PROVE  Inv'
<1>1. Types /\ Calls /\ Logins /\ Holders /\ Senders /\ Refreshes /\ Outdated /\ Answers /\ Boots
      /\ SessionsAreHeld /\ RevocationHolds /\ SignedOff /\ ActsAsShown
  BY DEF Inv
<1>2. /\ \/ sess' = sess \ {leaving.pair} /\ adrift' = adrift \ {leaving.pair}
         \/ UNCHANGED sess /\ adrift' = adrift \cup ({leaving.pair} \cap sess)
      /\ leaving' = Staying /\ disconnected'
      /\ UNCHANGED <<home, issued, owner, gen, pw, changing, stored, user, screen, cur,
                      token, at, early, away, crossed, req, login>>
  BY DEF SignedOut, Lose, server, sessions, client, shown, object, history
<1>3. /\ Calls'
      /\ Logins' /\ leaving'.pair = None
  BY <1>1, <1>2 DEF Logins, Staying, Calls
<1>4. Types' /\ Senders' /\ Outdated' /\ Answers' /\ Boots' /\ SignedOff'
  BY SessionAssumption, <1>1, <1>2, <1>3
  DEF Types, Pairs, Senders, Clients, Outdated, Refreshes, RevocationHolds, Answers,
      Boots, SignedOff, Refreshing, IssuedAt
<1>5. Logins'
  BY SessionAssumption, <1>1, <1>2, <1>3 DEF Logins, Types
<1>6. Holders'
  BY SessionAssumption, <1>1, <1>2, <1>3 DEF Holders, Types
<1>7. Refreshes'
  BY SessionAssumption, <1>1, <1>2, <1>3 DEF Refreshes, Types, Holders, Senders, IssuedAt
<1>8. SessionsAreHeld'
  BY SessionAssumption, <1>1, <1>2, <1>3
  DEF SessionsAreHeld, Holders, Refreshes, Answers, Types
<1>9. RevocationHolds'
  BY SessionAssumption, <1>1, <1>2, <1>3
  DEF RevocationHolds, Outdated, Types, Holders, Answers
<1>10. ActsAsShown'
  BY SessionAssumption, <1>1, <1>2, <1>3
  DEF ActsAsShown, AppShown, IssuedAt, Holders, Senders, Refreshes, Answers, Boots, Types
<1> QED BY <1>3, <1>4, <1>5, <1>6, <1>7, <1>8, <1>9, <1>10 DEF Inv

\* The page is loaded anew.
LEMMA ReloadStep ==
  ASSUME Inv, NEW r \in Requests, Reload(r)
  PROVE  Inv'
<1>1. Types /\ Calls /\ Logins /\ Holders /\ Senders /\ Refreshes /\ Outdated /\ Answers /\ Boots
      /\ SessionsAreHeld /\ RevocationHolds /\ SignedOff /\ ActsAsShown
  BY DEF Inv
<1>2. /\ cur < MaxClients
      /\ cur' = cur + 1 /\ token' = stored /\ at' = [at EXCEPT ![cur + 1] = url]
      /\ user' = NoUser /\ screen' = "starting"
      /\ login' = NoLogin /\ leaving' = Staying
      /\ adrift' = adrift \cup (({leaving.pair, login.got} \cup {req[x].got : x \in Requests}
                              \cup {req[x].pair : x \in {y \in Requests : Refreshing(y)}}) \cap sess)
      /\ req' = [q \in Requests |->
                   IF q = r THEN [NoRequest EXCEPT !.stage = "sent", !.by = cur + 1, !.pair = stored,
                                                   !.boot = TRUE]
                   ELSE NoRequest]
      /\ UNCHANGED <<home, issued, owner, gen, sess, pw, changing, stored, early, away,
                      crossed>>
  BY DEF Reload, NewClient, Lose, server, sessions, client, shown, object, history
<1>3. /\ Calls'
      /\ req'[r].stage = "sent" /\ req'[r].by = cur + 1 /\ req'[r].pair = stored /\ req'[r].got = None
      /\ \A q \in Requests \ {r} : req'[q].stage = "idle" /\ req'[q].got = None /\ req'[q].pair = None
      /\ Logins' /\ login'.got = None /\ login'.stage = "none" /\ leaving'.pair = None
      /\ cur + 1 \in Clients /\ \A c \in 1 .. cur : at'[c] = at[c]
      /\ at' = [c \in Clients |-> at'[c]]
  <2>1. cur + 1 \in Clients /\ cur \in Nat /\ stored \in Pairs \cup {None}
    BY <1>1, <1>2, SessionAssumption DEF Types, Holders, Pairs, Clients
  <2>2. /\ NoRequest \in RequestRecords
        /\ [NoRequest EXCEPT !.stage = "sent", !.by = cur + 1, !.pair = stored, !.boot = TRUE]
             \in RequestRecords
    BY <2>1 DEF NoRequest, RequestRecords, Stages
  <2>3. /\ Calls'
        /\ req'[r].stage = "sent" /\ req'[r].by = cur + 1 /\ req'[r].pair = stored
        /\ req'[r].got = None
        /\ \A q \in Requests \ {r} :
             req'[q].stage = "idle" /\ req'[q].got = None /\ req'[q].pair = None
    BY <1>2, <2>2 DEF Calls, NoRequest
  <2>4. Logins' /\ login'.got = None /\ login'.stage = "none" /\ leaving'.pair = None
    BY <1>2 DEF Logins, NoLogin, Staying
  <2>5. \A c \in 1 .. cur : at'[c] = at[c]
    BY <1>1, <1>2, <2>1, SessionAssumption DEF Types, Clients
  <2>6. at' = [c \in Clients |-> at'[c]]
    BY <1>1, <1>2, <2>1 DEF Types
  <2> QED BY <2>1, <2>3, <2>4, <2>5, <2>6
<1>4. RevocationHolds'
  BY SessionAssumption, <1>1, <1>2, <1>3
  DEF RevocationHolds, Outdated, Types, Holders, Answers, IssuedAt
<1>5. Types'
  BY SessionAssumption, <1>1, <1>2, <1>3 DEF Types, Pairs
<1>6. Logins'
  BY SessionAssumption, <1>1, <1>2, <1>3 DEF Logins, Types
<1>7. Holders'
  <2>1. \A q \in Requests : req'[q].pair \in 0 .. issued /\ req'[q].got \in 0 .. issued
    BY <1>1, <1>3 DEF Holders, Types
  <2>2. stored \in 0 .. issued /\ 0 \in 0 .. issued
    BY <1>1 DEF Holders, Types
  <2> QED BY <1>2, <1>3, <2>1, <2>2 DEF Holders
<1>8. Senders'
  BY SessionAssumption, <1>1, <1>2, <1>3 DEF Senders, Types, Clients
<1>9. Refreshes'
  BY SessionAssumption, <1>1, <1>2, <1>3 DEF Refreshes, Types, Holders, Senders, IssuedAt
<1>10. Outdated'
  BY SessionAssumption, <1>1, <1>2, <1>3 DEF Outdated, Refreshes, RevocationHolds, Types
<1>11. Answers'
  BY SessionAssumption, <1>1, <1>2, <1>3 DEF Answers, Types
<1>12. Boots'
  BY SessionAssumption, <1>1, <1>2, <1>3 DEF Boots
<1>13. SessionsAreHeld'
  BY SessionAssumption, <1>1, <1>2, <1>3
  DEF SessionsAreHeld, Holders, Refreshes, Answers, Types
<1>14. SignedOff'
  BY SessionAssumption, <1>1, <1>2, <1>3 DEF SignedOff, Refreshing
<1>15. ActsAsShown'
  BY SessionAssumption, <1>1, <1>2, <1>3
  DEF ActsAsShown, AppShown, IssuedAt, Holders, Senders, Refreshes, Answers, Boots, Types
<1> QED BY <1>3, <1>4, <1>5, <1>6, <1>7, <1>8, <1>9, <1>10, <1>11, <1>12, <1>13, <1>14,
     <1>15 DEF Inv

\* The rest changes nothing the invariant speaks of but access tokens and the connect card.
LEMMA QuietStep ==
  ASSUME Inv, Quiet
  PROVE  Inv'
<1>1. Types /\ Calls /\ Logins /\ Holders /\ Senders /\ Refreshes /\ Outdated /\ Answers /\ Boots
      /\ SessionsAreHeld /\ RevocationHolds /\ SignedOff /\ ActsAsShown
  BY DEF Inv
<1>2. /\ UNCHANGED <<home, issued, owner, gen, sess, pw, changing, stored, user,
                      disconnected, screen, cur, token, at, adrift, early, away, crossed,
                      req, login, leaving>>
  BY DEF Quiet, Back, Connected, ConnectFails, establish, ExpireAccess, vars, server, sessions,
         client, shown, object, history
<1>3. /\ Calls' /\ Types' /\ Logins' /\ Holders' /\ Senders' /\ Refreshes'
      /\ Outdated' /\ Answers' /\ Boots' /\ SessionsAreHeld' /\ RevocationHolds' /\ SignedOff' /\ ActsAsShown'
  BY SessionAssumption, <1>1, <1>2
  DEF Calls, Types, Pairs, Logins, Holders, Senders, Clients, Refreshes, IssuedAt,
      Outdated, RevocationHolds, Answers, Boots, SessionsAreHeld, SignedOff, Refreshing,
      ActsAsShown, AppShown
<1> QED BY <1>3 DEF Inv

LEMMA InvStep == Inv /\ [Next]_vars => Inv'
<1> SUFFICES ASSUME Inv, [Next]_vars PROVE Inv'
  OBVIOUS
<1> QED
  BY SendStep, ServedStep, UnauthorizedStep, UnreachableStep, RefreshReadsStep,
     RefreshDeletesStep, RefreshLostStep, RefreshedStep, RefreshFailsStep,
     RefreshIssuesStep, SetUserPasswordStep, DeleteForUserStep, LoginVerifiesStep,
     LoginIssuesStep, SignedInStep, LoginFailsStep, SignOutStep, SignedOutStep, ReloadStep,
     QuietStep
  DEF Next, Step, AuthFlow, Quiet

------------------------------------------------------------------------------
\* The invariant holds of every reachable state.
THEOREM Invariance == Spec => []Inv
BY InitInv, InvStep, PTL DEF Spec

------------------------------------------------------------------------------
\* No session is left that no client holds, but those whose answer was lost or overwritten
\* or whose sign-out failed (issue and Refresh of auth.go, the pair of client.ts).
THEOREM SessionsHaveHolders == Spec => []SessionsAreHeld
BY Invariance, PTL DEF Inv

\* A change of password leaves no session of the old one, but those a sign-in or a refresh
\* under way at the revocation stores after it (SetUserPassword of auth.go).
THEOREM OldPasswordsRevoked == Spec => []RevocationHolds
BY Invariance, PTL DEF Inv

\* A user who signed out with no refresh under way stays signed out (signOut of AccountChip.tsx).
THEOREM SignedOutStays == Spec => []SignOutHolds
<1>1. Inv => SignOutHolds
  BY DEF Inv, SignedOff, SignOutHolds
<1> QED BY <1>1, Invariance, PTL

\* The app shows the account its requests act for, unless a refresh of an earlier client
\* object came in (wireRefresh of lib/auth.ts).
THEOREM AppActsAsShown == Spec => []ActsAsShown
BY Invariance, PTL DEF Inv


-----------------------------------------------------------------------------
(***************************************************************************)
(* The query caches.  A view is right, or something due will refresh it.   *)
(***************************************************************************)
Notes == [who : Members, nth : Nat]
Frames == [topic : {"progress", "jobs"}, entry : {Blank}] \cup [topic : {"presence"}, entry : Notes]
Flag(f) == f = [v \in Views |-> f[v]]
ChangeOf(kind, to, left, prev, over) ==
  [kind |-> kind, to |-> to, left |-> left, prev |-> prev, over |-> over]

CacheShape ==
  /\ Flag(held) /\ Flag(loaded) /\ Flag(fetch) /\ Flag(answer) /\ Flag(missed)
  /\ changes = [m \in Ids |-> changes[m]]
  /\ \A m \in Ids : changes[m] = ChangeOf(changes[m].kind, changes[m].to, changes[m].left,
                                          changes[m].prev, changes[m].over)
  /\ frames \in Seq(Frames)

\* A query that has a request, and one that shows what is read, has been visited.
VisitsInv ==
  /\ \A v \in Views : fetch[v] # "idle" => v \in open
  /\ \A v \in ReadViews : loaded[v] => v \in open
  /\ stale => "presence" \notin open

LinkInv == (conn # "down" => had) /\ (conn # "up" => frames = <<>>)

\* Of the mutations only one of cells writes in several steps, or after its end.
ChangesInv ==
  \A m \in Ids : /\ changes[m].kind \in {"none", "cells", "book", "edit"}
                 /\ changes[m].kind = "none" => changes[m].left = {}
                 /\ changes[m].kind # "cells" =>
                      /\ \A i \in changes[m].left : changes[m].left = {i}
                      /\ changes[m].over => changes[m].left = {}

\* What will refresh a view of the server's rows: a reconnect, a frame under way, the
\* end of a mutation.
Under == {frames[k] : k \in 1 .. Len(frames)}
Topics(v) == IF v = "tracker" THEN {"progress"} ELSE {"progress", "jobs"}
Told(v) == \E f \in Under : f.topic \in Topics(v)
Settling(m) == Busy(m) /\ (changes[m].kind = "cells" \/ changes[m].left = {})
Due(v) == Resyncs \/ Told(v) \/ \E m \in Ids : Settling(m)

Fresh(v, shows) == shows = Shown[v] \/ Due(v)
RowsOf(v) == ~missed[v] => /\ fetch[v] = "answered" => Fresh(v, answer[v])
                           /\ fetch[v] = "idle" /\ loaded[v] => Fresh(v, held[v])
RowsInv == \A v \in ReadViews : RowsOf(v)

\* Entries are never of a call to come.
Snapshots == {x \in [Members -> Nat] : \A w \in Members : x[w] <= seat[w]}
SeatsInv ==
  /\ seat \in [Members -> Nat]
  /\ notes \subseteq Notes /\ \A n \in notes : n.nth <= seat[n.who]
  /\ \A f \in Under : f.topic = "presence" => f.entry.nth <= seat[f.entry.who]
  /\ held["presence"] \in Snapshots
  /\ fetch["presence"] = "answered" => answer["presence"] \in Snapshots

\* What will bring a member's last call: its notification, or the frame of it.
LastCall(w) == [who |-> w, nth |-> seat[w]]
Coming(w) == \/ LastCall(w) \in notes
             \/ \E f \in Under : f.topic = "presence" /\ f.entry = LastCall(w)
PresenceInv ==
  ~missed["presence"] =>
    /\ fetch["presence"] = "answered" =>
         \A w \in Members : \/ answer["presence"][w] = seat[w] \/ Coming(w) \/ Resyncs
                            \/ loaded["presence"] /\ answer["presence"][w] < held["presence"][w]
    /\ fetch["presence"] = "idle" /\ loaded["presence"] =>
         \A w \in Members : held["presence"][w] = seat[w] \/ Coming(w) \/ Resyncs \/ stale

QueriesInv == /\ CacheShape /\ VisitsInv /\ LinkInv /\ ChangesInv /\ RowsInv /\ SeatsInv
              /\ PresenceInv

LEMMA QuerySteps ==
  ASSUME [QueriesNext]_queryVars
  PROVE  \/ \E v \in Views : Visit(v) \/ FetchAnswers(v) \/ FetchApplies(v) \/ FetchFails(v)
         \/ \E i \in Issues : OtherMarks(i)
         \/ ScanEnds
         \/ \E w \in Members : Sit(w)
         \/ \E n \in notes : Announce(n)
         \/ OnOpen \/ Subscribe \/ OnClose \/ OnSignal \/ OnPresence
         \/ \E m \in Ids : \/ \E S, to : MarkCells(m, S, to)
                           \/ \E i, to : MarkBook(m, i, to)
                           \/ \E i : EditBook(m, i) \/ Write(m, i)
                           \/ Succeeds(m)
                           \/ Fails(m)
         \/ UNCHANGED queryVars
BY DEF QueriesNext, Stream, Mutations

LEMMA ViewsShape ==
  ASSUME NEW a, NEW b, NEW c PROVE Flag([tracker |-> a, detail |-> b, presence |-> c])
BY DEF Flag, Views

LEMMA QueriesInitially == QueriesInit => QueriesInv
<1> SUFFICES ASSUME QueriesInit PROVE QueriesInv
  OBVIOUS
<1>1. Flag(held)
  BY ViewsShape DEF QueriesInit
<1>2. CacheShape
  <2>1. Flag(loaded) /\ Flag(fetch) /\ Flag(answer) /\ Flag(missed) /\ frames \in Seq(Frames)
    BY DEF QueriesInit, Flag
  <2>2. changes = [m \in Ids |-> Idle]
    BY DEF QueriesInit
  <2>3. Idle = ChangeOf(Idle.kind, Idle.to, Idle.left, Idle.prev, Idle.over)
    BY DEF Idle, ChangeOf
  <2> QED BY <1>1, <2>1, <2>2, <2>3 DEF CacheShape
<1>3. Under = {}
  BY DEF QueriesInit, Under
<1>4. VisitsInv /\ LinkInv /\ ChangesInv
  BY DEF QueriesInit, VisitsInv, LinkInv, ChangesInv, Idle, Views, ReadViews
<1>5. RowsInv
  BY DEF QueriesInit, RowsInv, RowsOf, Views, ReadViews
<1>6. SeatsInv
  BY <1>3 DEF QueriesInit, SeatsInv, Snapshots, Nobody, Views
<1>7. PresenceInv
  BY DEF QueriesInit, PresenceInv, Views
<1> QED BY <1>2, <1>4, <1>5, <1>6, <1>7 DEF QueriesInv

(***************************************************************************)
(* What a step does to the frames and to the mutations.                    *)
(***************************************************************************)
Frame(topic, entry) == [topic |-> topic, entry |-> entry]

LEMMA BroadcastAdds ==
  ASSUME frames \in Seq(Frames), NEW topic, NEW entry, Frame(topic, entry) \in Frames,
         Broadcast(topic, entry)
  PROVE  /\ frames' \in Seq(Frames)
         /\ Under' = IF Delivered THEN Under \cup {Frame(topic, entry)} ELSE Under
<1> DEFINE f == Frame(topic, entry)
<1>1. CASE Delivered
  <2>1. frames' = Append(frames, f)
    BY <1>1 DEF Broadcast, Frame
  <2> HIDE DEF f
  <2>2. frames' \in Seq(Frames) /\ Len(frames') = Len(frames) + 1
        /\ \A k \in 1 .. Len(frames) : frames'[k] = frames[k]
    BY <2>1 DEF f
  <2>3. frames'[Len(frames) + 1] = f
    BY <2>1 DEF f
  <2>4. 1 .. Len(frames') = 1 .. Len(frames) \cup {Len(frames) + 1}
    BY <2>2
  <2>5. Under' = Under \cup {f}
    BY <2>2, <2>3, <2>4 DEF Under
  <2> QED BY <1>1, <2>2, <2>5 DEF f
<1>2. CASE ~Delivered
  BY <1>2 DEF Broadcast, Under
<1> QED BY <1>1, <1>2

LEMMA HeadTaken ==
  ASSUME frames \in Seq(Frames), frames # <<>>, frames' = Tail(frames)
  PROVE  /\ frames' \in Seq(Frames) /\ Under' \subseteq Under
         /\ Head(frames) \in Under /\ Head(frames) \in Frames
         /\ Under \subseteq Under' \cup {Head(frames)}
<1>1. frames' \in Seq(Frames) /\ Len(frames) \in Nat /\ Len(frames) > 0
      /\ Len(frames') = Len(frames) - 1
  OBVIOUS
<1>2. \A k \in 1 .. Len(frames') : k + 1 \in 1 .. Len(frames) /\ frames'[k] = frames[k + 1]
  BY <1>1
<1>3. Head(frames) = frames[1] /\ 1 \in 1 .. Len(frames)
  BY <1>1
<1>4. \A k \in 1 .. Len(frames) : k = 1 \/ (k - 1 \in 1 .. Len(frames') /\ frames'[k - 1] = frames[k])
  BY <1>1
<1> QED BY <1>1, <1>2, <1>3, <1>4 DEF Under

\* Mutation m becomes c.
Changes(m, c) == changes' = [n \in Ids |-> IF n = m THEN c ELSE changes[n]]

LEMMA ChangeIs ==
  ASSUME CacheShape, NEW m \in Ids
  PROVE  \E k, t, l, p, o : /\ changes[m] = ChangeOf(k, t, l, p, o)
                            /\ changes[m].kind = k /\ changes[m].to = t /\ changes[m].left = l
                            /\ changes[m].prev = p /\ changes[m].over = o
BY DEF CacheShape

LEMMA MarkBookChanges ==
  ASSUME CacheShape, NEW m \in Ids, NEW i, NEW to, MarkBook(m, i, to)
  PROVE  Changes(m, ChangeOf("book", to, {i}, Blank, FALSE))
<1>1. [[[Idle EXCEPT !.kind = "book"] EXCEPT !.to = to] EXCEPT !.left = {i}]
      = ChangeOf("book", to, {i}, Blank, FALSE)
  <2> DEFINE no == FALSE
  <2>1. Idle = ChangeOf("none", no, {}, Blank, no)
    BY DEF Idle, ChangeOf
  <2> HIDE DEF no
  <2>2. [ChangeOf("none", no, {}, Blank, no) EXCEPT !.kind = "book"]
        = ChangeOf("book", no, {}, Blank, no)
    BY DEF ChangeOf
  <2>3. [ChangeOf("book", no, {}, Blank, no) EXCEPT !.to = to] = ChangeOf("book", to, {}, Blank, no)
    BY DEF ChangeOf
  <2>4. [ChangeOf("book", to, {}, Blank, no) EXCEPT !.left = {i}]
        = ChangeOf("book", to, {i}, Blank, no)
    BY DEF ChangeOf
  <2>5. [[[Idle EXCEPT !.kind = "book"] EXCEPT !.to = to] EXCEPT !.left = {i}]
        = ChangeOf("book", to, {i}, Blank, no)
    BY <2>1, <2>2, <2>3, <2>4
  <2> QED BY <2>5 DEF no
<1>2. changes' = [changes EXCEPT ![m] = [[[Idle EXCEPT !.kind = "book"] EXCEPT !.to = to]
                                          EXCEPT !.left = {i}]]
  BY DEF MarkBook
<1> QED BY <1>1, <1>2 DEF Changes, CacheShape

LEMMA EditBookChanges ==
  ASSUME CacheShape, NEW m \in Ids, NEW i, EditBook(m, i)
  PROVE  Changes(m, ChangeOf("edit", FALSE, {i}, Blank, FALSE))
<1>1. [[Idle EXCEPT !.kind = "edit"] EXCEPT !.left = {i}]
      = ChangeOf("edit", FALSE, {i}, Blank, FALSE)
  <2> DEFINE no == FALSE
  <2>1. Idle = ChangeOf("none", no, {}, Blank, no)
    BY DEF Idle, ChangeOf
  <2> HIDE DEF no
  <2>2. [ChangeOf("none", no, {}, Blank, no) EXCEPT !.kind = "edit"]
        = ChangeOf("edit", no, {}, Blank, no)
    BY DEF ChangeOf
  <2>3. [ChangeOf("edit", no, {}, Blank, no) EXCEPT !.left = {i}]
        = ChangeOf("edit", no, {i}, Blank, no)
    BY DEF ChangeOf
  <2>4. [[Idle EXCEPT !.kind = "edit"] EXCEPT !.left = {i}] = ChangeOf("edit", no, {i}, Blank, no)
    BY <2>1, <2>2, <2>3
  <2> QED BY <2>4 DEF no
<1>2. changes' = [changes EXCEPT ![m] = [[Idle EXCEPT !.kind = "edit"] EXCEPT !.left = {i}]]
  BY DEF EditBook
<1> QED BY <1>1, <1>2 DEF Changes, CacheShape

LEMMA MarkCellsChanges ==
  ASSUME CacheShape, NEW m \in Ids, NEW S, NEW to, MarkCells(m, S, to)
  PROVE  Changes(m, ChangeOf("cells", to, S, Reverted, FALSE))
BY DEF MarkCells, Changes, CacheShape, ChangeOf

LEMMA WriteChanges ==
  ASSUME CacheShape, NEW m \in Ids, NEW i, Write(m, i)
  PROVE  Changes(m, ChangeOf(changes[m].kind, changes[m].to, changes[m].left \ {i},
                             changes[m].prev, changes[m].over))
<1>1. PICK k, t, l, p, o :
        /\ changes[m] = ChangeOf(k, t, l, p, o)
        /\ changes[m].kind = k /\ changes[m].to = t /\ changes[m].left = l
        /\ changes[m].prev = p /\ changes[m].over = o
  BY ChangeIs
<1>2. [changes[m] EXCEPT !.left = l \ {i}] = ChangeOf(k, t, l \ {i}, p, o)
  <2>1. [ChangeOf(k, t, l, p, o) EXCEPT !.left = l \ {i}] = ChangeOf(k, t, l \ {i}, p, o)
    BY DEF ChangeOf
  <2> QED BY <1>1, <2>1
<1>3. changes' = [changes EXCEPT ![m] = [changes[m] EXCEPT !.left = changes[m].left \ {i}]]
  BY DEF Write, CacheShape
<1> QED BY <1>1, <1>2, <1>3 DEF Changes, CacheShape

\* What is noted of a mutation that succeeds, and of one that fails.
StopOf(c, x) == [[c EXCEPT !.over = x] EXCEPT !.prev = Blank]
EndOf(c, x, left) == [StopOf(c, x) EXCEPT !.left = left]

LEMMA EndFields ==
  ASSUME NEW c, NEW k, NEW t, NEW l, NEW p, NEW o, c = ChangeOf(k, t, l, p, o),
         NEW left, NEW x
  PROVE  StopOf(c, x) = ChangeOf(k, t, l, Blank, x)
         /\ EndOf(c, x, left) = ChangeOf(k, t, left, Blank, x)
<1>1. [ChangeOf(k, t, l, p, o) EXCEPT !.over = x] = ChangeOf(k, t, l, p, x)
  BY DEF ChangeOf
<1>2. [ChangeOf(k, t, l, p, x) EXCEPT !.prev = Blank] = ChangeOf(k, t, l, Blank, x)
  BY DEF ChangeOf
<1>3. [ChangeOf(k, t, l, Blank, x) EXCEPT !.left = left] = ChangeOf(k, t, left, Blank, x)
  BY DEF ChangeOf
<1>4. StopOf(c, x) = ChangeOf(k, t, l, Blank, x)
  BY <1>1, <1>2 DEF StopOf
<1>5. EndOf(c, x, left) = ChangeOf(k, t, left, Blank, x)
  BY <1>3, <1>4 DEF EndOf
<1> QED BY <1>4, <1>5

\* Mutation m ends, with these issues left to write.
Ends(m, left) ==
  Changes(m, ChangeOf(changes[m].kind, changes[m].to, left, Blank, TRUE))

LEMMA SucceedsChanges ==
  ASSUME CacheShape, NEW m \in Ids, Succeeds(m) PROVE Ends(m, changes[m].left)
<1>1. PICK k, t, l, p, o :
        /\ changes[m] = ChangeOf(k, t, l, p, o)
        /\ changes[m].kind = k /\ changes[m].to = t /\ changes[m].left = l
  BY ChangeIs
<1>2. changes' = [changes EXCEPT ![m] = StopOf(changes[m], TRUE)]
  BY DEF Succeeds, CacheShape, StopOf
<1>3. StopOf(changes[m], TRUE) = ChangeOf(k, t, l, Blank, TRUE)
  <2> DEFINE yes == TRUE
  <2> HIDE DEF yes
  <2>1. StopOf(changes[m], yes) = ChangeOf(k, t, l, Blank, yes)
    BY <1>1, EndFields
  <2> QED BY <2>1 DEF yes
<1> QED BY <1>1, <1>2, <1>3 DEF Changes, CacheShape, Ends

LEMMA FailsChanges ==
  ASSUME CacheShape, NEW m \in Ids, Fails(m)
  PROVE  \E left : (changes[m].kind # "cells" => left = {}) /\ Ends(m, left)
<1>1. PICK left : /\ changes[m].kind # "cells" => left = {}
                  /\ changes' = [changes EXCEPT ![m].over = TRUE, ![m].prev = Blank,
                                                ![m].left = left]
  BY DEF Fails
<1>2. changes' = [changes EXCEPT ![m] = EndOf(changes[m], TRUE, left)]
  BY <1>1 DEF CacheShape, EndOf, StopOf
<1>3. PICK k, t, l, p, o :
        changes[m] = ChangeOf(k, t, l, p, o) /\ changes[m].kind = k /\ changes[m].to = t
  BY ChangeIs
<1>4. EndOf(changes[m], TRUE, left) = ChangeOf(k, t, left, Blank, TRUE)
  <2> DEFINE yes == TRUE
  <2> HIDE DEF yes
  <2>1. EndOf(changes[m], yes, left) = ChangeOf(k, t, left, Blank, yes)
    BY <1>3, EndFields
  <2> QED BY <2>1 DEF yes
<1>5. Ends(m, left)
  BY <1>2, <1>3, <1>4 DEF Changes, CacheShape, Ends
<1> QED BY <1>1, <1>5

\* How a step changes the mutations: it leaves them alone, begins one, writes one's issue or
\* ends one.
Begins(m) ==
  /\ changes[m].kind = "none"
  /\ \E k \in {"cells", "book", "edit"} : \E t, l, p :
       Changes(m, ChangeOf(k, t, l, p, FALSE)) /\ (k # "cells" => \E i : l = {i})
Writes(m) ==
  \E i \in changes[m].left :
    Changes(m, ChangeOf(changes[m].kind, changes[m].to, changes[m].left \ {i}, changes[m].prev,
                        changes[m].over))
Over(m) ==
  \E left : (changes[m].kind = "cells" \/ left = {}) /\ Ends(m, left)

LEMMA ChangesStep ==
  ASSUME CacheShape, ChangesInv, [QueriesNext]_queryVars
  PROVE  UNCHANGED changes \/ \E m \in Ids : Begins(m) \/ Writes(m) \/ Over(m)
<1>1. ASSUME NEW m \in Ids, NEW S, NEW to, MarkCells(m, S, to) PROVE Begins(m)
  <2>1. changes[m].kind = "none"
    BY <1>1 DEF MarkCells, Idle
  <2> QED BY <1>1, <2>1, MarkCellsChanges DEF Begins
<1>2. ASSUME NEW m \in Ids, NEW i, NEW to, MarkBook(m, i, to) PROVE Begins(m)
  <2>1. changes[m].kind = "none"
    BY <1>2 DEF MarkBook, Idle
  <2> QED BY <1>2, <2>1, MarkBookChanges DEF Begins
<1>3. ASSUME NEW m \in Ids, NEW i, EditBook(m, i) PROVE Begins(m)
  <2>1. changes[m].kind = "none"
    BY <1>3 DEF EditBook, Idle
  <2> QED BY <1>3, <2>1, EditBookChanges DEF Begins
<1>4. ASSUME NEW m \in Ids, NEW i, Write(m, i) PROVE Writes(m)
  BY <1>4, WriteChanges DEF Writes, Write
<1>5. ASSUME NEW m \in Ids, Succeeds(m) PROVE Over(m)
  BY <1>5, SucceedsChanges DEF Over, Succeeds
<1>6. ASSUME NEW m \in Ids, Fails(m) PROVE Over(m)
  BY <1>6, FailsChanges DEF Over
<1>7. ASSUME \/ \E v \in Views : Visit(v) \/ FetchAnswers(v) \/ FetchApplies(v) \/ FetchFails(v)
             \/ \E i \in Issues : OtherMarks(i)
             \/ ScanEnds
             \/ \E w \in Members : Sit(w)
             \/ \E n \in notes : Announce(n)
             \/ OnOpen \/ Subscribe \/ OnClose \/ OnSignal \/ OnPresence
             \/ UNCHANGED queryVars
      PROVE  UNCHANGED changes
  BY <1>7 DEF Visit, FetchAnswers, FetchApplies, FetchFails, OtherMarks, ScanEnds, Sit,
     Announce, OnOpen, Subscribe, OnClose, OnSignal, OnPresence, queryVars
<1> QED BY <1>1, <1>2, <1>3, <1>4, <1>5, <1>6, <1>7, QuerySteps

LEMMA ChangesInvStep ==
  ASSUME CacheShape, ChangesInv, [QueriesNext]_queryVars
  PROVE  /\ ChangesInv' /\ changes' = [m \in Ids |-> changes'[m]]
         /\ \A m \in Ids : changes'[m] = ChangeOf(changes'[m].kind, changes'[m].to,
                             changes'[m].left, changes'[m].prev, changes'[m].over)
<1> DEFINE Good == /\ ChangesInv' /\ changes' = [m \in Ids |-> changes'[m]]
                   /\ \A m \in Ids : changes'[m] = ChangeOf(changes'[m].kind, changes'[m].to,
                             changes'[m].left, changes'[m].prev, changes'[m].over)
<1>1. CASE UNCHANGED changes
  BY <1>1 DEF CacheShape, ChangesInv
<1>2. ASSUME NEW m \in Ids, NEW k \in {"none", "cells", "book", "edit"}, NEW t, NEW l, NEW p,
             NEW o, Changes(m, ChangeOf(k, t, l, p, o)),
             k = "none" => l = {},
             k # "cells" => (\A i \in l : l = {i}) /\ (o => l = {})
      PROVE  Good
  <2>1. \A n \in Ids : changes'[n] = IF n = m THEN ChangeOf(k, t, l, p, o) ELSE changes[n]
    BY <1>2 DEF Changes
  <2>2. changes'[m].kind = k /\ changes'[m].to = t /\ changes'[m].left = l
        /\ changes'[m].prev = p /\ changes'[m].over = o
    BY <2>1 DEF ChangeOf
  <2>3. changes' = [n \in Ids |-> changes'[n]]
    BY <1>2 DEF Changes
  <2>4. \A n \in Ids : n # m => changes'[n] = changes[n]
    BY <2>1
  <2>5. ChangesInv'
    <3> SUFFICES ASSUME NEW n \in Ids
                 PROVE  /\ changes'[n].kind \in {"none", "cells", "book", "edit"}
                        /\ changes'[n].kind = "none" => changes'[n].left = {}
                        /\ changes'[n].kind # "cells" =>
                             /\ \A i \in changes'[n].left : changes'[n].left = {i}
                             /\ changes'[n].over => changes'[n].left = {}
      BY DEF ChangesInv
    <3> QED BY <1>2, <2>2, <2>4 DEF ChangesInv
  <2>6. \A n \in Ids : changes'[n] = ChangeOf(changes'[n].kind, changes'[n].to,
                             changes'[n].left, changes'[n].prev, changes'[n].over)
    BY <2>1, <2>2, <2>4 DEF CacheShape
  <2> QED BY <2>3, <2>5, <2>6
<1>3. ASSUME NEW m \in Ids, Begins(m) PROVE Good
  BY <1>2, <1>3 DEF Begins
<1>4. ASSUME NEW m \in Ids, Writes(m) PROVE Good
  BY <1>2, <1>4 DEF Writes, ChangesInv
<1>5. ASSUME NEW m \in Ids, Over(m) PROVE Good
  BY <1>2, <1>5 DEF Over, Ends, ChangesInv
<1> QED BY <1>1, <1>3, <1>4, <1>5, ChangesStep

\* What is under way after a step: what was, and the frame that is sent.
LEMMA FramesStep ==
  ASSUME CacheShape, SeatsInv, [QueriesNext]_queryVars PROVE frames' \in Seq(Frames)
<1>1. ASSUME NEW topic \in {"progress", "jobs"}, Broadcast(topic, Blank)
      PROVE  frames' \in Seq(Frames)
  BY <1>1, BroadcastAdds DEF Frame, Frames, CacheShape
<1>2. ASSUME NEW n \in notes, Broadcast("presence", n) PROVE frames' \in Seq(Frames)
  BY <1>2, BroadcastAdds DEF Frame, Frames, CacheShape, SeatsInv
<1>3. ASSUME ScanEnds \/ \E i \in Issues : OtherMarks(i)
      PROVE  frames' \in Seq(Frames)
  BY <1>1, <1>3 DEF OtherMarks, ScanEnds
<1>4. ASSUME NEW m, NEW i, Write(m, i) PROVE frames' \in Seq(Frames)
  BY <1>1, <1>4 DEF Write, CacheShape
<1>5. ASSUME NEW n \in notes, Announce(n) PROVE frames' \in Seq(Frames)
  BY <1>2, <1>5 DEF Announce
<1>6. ASSUME OnSignal \/ OnPresence PROVE frames' \in Seq(Frames)
  BY <1>6, HeadTaken DEF OnSignal, OnPresence, CacheShape
<1>7. ASSUME OnClose PROVE frames' \in Seq(Frames)
  BY <1>7 DEF OnClose
<1>8. ASSUME \/ \E v \in Views : Visit(v) \/ FetchAnswers(v) \/ FetchApplies(v) \/ FetchFails(v)
             \/ \E w \in Members : Sit(w)
             \/ OnOpen \/ Subscribe
             \/ \E m \in Ids : \/ \E S, to : MarkCells(m, S, to)
                               \/ \E i, to : MarkBook(m, i, to)
                               \/ \E i : EditBook(m, i)
                               \/ Succeeds(m) \/ Fails(m)
             \/ UNCHANGED queryVars
      PROVE  UNCHANGED frames
  BY <1>8 DEF Visit, FetchAnswers, FetchApplies, FetchFails, Sit, OnOpen, Subscribe, MarkCells,
     MarkBook, EditBook, Succeeds, Fails, link, queryVars
<1> QED BY <1>3, <1>4, <1>5, <1>6, <1>7, <1>8, QuerySteps DEF CacheShape

LEMMA CacheShapeStep ==
  ASSUME CacheShape, ChangesInv, SeatsInv, [QueriesNext]_queryVars PROVE CacheShape'
<1>1. Flag(held)'
  BY QuerySteps DEF CacheShape, Flag, Visit, FetchAnswers, FetchApplies, FetchFails, OtherMarks,
     ScanEnds, Sit, Announce, OnOpen, Subscribe, OnClose, OnSignal, OnPresence, MarkCells,
     MarkBook, EditBook, Write, Succeeds, Fails, cache, queryVars
<1>2. Flag(loaded)'
  BY QuerySteps DEF CacheShape, Flag, Visit, FetchAnswers, FetchApplies, FetchFails, OtherMarks,
     ScanEnds, Sit, Announce, OnOpen, Subscribe, OnClose, OnSignal, OnPresence, MarkCells,
     MarkBook, EditBook, Write, Succeeds, Fails, cache, queryVars
<1>3. Flag(fetch)' /\ Flag(answer)'
  BY QuerySteps DEF CacheShape, Flag, Visit, FetchAnswers, FetchApplies, FetchFails, OtherMarks,
     ScanEnds, Sit, Announce, OnOpen, Subscribe, OnClose, OnSignal, OnPresence, MarkCells,
     MarkBook, EditBook, Write, Succeeds, Fails, Invalidate, Refetch, cache, queryVars
<1>4. Flag(missed)'
  BY QuerySteps DEF CacheShape, Flag, Visit, FetchAnswers, FetchApplies, FetchFails, OtherMarks,
     ScanEnds, Sit, Announce, OnOpen, Subscribe, OnClose, OnSignal, OnPresence, MarkCells,
     MarkBook, EditBook, Write, Succeeds, Fails, Miss, queryVars
<1> QED BY <1>1, <1>2, <1>3, <1>4, ChangesInvStep, FramesStep DEF CacheShape

LEMMA LinkStep ==
  ASSUME LinkInv, [QueriesNext]_queryVars PROVE LinkInv'
<1>1. ASSUME NEW topic, NEW entry, Broadcast(topic, entry), UNCHANGED <<conn, had>>
      PROVE  LinkInv'
  BY <1>1 DEF Broadcast, Delivered, LinkInv
<1>2. ASSUME UNCHANGED link PROVE LinkInv'
  BY <1>2 DEF link, LinkInv
<1>3. ASSUME ScanEnds \/ (\E i : OtherMarks(i)) \/ (\E n : Announce(n)) PROVE LinkInv'
  BY <1>1, <1>3 DEF OtherMarks, ScanEnds, Announce
<1>4. ASSUME NEW m, NEW i, Write(m, i) PROVE LinkInv'
  BY <1>1, <1>2, <1>4 DEF Write, link
<1>5. ASSUME OnSignal \/ OnPresence PROVE LinkInv'
  BY <1>5 DEF OnSignal, OnPresence, LinkInv
<1>6. ASSUME OnOpen \/ Subscribe \/ OnClose PROVE LinkInv'
  BY <1>6 DEF OnOpen, Subscribe, OnClose, LinkInv
<1>7. ASSUME \/ \E v \in Views : Visit(v) \/ FetchAnswers(v) \/ FetchApplies(v) \/ FetchFails(v)
             \/ \E w \in Members : Sit(w)
             \/ \E m \in Ids : \/ \E S, to : MarkCells(m, S, to)
                               \/ \E i, to : MarkBook(m, i, to)
                               \/ \E i : EditBook(m, i)
                               \/ Succeeds(m) \/ Fails(m)
             \/ UNCHANGED queryVars
      PROVE  UNCHANGED link
  BY <1>7 DEF Visit, FetchAnswers, FetchApplies, FetchFails, Sit, MarkCells,
     MarkBook, EditBook, Succeeds, Fails, link, queryVars
<1> QED BY <1>2, <1>3, <1>4, <1>5, <1>6, <1>7, QuerySteps

\* The views among those refreshed that are open have their requests made.
LEMMA RefetchVisits ==
  ASSUME CacheShape, VisitsInv, NEW vs, NEW cells, Invalidate(vs, cells), NEW v \in Views
  PROVE  /\ fetch'[v] # "idle" => v \in open
         /\ v \notin vs => fetch'[v] = fetch[v] /\ answer'[v] = answer[v]
         /\ v \in vs /\ v \in open => fetch'[v] = "sent" \/ (fetch'[v] = fetch[v] /\ ~Restarts(v))
         /\ v \notin open => fetch'[v] = fetch[v] /\ fetch[v] = "idle"
BY DEF Invalidate, Refetch, VisitsInv, CacheShape, Flag

LEMMA VisitsStep ==
  ASSUME CacheShape, VisitsInv, [QueriesNext]_queryVars PROVE VisitsInv'
<1>1. ASSUME UNCHANGED <<open, stale, loaded, fetch>> PROVE VisitsInv'
  BY <1>1 DEF VisitsInv
<1>2. ASSUME NEW vs, NEW cells, Invalidate(vs, cells), UNCHANGED <<open, stale, loaded>>
      PROVE  VisitsInv'
  BY <1>2, RefetchVisits DEF VisitsInv
<1>3. ASSUME NEW v \in Views, Visit(v) PROVE VisitsInv'
  <2>1. \A x \in Views : fetch'[x] # "idle" => x = v \/ fetch[x] # "idle"
    BY <1>3 DEF Visit, Refetch, CacheShape, Flag
  <2> QED BY <1>3, <2>1 DEF Visit, VisitsInv
<1>4. ASSUME NEW v \in Views, FetchAnswers(v) PROVE VisitsInv'
  BY <1>4 DEF FetchAnswers, VisitsInv, visits, CacheShape, Flag
<1>5. ASSUME NEW v \in Views, FetchApplies(v) PROVE VisitsInv'
  BY <1>5 DEF FetchApplies, VisitsInv, visits, CacheShape, Flag, ReadViews, Views
<1>6. ASSUME NEW v \in Views, FetchFails(v) PROVE VisitsInv'
  BY <1>6 DEF FetchFails, VisitsInv, visits, CacheShape, Flag
<1>7. ASSUME OnOpen PROVE VisitsInv'
  BY <1>7, RefetchVisits DEF OnOpen, VisitsInv
<1>8. ASSUME OnSignal \/ \E m : Succeeds(m) PROVE VisitsInv'
  BY <1>2, <1>8 DEF OnSignal, Succeeds, visits
<1>9. ASSUME OnPresence PROVE VisitsInv'
  BY <1>9 DEF OnPresence, VisitsInv, CacheShape, Flag, ReadViews, Views
<1>10. ASSUME NEW m, NEW S, NEW to, MarkCells(m, S, to) PROVE VisitsInv'
  BY <1>10 DEF MarkCells, VisitsInv, visits, CacheShape, Flag, Views
<1>11. ASSUME NEW m, Fails(m) PROVE VisitsInv'
  BY <1>1, <1>2, <1>11 DEF Fails, visits
<1>12. ASSUME \/ \E i \in Issues : OtherMarks(i)
              \/ ScanEnds
              \/ \E w \in Members : Sit(w)
              \/ \E n \in notes : Announce(n)
              \/ Subscribe \/ OnClose
              \/ \E m \in Ids : \/ \E i, to : MarkBook(m, i, to)
                                \/ \E i : EditBook(m, i) \/ Write(m, i)
              \/ UNCHANGED queryVars
       PROVE  UNCHANGED <<open, stale, loaded, fetch>>
  BY <1>12 DEF OtherMarks, ScanEnds, Sit, Announce, Subscribe, OnClose, MarkBook, EditBook,
     Write, cache, visits, queryVars
<1> QED BY <1>1, <1>3, <1>4, <1>5, <1>6, <1>7, <1>8, <1>9, <1>10, <1>11, <1>12, QuerySteps

(***************************************************************************)
(* The views of the server's rows.                                         *)
(***************************************************************************)
LEMMA ShownKept ==
  ASSUME NEW v \in ReadViews, UNCHANGED read, v = "tracker" \/ UNCHANGED version
  PROVE  Shown'[v] = Shown[v]
BY DEF Shown, ReadViews

\* What is due stays due while the link is as it was, frames come, and no mutation ends.
LEMMA DueKept ==
  ASSUME NEW v, UNCHANGED <<conn, had>> \/ ~Resyncs,
         \A f \in Under : f \in Under' \/ f.topic \notin Topics(v),
         \A m \in Ids : Settling(m) => Settling(m)',
         Due(v)
  PROVE  Due(v)'
<1>1. Resyncs => UNCHANGED <<conn, had>> /\ Resyncs'
  BY DEF Resyncs
<1>2. Told(v) => Told(v)'
  BY DEF Told
<1> QED BY <1>1, <1>2 DEF Due

LEMMA SettlingKept ==
  ASSUME CacheShape, NEW m \in Ids, Begins(m) \/ Writes(m) PROVE \A n \in Ids : Settling(n) => Settling(n)'
<1>1. CASE Begins(m)
  <2>1. ~Settling(m)
    BY <1>1 DEF Begins, Settling, Busy
  <2>2. \A n \in Ids : n # m => changes'[n] = changes[n]
    BY <1>1 DEF Begins, Changes
  <2> QED BY <2>1, <2>2 DEF Settling, Busy
<1>2. CASE Writes(m)
  <2>1. PICK i \in changes[m].left :
          Changes(m, ChangeOf(changes[m].kind, changes[m].to, changes[m].left \ {i},
                              changes[m].prev, changes[m].over))
    BY <1>2 DEF Writes
  <2>2. changes'[m].kind = changes[m].kind /\ changes'[m].over = changes[m].over
        /\ changes[m].left # {}
    BY <2>1 DEF Changes, ChangeOf
  <2>3. \A n \in Ids : n # m => changes'[n] = changes[n]
    BY <2>1 DEF Changes
  <2> QED BY <2>2, <2>3 DEF Settling, Busy
<1> QED BY <1>1, <1>2

Row(v) == <<fetch[v], answer[v], held[v], loaded[v]>>

LEMMA RowKept ==
  ASSUME NEW v \in ReadViews, RowsOf(v), Row(v)' = Row(v), missed[v] => missed'[v],
         missed'[v] \/ (Due(v) => Due(v)'),
         missed'[v] \/ Shown'[v] = Shown[v] \/ Due(v)'
  PROVE  RowsOf(v)'
BY DEF Row, RowsOf, Fresh

LEMMA RowDue == ASSUME NEW v, Due(v)' PROVE RowsOf(v)'
BY DEF RowsOf, Fresh

\* A view that is invalidated asks again, or is noted to have asked too early.
LEMMA RowRefreshed ==
  ASSUME CacheShape, VisitsInv, NEW vs, NEW cells, Invalidate(vs, cells), UNCHANGED loaded,
         NEW v \in ReadViews, v \in vs, v \in TooLate(vs) => missed'[v]
  PROVE  RowsOf(v)'
<1> USE DEF ReadViews, Views
<1>1. CASE v \notin open
  <2>1. fetch'[v] = "idle" /\ ~loaded'[v]
    BY <1>1, RefetchVisits DEF VisitsInv
  <2> QED BY <2>1 DEF RowsOf
<1>2. CASE v \in open
  <2>1. CASE fetch'[v] = "sent"
    BY <2>1 DEF RowsOf
  <2>2. CASE fetch'[v] = fetch[v] /\ ~Restarts(v)
    BY <2>2 DEF RowsOf, Restarts, TooLate
  <2> QED BY <1>2, <2>1, <2>2, RefetchVisits
<1> QED BY <1>1, <1>2

\* What changes the rows is told to the views it shows in, or its loss is noted.
LEMMA RowTold ==
  ASSUME CacheShape, NEW vs, NEW topic \in {"progress", "jobs"}, Broadcast(topic, Blank), Miss(vs),
         NEW v \in ReadViews, v \in vs => topic \in Topics(v),
         UNCHANGED <<conn, had>>, Row(v)' = Row(v), RowsOf(v),
         \A m \in Ids : Settling(m) => Settling(m)',
         v \notin vs => Shown'[v] = Shown[v]
  PROVE  RowsOf(v)'
<1> USE DEF ReadViews, Views
<1>1. Under' = IF Delivered THEN Under \cup {Frame(topic, Blank)} ELSE Under
  BY BroadcastAdds DEF CacheShape, Frame, Frames
<1>2. Due(v) => Due(v)'
  BY <1>1, DueKept
<1>3. missed'[v] = (missed[v] \/ (v \in vs /\ ~Delivered /\ ~Resyncs))
  BY DEF Miss
<1>4. CASE v \in vs
  <2>1. CASE Delivered
    <3>1. Frame(topic, Blank) \in Under' /\ Frame(topic, Blank).topic = topic
      BY <1>1, <2>1 DEF Frame
    <3>2. Due(v)'
      BY <1>4, <3>1 DEF Due, Told
    <3> QED BY <3>2, RowDue
  <2>2. CASE Resyncs
    <3>1. Due(v)'
      BY <2>2 DEF Due, Resyncs
    <3> QED BY <3>1, RowDue
  <2>3. CASE ~Delivered /\ ~Resyncs
    BY <1>3, <1>4, <2>3 DEF RowsOf
  <2> QED BY <2>1, <2>2, <2>3
<1>5. CASE v \notin vs
  BY <1>2, <1>3, <1>5, RowKept
<1> QED BY <1>4, <1>5

LEMMA RowsFetch ==
  ASSUME CacheShape, VisitsInv, RowsInv, NEW x \in Views,
         Visit(x) \/ FetchAnswers(x) \/ FetchApplies(x) \/ FetchFails(x)
  PROVE  RowsInv'
<1> SUFFICES ASSUME NEW v \in ReadViews PROVE RowsOf(v)'
  BY DEF RowsInv
<1> USE DEF ReadViews, Views
<1>1. UNCHANGED <<read, version, conn, had, frames, changes>>
  BY DEF Visit, FetchAnswers, FetchApplies, FetchFails, serverState, link
<1>2. Due(v) <=> Due(v)'
  BY <1>1 DEF Due, Resyncs, Told, Under, Settling, Busy
<1>3. Shown'[v] = Shown[v]
  BY <1>1, ShownKept
<1>4. RowsOf(v)
  BY DEF RowsInv
<1>5. CASE v # x
  <2>1. Row(v)' = Row(v) /\ missed'[v] = missed[v]
    <3>1. CASE Visit(x)
      BY <1>5, <3>1 DEF Visit, Row, Refetch, CacheShape, Flag
    <3>2. CASE FetchAnswers(x)
      BY <1>5, <3>2 DEF FetchAnswers, Row, CacheShape, Flag
    <3>3. CASE FetchApplies(x)
      BY <1>5, <3>3 DEF FetchApplies, Row, CacheShape, Flag
    <3>4. CASE FetchFails(x)
      BY <1>5, <3>4 DEF FetchFails, Row, CacheShape, Flag
    <3> QED BY <3>1, <3>2, <3>3, <3>4
  <2> QED BY <1>2, <1>3, <1>4, <2>1, RowKept
<1>6. CASE v = x
  <2>1. CASE Visit(x)
    <3>1. ~loaded[v] /\ fetch[v] = "idle"
      BY <1>6, <2>1 DEF Visit, VisitsInv
    <3>2. fetch'[v] = "sent"
      BY <1>6, <2>1, <3>1 DEF Visit, Refetch, Restarts
    <3> QED BY <3>2 DEF RowsOf
  <2>2. CASE FetchAnswers(x)
    <3>1. fetch'[v] = "answered" /\ answer'[v] = Shown[v]
      BY <1>6, <2>2 DEF FetchAnswers, CacheShape, Flag
    <3> QED BY <1>3, <3>1 DEF RowsOf, Fresh
  <2>3. CASE FetchApplies(x)
    <3>1. fetch[v] = "answered" /\ fetch'[v] = "idle" /\ held'[v] = answer[v]
          /\ (missed[v] => missed'[v])
      BY <1>6, <2>3 DEF FetchApplies, CacheShape, Flag
    <3> QED BY <1>2, <1>3, <1>4, <3>1 DEF RowsOf, Fresh
  <2>4. CASE FetchFails(x)
    <3>1. missed'[v]
      BY <1>6, <2>4 DEF FetchFails, CacheShape, Flag
    <3> QED BY <3>1 DEF RowsOf
  <2> QED BY <2>1, <2>2, <2>3, <2>4
<1> QED BY <1>5, <1>6

LEMMA RowsStream ==
  ASSUME CacheShape, VisitsInv, LinkInv, RowsInv,
         OnOpen \/ Subscribe \/ OnClose \/ OnSignal \/ OnPresence
  PROVE  RowsInv'
<1> SUFFICES ASSUME NEW v \in ReadViews PROVE RowsOf(v)'
  BY DEF RowsInv
<1> USE DEF ReadViews, Views
<1>1. RowsOf(v) /\ UNCHANGED <<read, version, changes>>
  BY DEF RowsInv, OnOpen, Subscribe, OnClose, OnSignal, OnPresence, serverState
<1>2. Shown'[v] = Shown[v]
  BY <1>1, ShownKept
<1>3. \A m \in Ids : Settling(m) => Settling(m)'
  BY <1>1 DEF Settling, Busy
<1>4. CASE OnOpen
  <2>1. /\ Invalidate(OpenRefreshes, held.tracker) /\ UNCHANGED <<frames, loaded, held, open>>
        /\ missed' = [x \in Views |-> missed[x] \/ x \in TooLate(OpenRefreshes)]
    BY <1>4 DEF OnOpen
  <2>2. CASE had
    <3>1. v \in OpenRefreshes
      BY <2>2 DEF OpenRefreshes, onProgress, onLibrary
    <3> QED BY <2>1, <3>1, RowRefreshed
  <2>3. CASE ~had
    <3>1. v \notin OpenRefreshes
      BY <2>3 DEF OpenRefreshes
    <3>2. Row(v)' = Row(v)
      BY <2>1, <3>1, RefetchVisits DEF Row
    <3>3. Due(v) => Due(v)'
      BY <1>3, <2>1, <2>3, DueKept DEF Resyncs, Under
    <3> QED BY <1>1, <1>2, <2>1, <3>2, <3>3, RowKept
  <2> QED BY <2>2, <2>3
<1>5. CASE Subscribe
  <2>1. ~Resyncs /\ UNCHANGED <<frames, missed, cache>>
    BY <1>5 DEF Subscribe, Resyncs
  <2>2. Due(v) => Due(v)'
    BY <1>3, <2>1, DueKept DEF Under
  <2> QED BY <1>1, <1>2, <2>1, <2>2, RowKept DEF Row, cache
<1>6. CASE OnClose
  <2>1. Due(v)'
    BY <1>6 DEF OnClose, LinkInv, Due, Resyncs
  <2> QED BY <2>1, RowDue
<1>7. CASE OnSignal
  <2> DEFINE f == Head(frames)
             vs == IF f.topic = "progress" THEN onProgress ELSE onJob
  <2>1. /\ f.topic # "presence" /\ Invalidate(vs, held.tracker)
        /\ UNCHANGED <<loaded, held, open, conn, had>>
        /\ missed' = [x \in Views |-> missed[x] \/ x \in TooLate(vs)]
    BY <1>7 DEF OnSignal, visits
  <2>2. f \in Frames /\ \A g \in Under : g \in Under' \/ g = f
    BY <1>7, HeadTaken DEF OnSignal, CacheShape
  <2>3. CASE v \in vs
    BY <2>1, <2>3, RowRefreshed
  <2>4. CASE v \notin vs
    <3>1. f.topic \notin Topics(v)
      BY <2>1, <2>2, <2>4 DEF onProgress, onJob, CatalogViews, Topics, Frames
    <3>2. Due(v) => Due(v)'
      BY <1>3, <2>1, <2>2, <3>1, DueKept
    <3>3. Row(v)' = Row(v)
      BY <2>1, <2>4, RefetchVisits DEF Row
    <3> QED BY <1>1, <1>2, <2>1, <3>2, <3>3, RowKept
  <2> QED BY <2>3, <2>4
<1>8. CASE OnPresence
  <2> DEFINE f == Head(frames)
  <2>1. f.topic = "presence" /\ f.topic \notin Topics(v)
    BY <1>8 DEF OnPresence, Topics
  <2>2. \A g \in Under : g \in Under' \/ g = f
    BY <1>8, HeadTaken DEF OnPresence, CacheShape
  <2>3. Due(v) => Due(v)'
    BY <1>3, <1>8, <2>1, <2>2, DueKept DEF OnPresence
  <2>4. Row(v)' = Row(v) /\ missed'[v] = missed[v]
    BY <1>8 DEF OnPresence, Row, CacheShape, Flag
  <2> QED BY <1>1, <1>2, <2>3, <2>4, RowKept
<1> QED BY <1>4, <1>5, <1>6, <1>7, <1>8

LEMMA RowsServer ==
  ASSUME CacheShape, SeatsInv, RowsInv,
         \/ \E i : OtherMarks(i)
         \/ ScanEnds
         \/ \E w : Sit(w)
         \/ \E n : Announce(n)
  PROVE  RowsInv'
<1> SUFFICES ASSUME NEW v \in ReadViews PROVE RowsOf(v)'
  BY DEF RowsInv
<1> USE DEF ReadViews, Views
<1>1. RowsOf(v) /\ Row(v)' = Row(v) /\ UNCHANGED <<conn, had, changes>>
  BY DEF RowsInv, OtherMarks, ScanEnds, Sit, Announce, Row, cache, link
<1>2. \A m \in Ids : Settling(m) => Settling(m)'
  BY <1>1 DEF Settling, Busy
<1>3. ASSUME NEW i, OtherMarks(i) PROVE RowsOf(v)'
  BY <1>1, <1>2, <1>3, RowTold DEF OtherMarks, Topics
<1>4. ASSUME ScanEnds PROVE RowsOf(v)'
  <2>1. v \notin CatalogViews => Shown'[v] = Shown[v]
    BY <1>4, ShownKept DEF ScanEnds, CatalogViews
  <2> QED BY <1>1, <1>2, <1>4, <2>1, RowTold DEF ScanEnds, CatalogViews, Topics
<1>5. ASSUME UNCHANGED <<read, version>>, Under \subseteq Under', missed'[v] = missed[v]
      PROVE  RowsOf(v)'
  <2>1. Due(v) => Due(v)'
    BY <1>1, <1>2, <1>5, DueKept
  <2> QED BY <1>1, <1>5, <2>1, ShownKept, RowKept
<1>6. ASSUME NEW w, Sit(w) PROVE RowsOf(v)'
  BY <1>5, <1>6 DEF Sit, link, Under
<1>7. ASSUME NEW n, Announce(n) PROVE RowsOf(v)'
  <2>1. Under \subseteq Under'
    BY <1>7, BroadcastAdds DEF Announce, CacheShape, SeatsInv, Frame, Frames
  <2>2. missed'[v] = missed[v]
    BY <1>7 DEF Announce, CacheShape, Flag
  <2> QED BY <1>5, <1>7, <2>1, <2>2 DEF Announce
<1> QED BY <1>3, <1>4, <1>6, <1>7

LEMMA RowsMutations ==
  ASSUME CacheShape, VisitsInv, ChangesInv, RowsInv, NEW m \in Ids,
         \/ \E S, to : MarkCells(m, S, to)
         \/ \E i, to : MarkBook(m, i, to)
         \/ \E i : EditBook(m, i) \/ Write(m, i)
         \/ Succeeds(m) \/ Fails(m)
  PROVE  RowsInv'
<1> SUFFICES ASSUME NEW v \in ReadViews PROVE RowsOf(v)'
  BY DEF RowsInv
<1> USE DEF ReadViews, Views
<1>1. RowsOf(v)
  BY DEF RowsInv
\* The marked cells are the tracker's until the mutation is over.
<1>2. ASSUME NEW S, NEW to, MarkCells(m, S, to) PROVE RowsOf(v)'
  <2>1. changes'[m].kind = "cells" /\ ~changes'[m].over
    BY <1>2, MarkCellsChanges DEF Changes, ChangeOf
  <2>2. Due(v)'
    BY <2>1 DEF Due, Settling, Busy
  <2> QED BY <2>2, RowDue
<1>3. ASSUME NEW i, (\E to : MarkBook(m, i, to)) \/ EditBook(m, i) PROVE RowsOf(v)'
  <2>1. UNCHANGED <<serverState, link, cache, missed>> /\ changes[m] = Idle
    BY <1>3 DEF MarkBook, EditBook
  <2>2. Begins(m)
    <3>1. changes[m].kind = "none"
      BY <2>1 DEF Idle
    <3> QED BY <1>3, <3>1, MarkBookChanges, EditBookChanges DEF Begins
  <2>3. Due(v) => Due(v)'
    BY <2>1, <2>2, SettlingKept, DueKept DEF link, Under
  <2>4. Shown'[v] = Shown[v]
    BY <2>1, ShownKept DEF serverState
  <2> QED BY <1>1, <2>1, <2>3, <2>4, RowKept DEF cache, Row
<1>4. ASSUME NEW i, Write(m, i) PROVE RowsOf(v)'
  <2> DEFINE c == changes[m]
  <2>1. Writes(m) /\ Row(v)' = Row(v) /\ UNCHANGED <<conn, had>>
    BY <1>4, WriteChanges DEF Writes, Write, cache, Row
  <2>2. \A n \in Ids : Settling(n) => Settling(n)'
    BY <2>1, SettlingKept
  <2>3. CASE c.over
    <3>1. c.kind = "cells"
      BY <1>4, <2>3 DEF ChangesInv, Write
    <3>2. Broadcast("progress", Blank) /\ Miss(ReadViews)
      BY <1>4, <2>3, <3>1 DEF Write
    <3> QED BY <1>1, <2>1, <2>2, <3>2, RowTold DEF Topics
  <2>4. CASE ~c.over
    <3>1. c.kind # "none" /\ (c.kind # "cells" => c.left \ {i} = {})
      BY <1>4 DEF ChangesInv, Write
    <3>2. /\ changes'[m].kind = c.kind /\ ~changes'[m].over
          /\ c.kind # "cells" => changes'[m].left = {}
      BY <1>4, <2>4, <3>1, WriteChanges DEF Changes, ChangeOf
    <3>3. Due(v)'
      BY <3>1, <3>2 DEF Due, Settling, Busy
    <3> QED BY <3>3, RowDue
  <2> QED BY <2>3, <2>4
<1>5. ASSUME Succeeds(m) PROVE RowsOf(v)'
  BY <1>5, RowRefreshed DEF Succeeds, Settles
<1>6. ASSUME Fails(m) PROVE RowsOf(v)'
  <2> DEFINE c == changes[m]
  <2>1. CASE c.kind = "cells"
    BY <1>6, <2>1, RowRefreshed DEF Fails, Settles
  <2>2. CASE c.kind # "cells" /\ c.left = {}
    <3>1. missed'[v]
      BY <1>6, <2>2 DEF Fails
    <3> QED BY <3>1 DEF RowsOf
  \* A mark that was not written changes nothing that is shown.
  <2>3. CASE c.kind # "cells" /\ c.left # {}
    <3>1. UNCHANGED <<serverState, link, visits, loaded, held, fetch, answer>>
          /\ (missed[v] => missed'[v])
      BY <1>6, <2>3 DEF Fails
    <3>2. PICK left : Ends(m, left)
      BY <1>6, FailsChanges
    <3>3. \A n \in Ids : n # m => changes'[n] = changes[n]
      BY <3>2 DEF Ends, Changes
    <3>4. \A n \in Ids : Settling(n) => Settling(n)'
      BY <2>3, <3>3 DEF Settling, Busy
    <3>5. Due(v) => Due(v)'
      BY <3>1, <3>4, DueKept DEF link, Under
    <3>6. Shown'[v] = Shown[v]
      BY <3>1, ShownKept DEF serverState
    <3> QED BY <1>1, <3>1, <3>5, <3>6, RowKept DEF Row
  <2> QED BY <2>1, <2>2, <2>3
<1> QED BY <1>2, <1>3, <1>4, <1>5, <1>6

LEMMA RowsStep ==
  ASSUME CacheShape, VisitsInv, LinkInv, ChangesInv, SeatsInv, RowsInv, [QueriesNext]_queryVars
  PROVE  RowsInv'
<1>1. ASSUME UNCHANGED queryVars PROVE RowsInv'
  BY <1>1 DEF queryVars, RowsInv, RowsOf, Fresh, Due, Resyncs, Told, Under, Settling, Busy, Shown
<1> QED BY <1>1, RowsFetch, RowsStream, RowsServer, RowsMutations, QuerySteps

(***************************************************************************)
(* Presence.                                                               *)
(***************************************************************************)
\* A step that leaves the presence query and the calls alone.
Elsewhere ==
  /\ UNCHANGED <<seat, notes>> /\ Row("presence")' = Row("presence") /\ (stale <=> stale')
  /\ missed["presence"] => missed'["presence"]
  /\ Resyncs => Resyncs'
  /\ \A f \in Under \cup Under' : f.topic = "presence" => f \in Under /\ f \in Under'

LEMMA ElsewhereKeeps ==
  ASSUME SeatsInv, PresenceInv, Elsewhere PROVE SeatsInv' /\ PresenceInv'
<1>1. SeatsInv'
  BY DEF Elsewhere, SeatsInv, Row, Snapshots
<1>2. \A w : Coming(w) => Coming(w)'
  BY DEF Elsewhere, Coming, LastCall
<1>3. PresenceInv'
  BY <1>2 DEF Elsewhere, PresenceInv, Row
<1> QED BY <1>1, <1>3

LEMMA ElsewhereSteps ==
  ASSUME CacheShape, SeatsInv,
         \/ \E v \in ReadViews : Visit(v) \/ FetchAnswers(v) \/ FetchApplies(v) \/ FetchFails(v)
         \/ \E i : OtherMarks(i)
         \/ ScanEnds \/ Subscribe \/ OnSignal
         \/ \E m \in Ids : \/ \E S, to : MarkCells(m, S, to)
                           \/ \E i, to : MarkBook(m, i, to)
                           \/ \E i : EditBook(m, i) \/ Write(m, i)
                           \/ Succeeds(m) \/ Fails(m)
         \/ UNCHANGED queryVars
  PROVE  Elsewhere
<1> USE DEF ReadViews, Views
<1>1. ASSUME UNCHANGED frames
      PROVE  \A f \in Under \cup Under' : f.topic = "presence" => f \in Under /\ f \in Under'
  BY <1>1 DEF Under
<1>2. ASSUME NEW topic \in {"progress", "jobs"}, Broadcast(topic, Blank)
      PROVE  \A f \in Under \cup Under' : f.topic = "presence" => f \in Under /\ f \in Under'
  <2>1. Under' = IF Delivered THEN Under \cup {Frame(topic, Blank)} ELSE Under
    BY <1>2, BroadcastAdds DEF CacheShape, Frame, Frames
  <2>2. Frame(topic, Blank).topic = topic
    BY DEF Frame
  <2> QED BY <2>1, <2>2
<1>3. ASSUME NEW vs, NEW cells, Invalidate(vs, cells), "presence" \notin vs,
             UNCHANGED <<loaded, open>>, held'["presence"] = held["presence"]
      PROVE  Row("presence")' = Row("presence")
  BY <1>3 DEF Invalidate, Refetch, Row
<1>4. ASSUME UNCHANGED link PROVE Resyncs => Resyncs'
  BY <1>4 DEF link, Resyncs
<1>5. ASSUME NEW v \in ReadViews, Visit(v) \/ FetchAnswers(v) \/ FetchApplies(v) \/ FetchFails(v)
      PROVE  Elsewhere
  <2>1. UNCHANGED <<serverState, link>> /\ v # "presence"
    BY <1>5 DEF Visit, FetchAnswers, FetchApplies, FetchFails
  <2>2. CASE Visit(v)
    BY <1>1, <1>4, <2>1, <2>2 DEF Visit, Refetch, Row, Elsewhere, serverState, link, CacheShape, Flag
  <2>3. CASE FetchAnswers(v)
    BY <1>1, <1>4, <2>1, <2>3 DEF FetchAnswers, Row, Elsewhere, serverState, link, visits, CacheShape, Flag
  <2>4. CASE FetchApplies(v)
    BY <1>1, <1>4, <2>1, <2>4 DEF FetchApplies, Row, Elsewhere, serverState, link, visits, CacheShape, Flag
  <2>5. CASE FetchFails(v)
    BY <1>1, <1>4, <2>1, <2>5 DEF FetchFails, Row, Elsewhere, serverState, link, visits, CacheShape, Flag
  <2> QED BY <1>5, <2>2, <2>3, <2>4, <2>5
<1>6. ASSUME NEW topic \in {"progress", "jobs"}, Broadcast(topic, Blank),
             UNCHANGED <<seat, notes, conn, had, cache>>, missed["presence"] => missed'["presence"]
      PROVE  Elsewhere
  BY <1>2, <1>6 DEF Elsewhere, Resyncs, cache, visits, Row
<1>7. ASSUME ScanEnds \/ \E i : OtherMarks(i) PROVE Elsewhere
  BY <1>6, <1>7 DEF ScanEnds, OtherMarks, Miss
<1>8. ASSUME Subscribe PROVE Elsewhere
  BY <1>1, <1>8 DEF Subscribe, Elsewhere, Resyncs, cache, visits, serverState, Row
<1>9. ASSUME OnSignal PROVE Elsewhere
  <2> DEFINE f == Head(frames)
             vs == IF f.topic = "progress" THEN onProgress ELSE onJob
  <2>1. /\ f.topic # "presence" /\ Invalidate(vs, held.tracker)
        /\ UNCHANGED <<serverState, conn, had, visits, held, loaded>>
        /\ missed["presence"] => missed'["presence"]
    BY <1>9 DEF OnSignal
  <2>2. "presence" \notin vs
    BY DEF onProgress, onJob, CatalogViews
  <2>3. Row("presence")' = Row("presence")
    BY <1>3, <2>1, <2>2 DEF visits
  <2>4. \A g \in Under \cup Under' : g.topic = "presence" => g \in Under /\ g \in Under'
    BY <1>9, <2>1, HeadTaken DEF OnSignal, CacheShape
  <2> QED BY <2>1, <2>3, <2>4 DEF Elsewhere, serverState, visits, Resyncs
<1>10. ASSUME NEW m \in Ids, NEW S, NEW to, MarkCells(m, S, to) PROVE Elsewhere
  BY <1>1, <1>4, <1>10 DEF MarkCells, Elsewhere, Row, serverState, link, visits, CacheShape, Flag
<1>11. ASSUME NEW m \in Ids, (\E i, to : MarkBook(m, i, to)) \/ (\E i : EditBook(m, i))
       PROVE  Elsewhere
  <2>1. UNCHANGED <<serverState, link, cache, missed>>
    BY <1>11 DEF MarkBook, EditBook
  <2> QED BY <1>1, <1>4, <2>1 DEF Elsewhere, Row, serverState, link, cache, visits
<1>12. ASSUME NEW m \in Ids, NEW i, Write(m, i) PROVE Elsewhere
  <2>1. UNCHANGED <<seat, notes, conn, had, cache>> /\ (missed["presence"] => missed'["presence"])
    BY <1>12 DEF Write, Miss
  <2>2. Broadcast("progress", Blank) \/ UNCHANGED frames
    BY <1>12 DEF Write
  <2>3. CASE UNCHANGED frames
    BY <1>1, <2>1, <2>3 DEF Elsewhere, Resyncs, cache, visits, Row
  <2> QED BY <1>6, <2>1, <2>2, <2>3
<1>13. ASSUME NEW m \in Ids, Succeeds(m) PROVE Elsewhere
  <2>1. /\ Invalidate(Settles, held.tracker) /\ UNCHANGED <<serverState, link, visits, held, loaded>>
        /\ missed["presence"] => missed'["presence"]
    BY <1>13 DEF Succeeds
  <2>2. Row("presence")' = Row("presence")
    BY <1>3, <2>1 DEF visits, Settles
  <2> QED BY <1>1, <1>4, <2>1, <2>2 DEF Elsewhere, serverState, link, visits
<1>14. ASSUME NEW m \in Ids, Fails(m) PROVE Elsewhere
  <2>1. /\ UNCHANGED <<serverState, link, visits, loaded>>
        /\ missed["presence"] => missed'["presence"]
    BY <1>14 DEF Fails
  <2>2. Row("presence")' = Row("presence")
    <3>1. CASE changes[m].kind = "cells"
      <4>1. Invalidate(Settles, changes[m].prev) /\ held'["presence"] = held["presence"]
        BY <1>14, <3>1 DEF Fails, CacheShape, Flag
      <4> QED BY <1>3, <2>1, <4>1 DEF visits, Settles
    <3>2. CASE changes[m].kind # "cells"
      BY <1>14, <2>1, <3>2 DEF Fails, Row
    <3> QED BY <3>1, <3>2
  <2> QED BY <1>1, <1>4, <2>1, <2>2 DEF Elsewhere, serverState, link, visits
<1>15. ASSUME UNCHANGED queryVars PROVE Elsewhere
  BY <1>1, <1>15 DEF queryVars, Elsewhere, Resyncs, Row
<1> QED BY <1>5, <1>7, <1>8, <1>9, <1>10, <1>11, <1>12, <1>13, <1>14, <1>15

\* A call is announced once, in any order.
LEMMA SeatTaken ==
  ASSUME CacheShape, SeatsInv, PresenceInv, NEW w \in Members, Sit(w)
  PROVE  SeatsInv' /\ PresenceInv'
<1>1. /\ seat' = [seat EXCEPT ![w] = seat[w] + 1]
      /\ notes' = notes \cup {[who |-> w, nth |-> seat[w] + 1]}
      /\ UNCHANGED <<link, stale, missed>> /\ Row("presence")' = Row("presence")
      /\ Under' = Under
  BY DEF Sit, cache, visits, Row, link, Under, SeatsInv
<1>2. /\ seat' \in [Members -> Nat] /\ seat'[w] = seat[w] + 1
      /\ \A x \in Members : x # w => seat'[x] = seat[x]
      /\ \A x \in Members : seat[x] <= seat'[x] /\ seat[x] \in Nat
  BY <1>1 DEF SeatsInv
<1>3. Snapshots \subseteq Snapshots'
  BY <1>2 DEF Snapshots
<1>4. SeatsInv'
  <2>1. notes' \subseteq Notes /\ \A n \in notes' : n.nth <= seat'[n.who]
    BY <1>1, <1>2 DEF SeatsInv, Notes
  <2>2. \A f \in Under' : f.topic = "presence" => f.entry.nth <= seat'[f.entry.who]
    <3> SUFFICES ASSUME NEW f \in Under, f.topic = "presence"
                 PROVE  f.entry.nth <= seat'[f.entry.who]
      BY <1>1
    <3>1. f \in Frames
      BY DEF Under, CacheShape
    <3>2. f.entry \in Notes
      BY <3>1 DEF Frames
    <3>3. f.entry.who \in Members /\ f.entry.nth \in Nat
      BY <3>2 DEF Notes
    <3> QED BY <1>2, <3>3 DEF SeatsInv
  <2>3. /\ held'["presence"] \in Snapshots'
        /\ fetch'["presence"] = "answered" => answer'["presence"] \in Snapshots'
    BY <1>1, <1>3 DEF Row, SeatsInv
  <2> QED BY <1>2, <2>1, <2>2, <2>3 DEF SeatsInv
<1>5. LastCall(w)' = [who |-> w, nth |-> seat[w] + 1]
  BY <1>2 DEF LastCall
<1>6. Coming(w)'
  BY <1>1, <1>5 DEF Coming
<1>7. \A x \in Members : x # w => (Coming(x) => Coming(x)')
  BY <1>1, <1>2 DEF Coming, LastCall
<1>8. Resyncs => Resyncs'
  BY <1>1 DEF link, Resyncs
<1>9. PresenceInv'
  BY <1>1, <1>2, <1>6, <1>7, <1>8 DEF PresenceInv, Row
<1> QED BY <1>4, <1>9

LEMMA CallAnnounced ==
  ASSUME CacheShape, SeatsInv, PresenceInv, NEW n \in notes, Announce(n)
  PROVE  SeatsInv' /\ PresenceInv'
<1>1. /\ notes' = notes \ {n} /\ Broadcast("presence", n) /\ UNCHANGED <<seat, conn, had, stale>>
      /\ Row("presence")' = Row("presence")
      /\ missed["presence"] \/ (~Delivered /\ ~Resyncs) => missed'["presence"]
  BY DEF Announce, cache, visits, Row, CacheShape, Flag, Views
<1>2. Under' = IF Delivered THEN Under \cup {Frame("presence", n)} ELSE Under
  BY <1>1, BroadcastAdds DEF CacheShape, SeatsInv, Frame, Frames
<1>3. Frame("presence", n).topic = "presence" /\ Frame("presence", n).entry = n
  BY DEF Frame
<1>4. SeatsInv'
  BY <1>1, <1>2, <1>3 DEF SeatsInv, Row, Snapshots
<1>5. ASSUME ~missed'["presence"], NEW w, Coming(w) PROVE Coming(w)' \/ Resyncs'
  <2>1. CASE LastCall(w) = n /\ Delivered
    BY <1>1, <1>2, <1>3, <2>1 DEF Coming, LastCall
  <2>2. CASE LastCall(w) = n /\ ~Delivered
    BY <1>1, <1>5, <2>2 DEF Resyncs
  <2>3. CASE LastCall(w) # n
    BY <1>1, <1>2, <1>5, <2>3 DEF Coming, LastCall
  <2> QED BY <2>1, <2>2, <2>3
<1>6. Resyncs => Resyncs'
  BY <1>1 DEF Resyncs
<1>7. PresenceInv'
  BY <1>1, <1>5, <1>6 DEF PresenceInv, Row
<1> QED BY <1>4, <1>7

\* A frame that lowers an entry is noted, one that does not brings nearer what is held.
LEMMA FramePatches ==
  ASSUME CacheShape, SeatsInv, PresenceInv, OnPresence
  PROVE  SeatsInv' /\ PresenceInv'
<1> DEFINE f == Head(frames)
           w == f.entry.who
           n == f.entry.nth
           patched == [held["presence"] EXCEPT ![w] = n]
<1>1. /\ f.topic = "presence" /\ UNCHANGED <<seat, notes, conn, had, fetch, answer>>
      /\ held'["presence"] = patched /\ loaded'["presence"] /\ ~stale'
      /\ missed'["presence"] <=>
           patched # seat /\ (\/ missed["presence"] \/ ~loaded["presence"] \/ stale
                              \/ Older(patched, held["presence"]))
  BY DEF OnPresence, serverState, CacheShape, Flag, Views
<1>2. /\ f \in Under /\ f \in Frames /\ Under' \subseteq Under /\ Under \subseteq Under' \cup {f}
  BY HeadTaken DEF OnPresence, CacheShape
<1>3. f.entry \in Notes /\ w \in Members /\ n \in Nat /\ n <= seat[w]
  <2>1. f.entry \in Notes
    BY <1>1, <1>2 DEF Frames
  <2>2. n <= seat[w]
    BY <1>1, <1>2 DEF SeatsInv
  <2> QED BY <2>1, <2>2 DEF Notes
<1>4. f.entry = [who |-> w, nth |-> n]
  BY <1>3 DEF Notes
<1> HIDE DEF w, n
<1>5. \A x \in Members : /\ patched[x] = IF x = w THEN n ELSE held["presence"][x]
                         /\ seat[x] \in Nat /\ held["presence"][x] \in Nat
                         /\ held["presence"][x] <= seat[x]
  BY DEF SeatsInv, Snapshots
<1>6. patched \in [Members -> Nat]
  BY <1>3, <1>5 DEF SeatsInv, Snapshots
<1>7. SeatsInv'
  <2>1. held'["presence"] \in Snapshots'
    BY <1>1, <1>3, <1>5, <1>6 DEF Snapshots
  <2> QED BY <1>1, <1>2, <2>1 DEF SeatsInv, Snapshots
\* The frame of a member's last call brings it.
<1>8. ASSUME NEW x \in Members, Coming(x) PROVE Coming(x)' \/ (x = w /\ n = seat[x])
  <2>1. CASE f.entry = LastCall(x)
    BY <1>4, <2>1 DEF LastCall
  <2>2. CASE f.entry # LastCall(x)
    BY <1>1, <1>2, <1>8, <2>2 DEF Coming, LastCall
  <2> QED BY <2>1, <2>2
<1>9. Resyncs <=> Resyncs'
  BY <1>1 DEF Resyncs
<1>10. CASE patched = seat
  <2>1. \A x \in Members : held'["presence"][x] = seat[x]
    BY <1>1, <1>10
  <2>2. ASSUME fetch["presence"] = "answered", NEW x \in Members
        PROVE  answer'["presence"][x] = seat[x] \/ answer'["presence"][x] < held'["presence"][x]
    <3>1. answer["presence"][x] <= seat[x] /\ answer["presence"][x] \in Nat
      BY <2>2 DEF SeatsInv, Snapshots
    <3> QED BY <1>1, <1>5, <2>1, <3>1
  <2> QED BY <1>1, <1>7, <2>1, <2>2 DEF PresenceInv
<1>11. CASE patched # seat
  <2> SUFFICES ASSUME ~missed'["presence"]
               PROVE  /\ fetch["presence"] = "answered" =>
                           \A x \in Members : \/ answer["presence"][x] = seat[x] \/ Coming(x)' \/ Resyncs'
                                              \/ answer["presence"][x] < patched[x]
                      /\ fetch["presence"] = "idle" =>
                           \A x \in Members : patched[x] = seat[x] \/ Coming(x)' \/ Resyncs'
    BY <1>1, <1>7 DEF PresenceInv
  <2>1. /\ ~missed["presence"] /\ loaded["presence"] /\ ~stale
        /\ \A x \in Members : ~(patched[x] < held["presence"][x])
    BY <1>1, <1>11 DEF Older
  <2>2. ASSUME fetch["presence"] = "answered", NEW x \in Members
        PROVE  \/ answer["presence"][x] = seat[x] \/ Coming(x)' \/ Resyncs'
               \/ answer["presence"][x] < patched[x]
    <3>1. answer["presence"][x] <= seat[x] /\ answer["presence"][x] \in Nat
      BY <2>2 DEF SeatsInv, Snapshots
    <3>2. CASE Coming(x)
      BY <1>3, <1>5, <1>8, <3>1, <3>2
    <3>3. CASE answer["presence"][x] < held["presence"][x]
      BY <1>3, <1>5, <2>1, <3>1, <3>3
    <3> QED BY <1>9, <2>1, <2>2, <3>2, <3>3 DEF PresenceInv
  <2>3. ASSUME fetch["presence"] = "idle", NEW x \in Members
        PROVE  patched[x] = seat[x] \/ Coming(x)' \/ Resyncs'
    <3>1. CASE Coming(x)
      BY <1>5, <1>8, <3>1
    <3>2. CASE held["presence"][x] = seat[x]
      BY <1>3, <1>5, <2>1, <3>2
    <3> QED BY <1>9, <2>1, <2>3, <3>1, <3>2 DEF PresenceInv
  <2> QED BY <2>2, <2>3
<1> QED BY <1>10, <1>11

LEMMA PresenceFetched ==
  ASSUME CacheShape, VisitsInv, SeatsInv, PresenceInv,
         Visit("presence") \/ FetchAnswers("presence") \/ FetchApplies("presence")
           \/ FetchFails("presence")
  PROVE  SeatsInv' /\ PresenceInv'
<1> USE DEF Views
<1>1. UNCHANGED <<seat, notes, frames, conn, had>> /\ Under' = Under
  BY DEF Visit, FetchAnswers, FetchApplies, FetchFails, serverState, link, Under
<1>2. \A w : Coming(w) => Coming(w)'
  BY <1>1 DEF Coming, LastCall
<1>3. Resyncs => Resyncs'
  BY <1>1 DEF Resyncs
<1>4. CASE Visit("presence")
  <2>1. /\ UNCHANGED <<held, loaded, missed>> /\ fetch["presence"] = "idle" /\ ~stale'
        /\ \/ ~loaded["presence"] \/ stale
           \/ fetch'["presence"] = "idle" /\ loaded["presence"] /\ ~stale
    BY <1>4 DEF Visit
  <2>2. fetch'["presence"] = "sent" \/ (fetch'["presence"] = "idle" /\ loaded["presence"] /\ ~stale)
    BY <1>4, <2>1 DEF Visit, Refetch, Restarts
  <2>3. SeatsInv'
    BY <1>1, <2>1, <2>2 DEF SeatsInv, Snapshots
  <2> QED BY <1>1, <1>2, <1>3, <2>1, <2>2, <2>3 DEF PresenceInv
<1>5. CASE FetchAnswers("presence")
  <2>1. fetch'["presence"] = "answered" /\ answer'["presence"] = seat /\ UNCHANGED held
    BY <1>5 DEF FetchAnswers, CacheShape, Flag, Shown
  <2>2. SeatsInv'
    BY <1>1, <2>1 DEF SeatsInv, Snapshots
  <2> QED BY <1>1, <2>1, <2>2 DEF PresenceInv
<1>6. CASE FetchApplies("presence")
  <2>1. /\ fetch["presence"] = "answered" /\ fetch'["presence"] = "idle"
        /\ held'["presence"] = answer["presence"]
        /\ missed'["presence"] <=> missed["presence"] \/ (loaded["presence"]
                                     /\ Older(answer["presence"], held["presence"]))
    BY <1>6 DEF FetchApplies, CacheShape, Flag
  <2>2. SeatsInv'
    BY <1>1, <2>1 DEF SeatsInv, Snapshots
  <2> QED BY <1>1, <1>2, <1>3, <2>1, <2>2 DEF PresenceInv, Older
<1>7. CASE FetchFails("presence")
  <2>1. missed'["presence"] /\ fetch'["presence"] = "idle" /\ UNCHANGED held
    BY <1>7 DEF FetchFails, CacheShape, Flag
  <2> QED BY <1>1, <2>1 DEF SeatsInv, Snapshots, PresenceInv
<1> QED BY <1>4, <1>5, <1>6, <1>7

\* A socket that opens refreshes presence, or the strip will when it is visited.
LEMMA PresenceLink ==
  ASSUME CacheShape, VisitsInv, LinkInv, SeatsInv, PresenceInv, OnOpen \/ OnClose
  PROVE  SeatsInv' /\ PresenceInv'
<1> USE DEF Views
<1>1. CASE OnClose
  <2>1. /\ UNCHANGED <<seat, notes, missed, stale>> /\ Row("presence")' = Row("presence")
        /\ Under' = {} /\ Resyncs'
    BY <1>1 DEF OnClose, LinkInv, Resyncs, serverState, cache, visits, Row, Under
  <2> QED BY <2>1 DEF SeatsInv, Snapshots, PresenceInv, Row
<1>2. CASE OnOpen
  <2>1. /\ UNCHANGED <<seat, notes, frames, held, loaded, open>> /\ Under' = Under
        /\ Invalidate(OpenRefreshes, held.tracker) /\ "presence" \in OpenRefreshes
        /\ missed' = [v \in Views |-> missed[v] \/ v \in TooLate(OpenRefreshes)]
        /\ stale' <=> stale \/ (loaded["presence"] /\ "presence" \notin open)
    BY <1>2 DEF OnOpen, serverState, Under, OpenRefreshes
  <2>2. fetch'["presence"] = "answered" =>
          fetch["presence"] = "answered" /\ missed'["presence"]
    BY <2>1, RefetchVisits DEF TooLate
  <2>3. fetch'["presence"] = "idle" => ~loaded["presence"] \/ stale'
    <3>1. CASE "presence" \in open
      <4>1. fetch'["presence"] = "sent" \/ (fetch'["presence"] = fetch["presence"] /\ ~Restarts("presence"))
        BY <2>1, <3>1, RefetchVisits
      <4> QED BY <4>1 DEF Restarts
    <3>2. CASE "presence" \notin open
      BY <2>1, <3>2
    <3> QED BY <3>1, <3>2
  <2>4. fetch'["presence"] = "answered" => answer'["presence"] = answer["presence"]
    BY <2>1 DEF Invalidate, Refetch
  <2>5. SeatsInv'
    BY <2>1, <2>2, <2>4 DEF SeatsInv, Snapshots
  <2> QED BY <2>1, <2>2, <2>3, <2>5 DEF PresenceInv
<1> QED BY <1>1, <1>2

LEMMA PresenceStep ==
  ASSUME CacheShape, VisitsInv, LinkInv, SeatsInv, PresenceInv, [QueriesNext]_queryVars
  PROVE  SeatsInv' /\ PresenceInv'
<1>1. Elsewhere => SeatsInv' /\ PresenceInv'
  BY ElsewhereKeeps
<1>2. Views = ReadViews \cup {"presence"}
  BY DEF Views, ReadViews
<1>3. \A v \in Views : v \in ReadViews \/ v = "presence"
  BY <1>2
<1>4. ASSUME NEW v \in Views, Visit(v) \/ FetchAnswers(v) \/ FetchApplies(v) \/ FetchFails(v)
      PROVE  SeatsInv' /\ PresenceInv'
  BY <1>1, <1>3, <1>4, ElsewhereSteps, PresenceFetched
<1>5. ASSUME \/ \E i \in Issues : OtherMarks(i)
             \/ ScanEnds \/ Subscribe \/ OnSignal
             \/ \E m \in Ids : \/ \E S, to : MarkCells(m, S, to)
                               \/ \E i, to : MarkBook(m, i, to)
                               \/ \E i : EditBook(m, i) \/ Write(m, i)
                               \/ Succeeds(m) \/ Fails(m)
             \/ UNCHANGED queryVars
      PROVE  SeatsInv' /\ PresenceInv'
  BY <1>1, <1>5, ElsewhereSteps
<1> QED BY <1>4, <1>5, SeatTaken, CallAnnounced, FramePatches, PresenceLink, QuerySteps

LEMMA QueriesInvStep == QueriesInv /\ [QueriesNext]_queryVars => QueriesInv'
<1> SUFFICES ASSUME QueriesInv, [QueriesNext]_queryVars PROVE QueriesInv'
  OBVIOUS
<1> USE DEF QueriesInv
<1>1. CacheShape'
  BY CacheShapeStep
<1>2. VisitsInv' /\ LinkInv' /\ ChangesInv'
  BY VisitsStep, LinkStep, ChangesInvStep
<1>3. RowsInv'
  BY RowsStep
<1>4. SeatsInv' /\ PresenceInv'
  BY PresenceStep
<1> QED BY <1>1, <1>2, <1>3, <1>4

LEMMA QueriesInvariance == QueriesSpec => []QueriesInv
BY QueriesInitially, QueriesInvStep, PTL DEF QueriesSpec

\* Where nothing is due a view of the rows is right.
LEMMA StillIsRight ==
  ASSUME QueriesInv, NEW v \in ReadViews, Still(v), ~missed[v] PROVE held[v] = Shown[v]
<1>1. ~Resyncs /\ Under = {} /\ \A m \in Ids : ~Settling(m)
  BY DEF Still, Resyncs, Under, Settling, ReadViews
<1>2. Fresh(v, held[v])
  BY DEF QueriesInv, RowsInv, RowsOf, Still
<1> QED BY <1>1, <1>2 DEF Fresh, Due, Told

\* Whatever marks overlapped, failed or had their refetches cancelled, a tracker at rest
\* shows the server's cells, unless a frame of somebody else's write was dropped or a refetch
\* failed (useToggleTrackerIssue, optimisticMark, invalidateReadState).
THEOREM TrackerAtRest == QueriesSpec => []TrackerConverges
<1>1. QueriesInv => TrackerConverges
  BY StillIsRight DEF TrackerConverges, Shown, ReadViews
<1> QED BY <1>1, QueriesInvariance, PTL

\* At rest the pages show what is stored: a reconnect refreshes them, and a mutation what it
\* wrote (useServerEvents, useMarkBook, useEditBook).
THEOREM PagesAtRest == QueriesSpec => []DetailConverges
<1>1. QueriesInv => DetailConverges
  BY StillIsRight DEF DetailConverges, Shown, ReadViews
<1> QED BY <1>1, QueriesInvariance, PTL

\* At rest the presence strip shows every member's last call, unless its frame was dropped or
\* overtaken (usePresence, onPresence, Tracker.Touch).
THEOREM StripAtRest == QueriesSpec => []PresenceConverges
<1>1. QueriesInv => PresenceConverges
  <2> SUFFICES ASSUME QueriesInv, Still("presence"), ~missed["presence"]
               PROVE  held["presence"] = seat
    BY DEF PresenceConverges
  <2>1. ~Resyncs /\ Under = {} /\ notes = {} /\ ~stale
    BY DEF Still, Resyncs, Under, QueriesInv, VisitsInv
  <2>2. \A w \in Members : held["presence"][w] = seat[w]
    BY <2>1 DEF QueriesInv, PresenceInv, Still, Coming
  <2> QED BY <2>2 DEF QueriesInv, SeatsInv, Snapshots
<1> QED BY <1>1, QueriesInvariance, PTL
=============================================================================
