---------------------------- MODULE ClientSession ----------------------------
(***************************************************************************)
(* A client's sign-in and the server's sessions behind it: the requests of *)
(* api-client (client.ts), which refresh once when they are answered 401;  *)
(* the one token pair they share (client lib/auth.ts); signing in, signing *)
(* out and reloading (App.tsx, Auth.tsx, AccountChip.tsx); and the queries *)
(* of the server's auth service (service/auth/auth.go), which no           *)
(* transaction holds together.                                             *)
(*                                                                         *)
(* A pair is an access token, which expires and is never revoked, and a    *)
(* refresh token, which is a row of the session table until it is spent.   *)
(* The accounts stay, and every server wants a sign-in.                    *)
(***************************************************************************)
EXTENDS Naturals, FiniteSets, Functions

CONSTANTS
  Users,
  Servers,
  Requests,
  MaxPairs,    \* bound of the pairs issued
  MaxClients,  \* bound of the client objects a sign-in or a reload makes
  MaxPw        \* bound of the changes of passwords

Pairs == 1 .. MaxPairs
None == 0  \* no pair: "" in the token store
Clients == 1 .. MaxClients
Gone == 0  \* the client object of a request whose page was reloaded
NoUser == "nobody"
NoServer == "no server"

ASSUME SessionAssumption ==
  /\ MaxPairs \in Nat \ {0} /\ MaxClients \in Nat \ {0} /\ MaxPw \in Nat
  /\ NoUser \notin Users /\ NoServer \notin Servers

VARIABLES
  issued,        \* pairs issued
  home,          \* account -> the server it is an account of
  owner, gen,    \* pair -> its user, and the password of the sign-in it descends from
  sess,          \* pairs whose session is stored
  expired,       \* the access tokens of pairs 1 .. expired have: all live equally long
  pw, changing,  \* user -> its password; users whose sessions are still to be revoked
  stored,        \* tokenStore: the pair in local storage
  user, disconnected, screen,  \* the account shown; the session dropped; App's boot state
  url,           \* the server in local storage, which the next page load connects to
  cur, token,    \* the client object in use, and the pair whose access token it sends
  at,            \* client object -> its server
  card,          \* AuthFlow: the server of its login card, NoServer for the connect card
  attempt,       \* the connection being tried, and whether its card is still there
  req,           \* request -> its state
  login,         \* the sign-in under way
  leaving,       \* the pair being signed out
  adrift,        \* history: pairs whose answer was lost or overwritten, or whose sign-out failed
  early,         \* history: pairs of a sign-in or a refresh that a revocation overtook
  away,          \* history: signed out with no refresh under way, and not in again
  crossed        \* history: a refresh of an earlier client object has been stored

sessions == <<issued, owner, gen, sess>>
server == <<home, sessions, expired, pw, changing>>
shown == <<user, disconnected, screen>>
flow == <<card, attempt>>
object == <<cur, token, at>>
client == <<stored, url, shown, flow, object>>
history == <<adrift, early, away, crossed>>
vars == <<server, client, req, login, leaving, history>>

Stages == {"idle", "sent", "refresh", "found", "deleted", "answered", "refused"}
NoRequest == [stage |-> "idle", by |-> Gone, pair |-> None, got |-> None,
              retried |-> FALSE, boot |-> FALSE, early |-> FALSE]
NoLogin == [stage |-> "none", user |-> NoUser, gen |-> 0, got |-> None, early |-> FALSE]
NoAttempt == [to |-> NoServer, mounted |-> FALSE]
Staying == [pair |-> None, by |-> Gone]  \* nobody is being signed out

TypeOK ==
  /\ home \in [Users -> Servers]
  /\ issued \in 0 .. MaxPairs
  /\ owner \in [Pairs -> Users \cup {NoUser}] /\ gen \in [Pairs -> 0 .. MaxPw]
  /\ sess \subseteq 1 .. issued /\ expired \in 0 .. issued
  /\ pw \in [Users -> 0 .. MaxPw] /\ changing \subseteq Users
  /\ stored \in 0 .. issued /\ url \in Servers /\ user \in Users \cup {NoUser}
  /\ disconnected \in BOOLEAN /\ screen \in {"starting", "auth", "ready"}
  /\ cur \in Clients /\ token \in 0 .. issued /\ at \in [Clients -> Servers]
  /\ card \in Servers \cup {NoServer}
  /\ attempt \in [to : Servers \cup {NoServer}, mounted : BOOLEAN]
  /\ req \in [Requests -> [stage : Stages, by : Clients \cup {Gone}, pair : 0 .. issued,
                           got : 0 .. issued, retried : BOOLEAN, boot : BOOLEAN, early : BOOLEAN]]
  /\ login \in [stage : {"none", "verified", "issued"}, user : Users \cup {NoUser},
                gen : 0 .. MaxPw, got : 0 .. issued, early : BOOLEAN]
  /\ leaving \in [pair : 0 .. issued, by : Clients \cup {Gone}]
  /\ adrift \subseteq 1 .. issued /\ early \subseteq 1 .. issued
  /\ away \in BOOLEAN /\ crossed \in BOOLEAN

\* Somebody has signed in.
Init ==
  \E u \in Users :
    /\ home \in [Users -> Servers]
    /\ issued = 1
    /\ owner = [p \in Pairs |-> IF p = 1 THEN u ELSE NoUser] /\ gen = [p \in Pairs |-> 0]
    /\ sess = {1} /\ expired = 0
    /\ pw = [v \in Users |-> 0] /\ changing = {}
    /\ stored = 1 /\ url = home[u] /\ user = u /\ disconnected = FALSE /\ screen = "ready"
    /\ cur = 1 /\ token = 1 /\ at = [c \in Clients |-> home[u]]
    /\ card = home[u] /\ attempt = NoAttempt
    /\ req = [r \in Requests |-> NoRequest]
    /\ login = NoLogin
    /\ leaving = Staying
    /\ adrift = {} /\ early = {}
    /\ away = FALSE /\ crossed = FALSE

AppShown == screen = "ready" /\ ~disconnected
LoginShown == screen = "auth" \/ (screen = "ready" /\ disconnected)
Refreshing(r) == req[r].stage \in {"refresh", "found", "deleted", "answered"}

\* What is shown changes. AuthFlow is mounted anew whenever it is shown, at the login card
\* of the client object's server; an attempt to connect outlives the card it was begun at.
Render ==
  IF LoginShown /\ LoginShown' THEN UNCHANGED flow
  ELSE card' = at'[cur'] /\ attempt' = [attempt EXCEPT !.mounted = FALSE]

-----------------------------------------------------------------------------
(* The servers.                                                            *)

\* issue: a pair for user u.
issue(u, g) ==
  /\ issued < MaxPairs
  /\ issued' = issued + 1
  /\ owner' = [owner EXCEPT ![issued + 1] = u]
  /\ gen' = [gen EXCEPT ![issued + 1] = g]
  /\ sess' = sess \cup {issued + 1}

Refresh(r, p) == [req[r] EXCEPT !.stage = "refresh", !.pair = p]

\* History: the sessions of these pairs are nobody's from now on.
Lose(ps) == adrift' = adrift \cup (ps \cap sess)

\* Pair p was issued by the server of client object c.
IssuedAt(p, c) == home[owner[p]] = at[c]

\* Refresh reads the session of the token, which may be spent, revoked or another server's.
RefreshReads(r) ==
  LET p == req[r].pair IN
  /\ req[r].stage = "refresh"
  /\ req' = [req EXCEPT ![r] =
               [@ EXCEPT !.stage = IF p \in sess /\ IssuedAt(p, req[r].by) THEN "found" ELSE "refused",
                         !.early = p \in early]]
  /\ UNCHANGED <<server, client, login, leaving, history>>

KeepSpent(r) ==  \* mutation: the spent session is not deleted
  /\ req[r].stage = "found"
  /\ req' = [req EXCEPT ![r].stage = "deleted"]
  /\ UNCHANGED <<server, client, login, leaving, history>>

\* The session is deleted, whether or not it still is there.
RefreshDeletes(r) ==
  /\ req[r].stage = "found"
  /\ sess' = sess \ {req[r].pair}
  /\ adrift' = adrift \ {req[r].pair} /\ early' = early \ {req[r].pair}
  /\ req' = [req EXCEPT ![r].stage = "deleted"]
  /\ UNCHANGED <<home, issued, owner, gen, expired, pw, changing, client, login, leaving, away,
                 crossed>>

RefreshIssues(r) ==
  LET p == req[r].pair IN
  /\ req[r].stage = "deleted"
  /\ issue(owner[p], gen[p])
  /\ req' = [req EXCEPT ![r] = [@ EXCEPT !.stage = "answered", !.got = issued + 1]]
  /\ early' = IF req[r].early THEN early \cup {issued + 1} ELSE early
  /\ UNCHANGED <<home, expired, pw, changing, client, login, leaving, adrift, away, crossed>>

\* The session has lapsed, a query fails, or the answer does not reach the client.
RefreshLost(r) ==
  /\ Refreshing(r)
  /\ req' = [req EXCEPT ![r] = [@ EXCEPT !.stage = "refused", !.got = None]]
  /\ Lose({req[r].pair, req[r].got})
  /\ UNCHANGED <<server, client, login, leaving, early, away, crossed>>

\* The login card is shown, and no sign-in is under way: one at a time.
CanSignIn == LoginShown /\ login.stage = "none" /\ cur < MaxClients

\* submit, and the server's Login: the password is verified, then a pair is issued.
LoginVerifies(u) ==
  /\ CanSignIn /\ card = home[u]
  /\ login' = [NoLogin EXCEPT !.stage = "verified", !.user = u, !.gen = pw[u]]
  /\ UNCHANGED <<server, client, req, leaving, history>>

LoginIssues ==
  /\ login.stage = "verified"
  /\ issue(login.user, login.gen)
  /\ login' = [login EXCEPT !.stage = "issued", !.got = issued + 1]
  /\ early' = IF login.early THEN early \cup {issued + 1} ELSE early
  /\ UNCHANGED <<home, expired, pw, changing, client, req, leaving, adrift, away, crossed>>

\* SetUserPassword: the hash is set, then the user's sessions are deleted.
SetUserPassword(u) ==
  /\ SumFunction(pw) < MaxPw
  /\ pw' = [pw EXCEPT ![u] = @ + 1]
  /\ changing' = changing \cup {u}
  /\ UNCHANGED <<home, sessions, expired, client, req, login, leaving, history>>

ForgetRevoke(u) ==  \* mutation: only the hash is set
  /\ u \in changing
  /\ changing' = changing \ {u}
  /\ UNCHANGED <<home, sessions, expired, pw, client, req, login, leaving, history>>

DeleteForUser(u) ==
  /\ u \in changing
  /\ changing' = changing \ {u}
  /\ sess' = {p \in sess : owner[p] # u}
  /\ login' = IF login.user = u THEN [login EXCEPT !.early = TRUE] ELSE login
  /\ req' = [r \in Requests |->
               IF req[r].stage \in {"found", "deleted"} /\ owner[req[r].pair] = u
               THEN [req[r] EXCEPT !.early = TRUE] ELSE req[r]]
  /\ adrift' = adrift \cap sess' /\ early' = early \cap sess'
  /\ UNCHANGED <<home, issued, owner, gen, expired, pw, client, leaving, away, crossed>>

ExpireAccess ==
  /\ expired < issued
  /\ expired' = expired + 1
  /\ UNCHANGED <<home, sessions, pw, changing, client, req, login, leaving, history>>

-----------------------------------------------------------------------------
(* The requests of a client object.                                        *)

Send(r) ==
  /\ AppShown /\ req[r].stage = "idle"
  /\ req' = [req EXCEPT ![r] = [NoRequest EXCEPT !.stage = "sent", !.by = cur, !.pair = token]]
  /\ UNCHANGED <<server, client, login, leaving, history>>

\* Authenticate: the access token is good, at the server that issued it.
Valid(r) == req[r].pair > expired /\ IssuedAt(req[r].pair, req[r].by)

\* The request is answered; the handshake of a page load brings up the app.
Served(r) ==
  /\ req[r].stage = "sent" /\ Valid(r)
  /\ req' = [req EXCEPT ![r] = NoRequest]
  /\ IF req[r].boot
     THEN user' = owner[req[r].pair] /\ disconnected' = FALSE /\ screen' = "ready"
     ELSE UNCHANGED shown
  /\ UNCHANGED <<server, stored, url, object, login, leaving, history>>
  /\ Render

\* The request fails for good.
Fail(r) ==
  /\ req' = [req EXCEPT ![r] = NoRequest]
  /\ screen' = IF req[r].boot THEN "auth" ELSE screen

RefreshOwnToken(r) ==  \* mutation: the client object's own pair is refreshed
  LET held == IF req[r].by = cur THEN token ELSE None IN
  /\ req[r].stage = "sent" /\ ~Valid(r)
  /\ IF req[r].retried \/ held = None
     THEN Fail(r)
     ELSE req' = [req EXCEPT ![r] = Refresh(r, held)] /\ UNCHANGED screen
  /\ UNCHANGED <<server, stored, url, user, disconnected, object, login, leaving, history>>
  /\ Render

\* 401: the pair in the store is refreshed, once for each request.
Unauthorized(r) ==
  /\ req[r].stage = "sent" /\ ~Valid(r)
  /\ IF req[r].retried \/ stored = None
     THEN Fail(r)
     ELSE req' = [req EXCEPT ![r] = Refresh(r, stored)] /\ UNCHANGED screen
  /\ UNCHANGED <<server, stored, url, user, disconnected, object, login, leaving, history>>
  /\ Render

\* The refresh is answered: the pair is stored for all, and the request sent again.
Refreshed(r) ==
  /\ req[r].stage = "answered"
  /\ stored' = req[r].got
  /\ user' = owner[req[r].got] /\ disconnected' = FALSE
  /\ token' = IF req[r].by = cur THEN req[r].got ELSE token
  /\ req' = [req EXCEPT ![r] = [@ EXCEPT !.stage = "sent", !.pair = req[r].got, !.got = None,
                                         !.retried = TRUE, !.early = FALSE]]
  /\ Lose({stored} \ {req[r].pair})
  /\ crossed' = (crossed \/ req[r].by # cur)
  /\ UNCHANGED <<server, url, screen, cur, at, login, leaving, early, away>>
  /\ Render

\* The refresh is refused, or failed: the pair in the store is dropped, whichever it is.
RefreshFails(r) ==
  /\ req[r].stage = "refused"
  /\ stored' = None /\ disconnected' = TRUE
  /\ Fail(r)
  /\ Lose({stored, req[r].pair})
  /\ UNCHANGED <<server, url, user, object, login, leaving, early, away, crossed>>
  /\ Render

-----------------------------------------------------------------------------
(* AuthFlow: connecting to a server, and signing in; signing out; reloading. *)

\* "Use a different server".
Back ==
  /\ LoginShown /\ card # NoServer /\ cur < MaxClients
  /\ card' = NoServer
  /\ UNCHANGED <<server, stored, url, shown, attempt, object, req, login, leaving, history>>

\* The connect card is shown, and no server is being tried: one at a time.
CanConnect == LoginShown /\ card = NoServer /\ attempt = NoAttempt /\ cur < MaxClients

\* Another server is tried; one with no account would lead no further.
establish(s) ==
  /\ CanConnect
  /\ s # at[cur] /\ \E u \in Users : home[u] = s
  /\ attempt' = [to |-> s, mounted |-> TRUE]
  /\ UNCHANGED <<server, stored, url, shown, card, object, req, login, leaving, history>>

\* The server is there, and is remembered; its handshake leads to the login card, or fails.
Connected ==
  /\ attempt # NoAttempt
  /\ url' = attempt.to
  /\ card' \in {card, IF attempt.mounted THEN attempt.to ELSE card}
  /\ attempt' = NoAttempt
  /\ UNCHANGED <<server, stored, shown, object, req, login, leaving, history>>

ConnectFails ==
  /\ attempt # NoAttempt
  /\ attempt' = NoAttempt
  /\ UNCHANGED <<server, stored, url, shown, card, object, req, login, leaving, history>>

NewClient(p, s) == cur' = cur + 1 /\ token' = p /\ at' = [at EXCEPT ![cur + 1] = s]

KeepClient ==  \* mutation: the pair is stored, but the client object in use stays
  /\ login.stage = "issued"
  /\ stored' = login.got /\ url' = home[login.user]
  /\ user' = login.user /\ disconnected' = FALSE /\ screen' = "ready"
  /\ login' = NoLogin
  /\ away' = FALSE /\ crossed' = FALSE
  /\ Lose({stored})
  /\ UNCHANGED <<server, object, req, leaving, early>>
  /\ Render

\* submit, once the sign-in is answered: whichever card is shown by then, or the app.
SignedIn ==
  /\ login.stage = "issued"
  /\ stored' = login.got /\ url' = home[login.user]
  /\ user' = login.user /\ disconnected' = FALSE /\ screen' = "ready"
  /\ NewClient(login.got, home[login.user])
  /\ login' = NoLogin
  /\ away' = FALSE /\ crossed' = FALSE
  /\ Lose({stored})
  /\ UNCHANGED <<server, req, leaving, early>>
  /\ Render

\* The sign-in fails, or its answer is lost.
LoginFails ==
  /\ login.stage # "none"
  /\ login' = NoLogin
  /\ Lose({login.got})
  /\ UNCHANGED <<server, client, req, leaving, early, away, crossed>>

\* The account chip offers to sign out.
ChipShown == AppShown /\ user # NoUser /\ stored # None

\* signOut, to its logout request.
SignOut ==
  /\ ChipShown /\ leaving = Staying
  /\ stored' = None
  /\ leaving' = [pair |-> stored, by |-> cur]
  /\ away' = (login.stage = "none" /\ \A r \in Requests : ~Refreshing(r))
  /\ UNCHANGED <<server, url, shown, flow, object, req, login, adrift, early, crossed>>

\* The logout request is answered, or fails: either way the login screen is shown.
SignedOut ==
  LET p == leaving.pair IN
  /\ leaving # Staying
  /\ \/ IssuedAt(p, leaving.by) /\ sess' = sess \ {p} /\ adrift' = adrift \ {p}
     \/ Lose({p}) /\ UNCHANGED sess
  /\ leaving' = Staying /\ disconnected' = TRUE
  /\ UNCHANGED <<home, issued, owner, gen, expired, pw, changing, stored, url, user, screen,
                 object, req, login, early, away, crossed>>
  /\ Render

\* The page is loaded anew: what was under way is forgotten, and the handshake sent to the
\* server that is remembered.
Reload(r) ==
  /\ cur < MaxClients
  /\ NewClient(stored, url)
  /\ user' = NoUser /\ disconnected' = FALSE /\ screen' = "starting"
  /\ card' = url /\ attempt' = NoAttempt
  /\ req' = [x \in Requests |->
               IF x = r THEN [NoRequest EXCEPT !.stage = "sent", !.by = cur + 1, !.pair = stored,
                                               !.boot = TRUE]
               ELSE NoRequest]
  /\ login' = NoLogin /\ leaving' = Staying
  /\ Lose({leaving.pair, login.got} \cup {req[x].got : x \in Requests}
            \cup {req[x].pair : x \in {y \in Requests : Refreshing(y)}})
  /\ UNCHANGED <<server, stored, url, early, away, crossed>>

\* The server that is remembered cannot be reached: another may be chosen.
Unreachable(r) ==
  /\ req[r].boot /\ req[r].stage = "sent" /\ ~req[r].retried
  /\ req' = [req EXCEPT ![r] = NoRequest]
  /\ screen' = "auth" /\ card' = NoServer
  /\ UNCHANGED <<server, stored, url, user, disconnected, attempt, object, login, leaving,
                 history>>

Step(r) ==
  \/ Served(r) \/ Unauthorized(r) \/ Unreachable(r)
  \/ RefreshReads(r) \/ RefreshDeletes(r) \/ RefreshIssues(r) \/ RefreshLost(r)
  \/ Refreshed(r) \/ RefreshFails(r)

AuthFlow ==
  \/ Back \/ Connected \/ ConnectFails \/ \E s \in Servers : establish(s)
  \/ LoginIssues \/ SignedIn \/ LoginFails \/ \E u \in Users : LoginVerifies(u)

Next ==
  \/ AuthFlow
  \/ \E r \in Requests : Send(r) \/ Step(r) \/ Reload(r)
  \/ \E u \in Users : SetUserPassword(u) \/ DeleteForUser(u)
  \/ SignOut \/ SignedOut \/ ExpireAccess

Spec == Init /\ [][Next]_vars
-----------------------------------------------------------------------------
\* Every session the servers keep is the stored pair's, or that of an answer on its way,
\* unless its answer was lost or overwritten, or signing it out failed.
SessionsAreHeld ==
  sess \subseteq adrift \cup {stored, leaving.pair, login.got} \cup {req[r].got : r \in Requests}

\* Once a change of a user's password has revoked the sessions, none of the old password's
\* is left, but those a sign-in or a refresh under way at that moment stored afterwards.
RevocationHolds ==
  \A p \in sess : gen[p] < pw[owner[p]] => owner[p] \in changing \/ p \in early

\* A user who signed out with no refresh under way stays signed out until the next sign-in.
SignOutHolds == away => stored = None

\* The app shows the account its requests act for, and sends them to that account's server,
\* but after a refresh of an earlier client object came in.
ActsAsShown ==
  AppShown /\ token # None /\ ~crossed => owner[token] = user /\ IssuedAt(token, cur)

\* "so an old refresh token can't outlive the change" (service/auth/auth.go:241)
NoOldSession == \A p \in sess : gen[p] < pw[owner[p]] => owner[p] \in changing

\* "A remembered remote server wins" (App.tsx:40): the pair in local storage is of the
\* server that is remembered beside it.
RememberedTogether == stored # None => url = home[owner[stored]]
=============================================================================
