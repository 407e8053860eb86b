------------------------------- MODULE SignIn -------------------------------
(***************************************************************************)
(* Signing in (auth_security.py, auth.py, sso.py): by password, behind a   *)
(* limiter each process keeps in its memory, and through the identity      *)
(* provider, whose signing keys each process caches.  A request may wait,  *)
(* for the database or the provider, after every step named here; what     *)
(* comes between two waits nothing interrupts.                             *)
(***************************************************************************)
EXTENDS Integers, Sequences, FiniteSets

CONSTANTS
  Process,      \* replicas of the shop
  Request,      \* requests that may be under way at one time
  Source,       \* client addresses
  Browser,
  Person,       \* e-mail addresses
  Name,         \* user names, as passwords are typed for and providers display
  NoUser,
  Accounts,     \* the users there are at first
  Budgets,      \* bounds: attempts, logins, rotations, accidents and ticks to come
  MaxAttempts,  \* MAX_LOGIN_ATTEMPTS
  LoginWindow,  \* LOGIN_WINDOW_SECONDS
  PkceTTL,      \* _PKCE_TTL_SECONDS
  JwksTTL,      \* _JWKS_TTL_SECONDS
  Timeout,      \* of the calls to the provider
  Keep          \* how many keys the provider publishes

User == [name: Name, person: Person, how: {"password", "sso"}]

Allowance == [attempts: Nat, logins: Nat, rotations: Nat, accidents: Nat, ticks: Nat]

Unique(us) == \A u, v \in us : u.name = v.name \/ u.person = v.person => u = v

ASSUME SignInAssumption ==
  /\ IsFiniteSet(Request)
  /\ Accounts \subseteq User /\ Unique(Accounts) /\ NoUser \notin User
  /\ Budgets \subseteq Allowance
  /\ MaxAttempts \in Nat \ {0} /\ LoginWindow \in Nat /\ PkceTTL \in Nat
  /\ JwksTTL \in Nat /\ Timeout \in Nat /\ 2 * Timeout < JwksTTL
  /\ Keep \in Nat \ {0}

VARIABLES
  now,
  users,      \* the committed rows
  attempts,   \* _login_attempts: a deque of times, per process and address
  jwks,       \* _JWKS_CACHE: a document and when it was stored, per process
  req,        \* what each request is doing
  idp,        \* the provider's published keys, the signing one first
  rotatedAt,  \* when they last changed
  logins,     \* the logins begun: by which browser, by whom, whether redeemed
  browser,    \* its PKCE cookie and its session
  wrong,      \* history: when wrong passwords were compared, since the last right one
  left        \* what may still happen

vars == <<now, users, attempts, jwks, req, idp, rotatedAt, logins, browser, wrong, left>>

provider == <<idp, rotatedAt>>

Idle     == [step |-> "idle", since |-> 0]
NoJwks   == [held |-> FALSE, at |-> 0, doc |-> <<>>]
NoCookie == [login |-> 0, at |-> 0]

\* The provider's keys have been what they are for long.
Init ==
  /\ now = 0 /\ users = Accounts
  /\ attempts = [p \in Process |-> [s \in Source |-> <<>>]]
  /\ wrong = [p \in Process |-> [s \in Source |-> <<>>]]
  /\ jwks = [p \in Process |-> NoJwks]
  /\ req = [r \in Request |-> Idle]
  /\ idp = <<1>> /\ rotatedAt = -(JwksTTL + Timeout)
  /\ logins = <<>>
  /\ browser = [b \in Browser |-> [cookie |-> NoCookie, session |-> NoUser, login |-> 0]]
  /\ left \in Budgets
----------------------------------------------------------------------------
Free(r)     == req[r].step \in {"idle", "refused"}
At(r, step) == req[r].step = step
Goes(r, q)  == req' = [req EXCEPT ![r] = q]
Spend(what) == left[what] > 0 /\ left' = [left EXCEPT ![what] = @ - 1]

\* A unique key that another request's uncommitted row holds keeps an INSERT waiting.
Clash(u, v)  == u.name = v.name \/ u.person = v.person
Taken(u)     == \E v \in users : Clash(u, v)
InDoubt(r, u) == \E q \in Request \ {r} : At(q, "inserted") /\ Clash(u, req[q].row)

\* An admin creates a user (BackOffice): one INSERT, refused if a key is taken.
CreateUser(u) ==
  /\ u.how = "password" /\ Spend("accidents")
  /\ ~Taken(u) /\ \A q \in Request : At(q, "inserted") => ~Clash(u, req[q].row)
  /\ users' = users \cup {u}
  /\ UNCHANGED <<now, attempts, jwks, req, provider, logins, browser, wrong>>
----------------------------------------------------------------------------
\* By password

\* login_rate_limited: the attempts of before the window, from the left.
Lapsed(q, k) ==
  /\ \A i \in 1 .. k : now - q[i] > LoginWindow
  /\ k < Len(q) => now - q[k + 1] <= LoginWindow

Attempt_OffByOne(r, p, s, n) ==
  /\ Free(r) /\ Spend("attempts")
  /\ LET q == attempts[p][s] IN \E k \in 0 .. Len(q) :
       /\ Lapsed(q, k)
       /\ attempts' = [attempts EXCEPT ![p][s] = SubSeq(q, k + 1, Len(q))]
       /\ IF Len(q) - k > MaxAttempts THEN UNCHANGED req
          ELSE Goes(r, [step |-> "lookup", since |-> 0, proc |-> p, from |-> s, name |-> n])
  /\ UNCHANGED <<now, users, jwks, provider, logins, browser, wrong>>

\* They are dropped, and if too many are left the request is turned away.
Attempt(r, p, s, n) ==
  /\ Free(r) /\ Spend("attempts")
  /\ LET q == attempts[p][s] IN \E k \in 0 .. Len(q) :
       /\ Lapsed(q, k)
       /\ attempts' = [attempts EXCEPT ![p][s] = SubSeq(q, k + 1, Len(q))]
       /\ IF Len(q) - k >= MaxAttempts THEN UNCHANGED req
          ELSE Goes(r, [step |-> "lookup", since |-> 0, proc |-> p, from |-> s, name |-> n])
  /\ UNCHANGED <<now, users, jwks, provider, logins, browser, wrong>>

Count(r, f, q) == [f EXCEPT ![req[r].proc][req[r].from] = q]
Counted(r, f)  == f[req[r].proc][req[r].from]

\* No such user, or not this password: the attempt is counted.
Deny(r) ==
  /\ At(r, "lookup")
  /\ \A u \in users : u.name = req[r].name => u.how = "password"
  /\ attempts' = Count(r, attempts, Append(Counted(r, attempts), now))
  /\ wrong' = Count(r, wrong, Append(Counted(r, wrong), now))
  /\ Goes(r, Idle)
  /\ UNCHANGED <<now, users, jwks, provider, logins, browser, left>>

\* The password of a user of the provider's is no hash: bcrypt raises, and
\* nothing is counted.
Raise(r) ==
  /\ At(r, "lookup")
  /\ \E u \in users : u.name = req[r].name /\ u.how = "sso"
  /\ Goes(r, Idle)
  /\ UNCHANGED <<now, users, attempts, jwks, provider, logins, browser, wrong, left>>

Accept(r) ==
  /\ At(r, "lookup")
  /\ \E u \in users : u.name = req[r].name /\ u.how = "password"
  /\ Goes(r, [req[r] EXCEPT !.step = "stamp"])
  /\ UNCHANGED <<now, users, attempts, jwks, provider, logins, browser, wrong, left>>

\* last_login and the audit entry are committed, and the address starts afresh.
Stamp(r) ==
  /\ At(r, "stamp")
  /\ attempts' = Count(r, attempts, <<>>)
  /\ wrong' = Count(r, wrong, <<>>)
  /\ Goes(r, Idle)
  /\ UNCHANGED <<now, users, jwks, provider, logins, browser, left>>
----------------------------------------------------------------------------
\* Through the provider

\* sso_login: the cookie of the browser's last login replaces that of the one before.
\* Who then signs in at the provider is up to the browser's user.
SsoLogin(b, e) ==
  /\ Spend("logins")
  /\ logins' = Append(logins, [browser |-> b, person |-> e, redeemed |-> FALSE])
  /\ browser' = [browser EXCEPT ![b].cookie = [login |-> Len(logins'), at |-> now]]
  /\ UNCHANGED <<now, users, attempts, jwks, req, provider, wrong>>

\* The shop signs the cookie, so it is the one it has set.
CookieOf(l) == browser[logins[l].browser].cookie

\* The provider sends the browser back, once or again.  Without the cookie, or
\* with that of another login or of long ago, nothing comes of it.
Callback(r, p, l) ==
  /\ Free(r)
  /\ CookieOf(l).login = l /\ now - CookieOf(l).at <= PkceTTL
  /\ Goes(r, [step |-> "exchange", since |-> now, proc |-> p, login |-> l])
  /\ UNCHANGED <<now, users, attempts, jwks, provider, logins, browser, wrong, left>>

\* The provider (external) redeems a code once, for a token signed with its
\* present key that says who it is and what they are called.
Exchange(r, n) ==
  LET l == req[r].login IN
  /\ At(r, "exchange") /\ ~logins[l].redeemed
  /\ logins' = [logins EXCEPT ![l].redeemed = TRUE]
  /\ Goes(r, [step |-> "signed", since |-> req[r].since, proc |-> req[r].proc, login |-> l,
              name |-> n, key |-> Head(idp)])
  /\ UNCHANGED <<now, users, attempts, jwks, provider, browser, wrong, left>>

Published(doc) == {doc[i] : i \in 1 .. Len(doc)}

\* _select_key and jwt.decode: a key that is not in the document is replaced by
\* its first, which does not fit; only a document without keys is fetched again.
Judged(q, doc) ==
  IF q.key \in Published(doc)
  THEN [step |-> "find", since |-> 0, proc |-> q.proc, login |-> q.login, name |-> q.name]
  ELSE IF doc # <<>> THEN [step |-> "refused", since |-> now]
  ELSE IF q.step = "fetched" /\ q.forced THEN Idle
  ELSE [step |-> "fetch", since |-> now, proc |-> q.proc, login |-> q.login,
        name |-> q.name, key |-> q.key, forced |-> TRUE]

Verify_AnyAge(r) ==
  LET q == req[r] c == jwks[q.proc] IN
  /\ At(r, "signed")
  /\ Goes(r, IF c.held THEN Judged(q, c.doc)
             ELSE [step |-> "fetch", since |-> now, proc |-> q.proc, login |-> q.login,
                   name |-> q.name, key |-> q.key, forced |-> FALSE])
  /\ UNCHANGED <<now, users, attempts, jwks, provider, logins, browser, wrong, left>>

\* _fetch_jwks: the document of the cache if it is young enough.
Verify(r) ==
  LET q == req[r] c == jwks[q.proc] IN
  /\ At(r, "signed")
  /\ Goes(r, IF c.held /\ now - c.at < JwksTTL THEN Judged(q, c.doc)
             ELSE [step |-> "fetch", since |-> now, proc |-> q.proc, login |-> q.login,
                   name |-> q.name, key |-> q.key, forced |-> FALSE])
  /\ UNCHANGED <<now, users, attempts, jwks, provider, logins, browser, wrong, left>>

\* The provider answers with its keys, or with a document that has none.
Answer(r) ==
  LET q == req[r] IN
  /\ At(r, "fetch")
  /\ \E doc \in {idp, <<>>} :
       Goes(r, [step |-> "fetched", since |-> q.since, proc |-> q.proc, login |-> q.login,
                name |-> q.name, key |-> q.key, forced |-> q.forced, doc |-> doc])
  /\ UNCHANGED <<now, users, attempts, jwks, provider, logins, browser, wrong, left>>

Store(r) ==
  LET q == req[r] IN
  /\ At(r, "fetched")
  /\ jwks' = [jwks EXCEPT ![q.proc] = [held |-> TRUE, at |-> now, doc |-> q.doc]]
  /\ Goes(r, Judged(q, q.doc))
  /\ UNCHANGED <<now, users, attempts, provider, logins, browser, wrong, left>>

Find_ByName(r) ==
  LET q == req[r] same == {u \in users : u.name = q.name} IN
  /\ At(r, "find")
  /\ \E u \in IF same = {} THEN {NoUser} ELSE same :
       Goes(r, [step |-> IF u = NoUser THEN "insert" ELSE "found", since |-> 0,
                login |-> q.login, proc |-> q.proc, name |-> q.name, row |-> u])
  /\ UNCHANGED <<now, users, attempts, jwks, provider, logins, browser, wrong, left>>

\* _upsert_sso_user looks for the e-mail address.
Find(r) ==
  LET q == req[r] same == {u \in users : u.person = logins[q.login].person} IN
  /\ At(r, "find")
  /\ \E u \in IF same = {} THEN {NoUser} ELSE same :
       Goes(r, [step |-> IF u = NoUser THEN "insert" ELSE "found", since |-> 0,
                login |-> q.login, proc |-> q.proc, name |-> q.name, row |-> u])
  /\ UNCHANGED <<now, users, attempts, jwks, provider, logins, browser, wrong, left>>

\* A name or an address that is taken ends the request, and nothing catches it.
Insert(r) ==
  LET q == req[r]
      u == [name |-> q.name, person |-> logins[q.login].person, how |-> "sso"] IN
  /\ At(r, "insert") /\ ~InDoubt(r, u)
  /\ Goes(r, IF Taken(u) THEN Idle ELSE [q EXCEPT !.step = "inserted", !.row = u])
  /\ UNCHANGED <<now, users, attempts, jwks, provider, logins, browser, wrong, left>>

\* The row is committed and the browser gets its session for the cookie.
Grant(r) ==
  LET q == req[r] IN
  /\ At(r, "found") \/ At(r, "inserted")
  /\ users' = users \cup {q.row}
  /\ browser' = [browser EXCEPT ![logins[q.login].browser] =
                   [cookie |-> NoCookie, session |-> q.row, login |-> q.login]]
  /\ Goes(r, Idle)
  /\ UNCHANGED <<now, attempts, jwks, provider, logins, wrong, left>>

Logout(b) ==
  /\ Spend("accidents")
  /\ browser' = [browser EXCEPT ![b] =
                   [cookie |-> NoCookie, session |-> NoUser, login |-> 0]]
  /\ UNCHANGED <<now, users, attempts, jwks, req, provider, logins, wrong>>

\* A session is a signed token that says when it ends: from then on it is none.
Expire(b) ==
  /\ Spend("accidents") /\ browser[b].session # NoUser
  /\ browser' = [browser EXCEPT ![b].session = NoUser, ![b].login = 0]
  /\ UNCHANGED <<now, users, attempts, jwks, req, provider, logins, wrong>>
----------------------------------------------------------------------------
\* The provider, time and accidents

Rotate ==
  /\ Spend("rotations")
  /\ LET all == <<idp[1] + 1>> \o idp IN
       idp' = IF Len(all) <= Keep THEN all ELSE SubSeq(all, 1, Keep)
  /\ rotatedAt' = now
  /\ UNCHANGED <<now, users, attempts, jwks, req, logins, browser, wrong>>

\* No call to the provider outlasts its timeout.
Waiting == {"exchange", "signed", "fetch", "fetched"}
Tick ==
  /\ Spend("ticks")
  /\ \A r \in Request : req[r].step \in Waiting => now < req[r].since + Timeout
  /\ now' = now + 1
  /\ UNCHANGED <<users, attempts, jwks, req, provider, logins, browser, wrong>>

\* The provider, the database or the client gives a request up.
Fail(r) ==
  /\ ~Free(r)
  /\ Goes(r, Idle)
  /\ UNCHANGED <<now, users, attempts, jwks, provider, logins, browser, wrong, left>>

\* A process starts anew, and knows nothing.
Restart(p) ==
  /\ Spend("accidents")
  /\ attempts' = [attempts EXCEPT ![p] = [s \in Source |-> <<>>]]
  /\ wrong' = [wrong EXCEPT ![p] = [s \in Source |-> <<>>]]
  /\ jwks' = [jwks EXCEPT ![p] = NoJwks]
  /\ req' = [r \in Request |-> IF ~Free(r) /\ req[r].proc = p THEN Idle ELSE req[r]]
  /\ UNCHANGED <<now, users, provider, logins, browser>>

Next ==
  \/ \E r \in Request :
       \/ \E p \in Process, s \in Source, n \in Name : Attempt(r, p, s, n)
       \/ Deny(r) \/ Raise(r) \/ Accept(r) \/ Stamp(r)
       \/ \E p \in Process, l \in 1 .. Len(logins) : Callback(r, p, l)
       \/ \E n \in Name : Exchange(r, n)
       \/ Verify(r) \/ Answer(r) \/ Store(r)
       \/ Find(r) \/ Insert(r) \/ Grant(r) \/ Fail(r)
  \/ \E b \in Browser : Logout(b) \/ Expire(b) \/ \E e \in Person : SsoLogin(b, e)
  \/ \E u \in User : CreateUser(u)
  \/ \E p \in Process : Restart(p)
  \/ Rotate \/ Tick

Spec == Init /\ [][Next]_vars
----------------------------------------------------------------------------
\* Types.  What a request carries is what its step needs of it: a user who is
\* granted a session is a row, and a key that is checked is one the provider had.
Key == Nat \ {0}

Login == [browser: Browser, person: Person, redeemed: BOOLEAN]

RequestState ==
  [step: {"idle", "refused"}, since: Nat]
    \cup [step: {"lookup", "stamp"}, since: {0}, proc: Process, from: Source, name: Name]
    \cup [step: {"exchange"}, since: Nat, proc: Process, login: Nat]
    \cup [step: {"signed"}, since: Nat, proc: Process, login: Nat, name: Name, key: Key]
    \cup [step: {"fetch"}, since: Nat, proc: Process, login: Nat, name: Name, key: Key,
          forced: BOOLEAN]
    \cup [step: {"fetched"}, since: Nat, proc: Process, login: Nat, name: Name, key: Key,
          forced: BOOLEAN, doc: Seq(Key)]
    \cup [step: {"find"}, since: {0}, proc: Process, login: Nat, name: Name]
    \cup [step: {"insert"}, since: {0}, proc: Process, login: Nat, name: Name, row: {NoUser}]
    \cup [step: {"found", "inserted"}, since: {0}, proc: Process, login: Nat, name: Name,
          row: User]

TypeOK ==
  /\ now \in Nat /\ rotatedAt \in Int
  /\ users \subseteq User
  /\ attempts \in [Process -> [Source -> Seq(Nat)]]
  /\ wrong \in [Process -> [Source -> Seq(Nat)]]
  /\ jwks \in [Process -> [held: BOOLEAN, at: Nat, doc: Seq(Key)]]
  /\ idp \in Seq(Key) /\ Len(idp) \in 1 .. Keep
  /\ logins \in Seq(Login)
  /\ browser \in [Browser -> [cookie: [login: Nat, at: Nat],
                             session: User \cup {NoUser}, login: Nat]]
  /\ req \in [Request -> RequestState]
  /\ left \in Allowance

\* Attempts are checked before the database is asked and counted after: as many
\* as are under way may pass the limit at once, but no more.  In no window does a
\* process compare as many as MaxAttempts and all its requests together.
WindowHolds ==
  \A p \in Process, s \in Source : LET w == wrong[p][s] IN
    \A i, j \in 1 .. Len(w) :
      j - i + 1 >= MaxAttempts + Cardinality(Request) => w[j] - w[i] > LoginWindow

\* A token is refused for its key only for so long after the provider changed its
\* keys as a document may be cached and its fetching may take: the cache is not
\* refreshed when a key is missing, but when its time is up.
RefusedAfterRotation ==
  \A r \in Request : req[r].step = "refused" => req[r].since - rotatedAt < JwksTTL + Timeout

\* A session names the one user with the address of the person who signed in,
\* through a login of that very browser, whatever other tabs and browsers do.
SessionIsOwn ==
  /\ Unique(users)
  /\ \A b \in Browser : LET s == browser[b].session l == browser[b].login IN
       s # NoUser =>
         s \in users /\ logins[l].browser = b /\ logins[l].person = s.person
----------------------------------------------------------------------------
\* What makes a session its browser's own: a request through the provider carries
\* a login that was begun, the row it has found or inserted is that person's, and
\* a row not yet committed clashes with no other.
ByProvider ==
  {"exchange", "signed", "fetch", "fetched", "find", "insert", "found", "inserted"}

Owns(row, l) == row.person = logins[l].person

SessionInv ==
  /\ DOMAIN req = Request /\ DOMAIN browser = Browser /\ logins \in Seq(Login)
  /\ \A r \in Request :
       /\ req[r].step \in ByProvider => req[r].login \in 1 .. Len(logins)
       /\ At(r, "found") => req[r].row \in users /\ Owns(req[r].row, req[r].login)
       /\ At(r, "inserted") => /\ Owns(req[r].row, req[r].login)
                               /\ ~Taken(req[r].row) /\ ~InDoubt(r, req[r].row)
  /\ \A b \in Browser :
       browser[b].session # NoUser => browser[b].login \in 1 .. Len(logins)
  /\ SessionIsOwn

\* What bounds a key's refusal: a token whose key is no longer published, and a
\* document that is no longer the provider's, are older than the last change but
\* for the calls to the provider they have waited for.
Stale(doc) == doc \notin {idp, <<>>}
Gone(key)  == key \notin Published(idp)

KeyFits(q) ==
  /\ q.step \in Waiting =>
       /\ q.proc \in Process /\ q.since \in Nat
       /\ q.since <= now /\ now <= q.since + Timeout
  /\ q.step = "signed" /\ Gone(q.key) => q.since <= rotatedAt
  /\ q.step \in {"fetch", "fetched"} =>
       /\ q.forced \in BOOLEAN
       /\ Gone(q.key) => q.since <= rotatedAt + (IF q.forced THEN 2 * Timeout ELSE Timeout)
  /\ q.step = "fetched" => q.doc \in Seq(Int) /\ (Stale(q.doc) => q.since <= rotatedAt)
  /\ q.step = "refused" => q.since \in Nat /\ q.since - rotatedAt < JwksTTL + Timeout

CacheFits(c) == c.held =>
  c.at <= now /\ (Stale(c.doc) => c.at <= rotatedAt + Timeout)

KeyInv ==
  /\ DOMAIN req = Request
  /\ now \in Nat /\ rotatedAt \in Int /\ rotatedAt <= now
  /\ idp \in Seq(Int) /\ idp # <<>>
  /\ jwks \in [Process -> [held: BOOLEAN, at: Nat, doc: Seq(Int)]]
  /\ \A p \in Process : CacheFits(jwks[p])
  /\ \A r \in Request : KeyFits(req[r])

\* What bounds the overshoot: the deque is the end of the history, whatever was
\* dropped of it has left the window, and the deque and the requests past its
\* check are together no more than the last of them found room for.
Lookups(p, s) == {r \in Request : At(r, "lookup") /\ req[r].proc = p /\ req[r].from = s}

WindowTypes ==
  /\ DOMAIN req = Request /\ now \in Nat
  /\ attempts \in [Process -> [Source -> Seq(Nat)]]
  /\ wrong \in [Process -> [Source -> Seq(Nat)]]
  /\ \A r \in Request : req[r].step \in {"lookup", "stamp"} =>
       req[r].proc \in Process /\ req[r].from \in Source

EndOf(a, w, t) == LET d == Len(w) - Len(a) IN
  /\ d >= 0
  /\ \A i \in 1 .. Len(a) : a[i] = w[d + i]
  /\ \A i \in 1 .. d : t - w[i] > LoginWindow

WindowInv ==
  /\ WindowTypes
  /\ \A p \in Process, s \in Source :
       /\ EndOf(attempts[p][s], wrong[p][s], now)
       /\ Len(attempts[p][s]) + Cardinality(Lookups(p, s))
            <= MaxAttempts - 1 + Cardinality(Request)
  /\ WindowHolds
=============================================================================
