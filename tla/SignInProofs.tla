---------------------------- MODULE SignInProofs ----------------------------
(***************************************************************************)
(* Proofs about SignIn.  Three invariants, apart from one another: whose   *)
(* session a browser has, how long a key is refused, and how far the limit *)
(* of attempts can be overshot.                                            *)
(***************************************************************************)
EXTENDS SignIn, FiniteSetTheorems, SequenceTheorems, TLAPS

----------------------------------------------------------------------------
\* Whose session

\* What _verify_id_token makes of a request keeps its login, or ends it.
LEMMA JudgedShape ==
  ASSUME NEW q, NEW doc
  PROVE  /\ Judged(q, doc).step \in {"find", "refused", "idle", "fetch"}
         /\ Judged(q, doc).step \in {"find", "fetch"} => Judged(q, doc).login = q.login
BY DEF Judged, Idle

\* Two rows that clash do so either way round.
LEMMA ClashSymmetric == \A u, v : Clash(u, v) <=> Clash(v, u)
BY DEF Clash

\* A request that moves on with a login it had, and a row that is its person's and
\* clashes with nothing, keeps the sessions their owners'.
LEMMA RequestMoves ==
  ASSUME SessionInv, NEW r \in Request, NEW q, Goes(r, q), UNCHANGED <<users, browser>>,
         logins' \in Seq(Login), Len(logins') = Len(logins),
         \A l \in 1 .. Len(logins) : /\ logins'[l].browser = logins[l].browser
                                     /\ logins'[l].person = logins[l].person,
         q.step \in ByProvider => q.login \in 1 .. Len(logins),
         q.step = "found" => q.row \in users /\ Owns(q.row, q.login),
         q.step = "inserted" =>
           Owns(q.row, q.login) /\ ~Taken(q.row) /\ ~InDoubt(r, q.row)
  PROVE  SessionInv'
PROOF
  <1>1. /\ req' = [req EXCEPT ![r] = q] /\ DOMAIN req' = Request
        /\ req'[r] = q /\ \A x \in Request \ {r} : req'[x] = req[x]
    BY DEF Goes, SessionInv
  <1>2. \A x \in Request : req'[x].step \in ByProvider => req'[x].login \in 1 .. Len(logins')
    BY <1>1 DEF SessionInv
  <1>3. \A x \in Request : req'[x].step = "found" =>
          req'[x].row \in users /\ req'[x].row.person = logins'[req'[x].login].person
    BY <1>1, <1>2 DEF SessionInv, Owns, At, ByProvider
  <1>4. \A x \in Request : req'[x].step = "inserted" =>
          /\ req'[x].row.person = logins'[req'[x].login].person
          /\ ~ \E v \in users : Clash(req'[x].row, v)
    BY <1>1, <1>2 DEF SessionInv, Owns, At, ByProvider, Taken
  <1>5. ASSUME NEW x \in Request, NEW y \in Request \ {x},
               req'[x].step = "inserted", req'[y].step = "inserted"
        PROVE  ~Clash(req'[x].row, req'[y].row)
    <2>1. CASE x # r /\ y # r
      BY <1>1, <1>5, <2>1 DEF SessionInv, InDoubt, At
    <2>2. CASE x = r
      BY <1>1, <1>5, <2>2 DEF InDoubt, At
    <2>3. CASE y = r
      BY <1>1, <1>5, <2>3, ClashSymmetric DEF InDoubt, At
    <2> QED BY <2>1, <2>2, <2>3
  <1>6. \A b \in Browser :
          browser'[b].session # NoUser =>
            /\ browser'[b].login \in 1 .. Len(logins')
            /\ browser'[b].session \in users
            /\ logins'[browser'[b].login].browser = b
            /\ logins'[browser'[b].login].person = browser'[b].session.person
    BY DEF SessionInv, SessionIsOwn
  <1>7. DOMAIN browser' = Browser /\ Unique(users)' /\ users' = users
    BY DEF SessionInv, SessionIsOwn, Unique
  <1>8. SessionIsOwn'
    BY <1>6, <1>7 DEF SessionIsOwn
  <1>9. \A x \in Request :
          /\ At(x, "found")' => (req[x].row \in users)' /\ Owns(req[x].row, req[x].login)'
          /\ At(x, "inserted")' =>
               /\ Owns(req[x].row, req[x].login)'
               /\ ~Taken(req[x].row)' /\ ~InDoubt(x, req[x].row)'
    BY <1>3, <1>4, <1>5, <1>7 DEF At, Owns, Taken, InDoubt
  <1> QED BY <1>1, <1>2, <1>6, <1>7, <1>8, <1>9 DEF SessionInv

\* The same, when the logins are left alone.
LEMMA RequestMovesOn ==
  ASSUME SessionInv, NEW r \in Request, NEW q, Goes(r, q), UNCHANGED <<users, browser, logins>>,
         q.step \in ByProvider => q.login \in 1 .. Len(logins),
         q.step = "found" => q.row \in users /\ Owns(q.row, q.login),
         q.step = "inserted" =>
           Owns(q.row, q.login) /\ ~Taken(q.row) /\ ~InDoubt(r, q.row)
  PROVE  SessionInv'
PROOF
  <1>1. /\ logins' \in Seq(Login) /\ Len(logins') = Len(logins)
        /\ \A l \in 1 .. Len(logins) : /\ logins'[l].browser = logins[l].browser
                                       /\ logins'[l].person = logins[l].person
    BY DEF SessionInv
  <1> QED BY <1>1, RequestMoves

\* A request that ends, or is none of the provider's, disturbs no session.
LEMMA RequestLeaves ==
  ASSUME SessionInv, NEW r \in Request, NEW q, Goes(r, q), UNCHANGED <<users, browser, logins>>,
         q.step \notin ByProvider
  PROVE  SessionInv'
BY RequestMovesOn DEF ByProvider

\* A row that clashes with none leaves the keys unique.
LEMMA UniqueGrows ==
  ASSUME NEW us, NEW u, Unique(us), \A v \in us : ~Clash(u, v)
  PROVE  Unique(us \cup {u})
BY DEF Unique, Clash

\* The admin's user clashes with nobody's, committed or not.
LEMMA CreateUserKeepsSessions ==
  ASSUME SessionInv, NEW u \in User, CreateUser(u)
  PROVE  SessionInv'
PROOF
  <1>1. /\ UNCHANGED <<req, logins, browser>> /\ users' = users \cup {u}
        /\ \A v \in users : ~Clash(u, v)
        /\ \A q \in Request : req[q].step = "inserted" => ~Clash(u, req[q].row)
    BY DEF CreateUser, Taken, At
  <1>2. Unique(users')
    BY <1>1, UniqueGrows DEF SessionInv, SessionIsOwn
  <1>3. SessionIsOwn'
    BY <1>1, <1>2 DEF SessionInv, SessionIsOwn
  <1>4. \A x \in Request :
          /\ At(x, "found")' => (req[x].row \in users)' /\ Owns(req[x].row, req[x].login)'
          /\ At(x, "inserted")' => Owns(req[x].row, req[x].login)' /\ ~InDoubt(x, req[x].row)'
    BY <1>1 DEF SessionInv, At, Owns, InDoubt
  <1>5. \A x \in Request : At(x, "inserted")' => ~Taken(req[x].row)'
    BY <1>1, ClashSymmetric DEF SessionInv, At, Taken
  <1> QED BY <1>1, <1>3, <1>4, <1>5 DEF SessionInv

\* A login begun leaves those before it what they were.
LEMMA SsoLoginKeepsSessions ==
  ASSUME SessionInv, NEW b \in Browser, NEW e \in Person, SsoLogin(b, e)
  PROVE  SessionInv'
PROOF
  <1> DEFINE new == [browser |-> b, person |-> e, redeemed |-> FALSE]
  <1>1. /\ UNCHANGED <<req, users>> /\ logins' = Append(logins, new)
        /\ logins \in Seq(Login) /\ new \in Login
    BY DEF SsoLogin, SessionInv, Login
  <1>2. /\ logins' \in Seq(Login) /\ Len(logins') = Len(logins) + 1 /\ Len(logins) \in Nat
        /\ \A l \in 1 .. Len(logins) : logins'[l] = logins[l]
    BY <1>1
  <1>3. /\ DOMAIN browser' = Browser
        /\ \A c \in Browser : browser'[c].session = browser[c].session
                              /\ browser'[c].login = browser[c].login
    BY DEF SsoLogin, SessionInv
  <1>4. \A c \in Browser : browser'[c].session # NoUser =>
          /\ browser'[c].login \in 1 .. Len(logins')
          /\ browser'[c].session \in users'
          /\ logins'[browser'[c].login].browser = c
          /\ logins'[browser'[c].login].person = browser'[c].session.person
    BY <1>1, <1>2, <1>3 DEF SessionInv, SessionIsOwn
  <1>5. SessionIsOwn'
    BY <1>1, <1>4 DEF SessionInv, SessionIsOwn
  <1>6. \A x \in Request : req'[x].step \in ByProvider => req'[x].login \in 1 .. Len(logins')
    BY <1>1, <1>2 DEF SessionInv
  <1>7. \A x \in Request :
          /\ At(x, "found")' => (req[x].row \in users)' /\ Owns(req[x].row, req[x].login)'
          /\ At(x, "inserted")' =>
               /\ Owns(req[x].row, req[x].login)'
               /\ ~Taken(req[x].row)' /\ ~InDoubt(x, req[x].row)'
    BY <1>1, <1>2 DEF SessionInv, At, Owns, Taken, InDoubt, ByProvider
  <1> QED BY <1>1, <1>2, <1>3, <1>4, <1>5, <1>6, <1>7 DEF SessionInv

\* A browser without a session has none that could be another's.
LEMMA SessionEnds ==
  ASSUME SessionInv, NEW b \in Browser, NEW w, browser' = [browser EXCEPT ![b] = w],
         w.session = NoUser, UNCHANGED <<req, users, logins>>
  PROVE  SessionInv'
PROOF
  <1>1. /\ DOMAIN browser' = Browser
        /\ \A c \in Browser : browser'[c].session # NoUser => browser'[c] = browser[c]
    BY DEF SessionInv
  <1>2. SessionIsOwn'
    BY <1>1 DEF SessionInv, SessionIsOwn
  <1>3. \A x \in Request :
          /\ At(x, "found")' => (req[x].row \in users)' /\ Owns(req[x].row, req[x].login)'
          /\ At(x, "inserted")' =>
               /\ Owns(req[x].row, req[x].login)'
               /\ ~Taken(req[x].row)' /\ ~InDoubt(x, req[x].row)'
    BY DEF SessionInv, At, Owns, Taken, InDoubt
  <1> QED BY <1>1, <1>2, <1>3 DEF SessionInv

\* The row is committed, and its person's browser gets its session.
LEMMA GrantKeepsSessions ==
  ASSUME SessionInv, NEW r \in Request, Grant(r)
  PROVE  SessionInv'
PROOF
  <1> DEFINE q == req[r]
             own == logins[q.login].browser
  <1>1. /\ q.step \in {"found", "inserted"} /\ q.login \in 1 .. Len(logins)
        /\ users' = users \cup {q.row} /\ UNCHANGED logins
        /\ q.row.person = logins[q.login].person
    BY DEF Grant, At, SessionInv, ByProvider, Owns
  <1>2. /\ DOMAIN req' = Request /\ req'[r].step = "idle"
        /\ \A x \in Request \ {r} : req'[x] = req[x]
    BY DEF Grant, Goes, Idle, SessionInv
  <1>3. \A x \in Request : req'[x].step \in ByProvider => x # r
    BY <1>2 DEF ByProvider
  <1>4. Unique(users')
    <2>1. CASE q.step = "found"
      BY <1>1, <2>1 DEF SessionInv, SessionIsOwn, At
    <2>2. CASE q.step = "inserted"
      BY <1>1, <2>2, UniqueGrows DEF SessionInv, SessionIsOwn, At, Taken
    <2> QED BY <1>1, <2>1, <2>2
  <1>5. \A x \in Request \ {r} : At(x, "inserted") => ~Clash(req[x].row, q.row)
    <2>1. CASE q.step = "found"
      BY <1>1, <2>1 DEF SessionInv, At, Taken
    <2>2. CASE q.step = "inserted"
      BY <1>1, <2>2 DEF SessionInv, At, InDoubt
    <2> QED BY <1>1, <2>1, <2>2
  <1>6. /\ own \in Browser
        /\ browser' = [browser EXCEPT ![own] =
             [cookie |-> NoCookie, session |-> q.row, login |-> q.login]]
    <2>1. logins[q.login] \in Login
      BY <1>1 DEF SessionInv
    <2>2. own \in Browser
      BY <2>1 DEF Login
    <2>3. browser' = [browser EXCEPT ![own] =
             [cookie |-> NoCookie, session |-> q.row, login |-> q.login]]
      BY DEF Grant
    <2> QED BY <2>2, <2>3
  <1>7. /\ DOMAIN browser' = Browser
        /\ browser'[own].session = q.row /\ browser'[own].login = q.login
        /\ \A b \in Browser \ {own} : browser'[b] = browser[b]
    BY <1>6 DEF SessionInv
  <1>8. \A b \in Browser : browser'[b].session # NoUser =>
          /\ browser'[b].login \in 1 .. Len(logins')
          /\ browser'[b].session \in users'
          /\ logins'[browser'[b].login].browser = b
          /\ logins'[browser'[b].login].person = browser'[b].session.person
    BY <1>1, <1>7 DEF SessionInv, SessionIsOwn
  <1>9. SessionIsOwn'
    BY <1>4, <1>8 DEF SessionIsOwn
  <1>10. \A x \in Request : req'[x].step \in ByProvider => req'[x].login \in 1 .. Len(logins')
    BY <1>1, <1>2, <1>3 DEF SessionInv
  <1>11. \A x \in Request :
          /\ At(x, "found")' => (req[x].row \in users)' /\ Owns(req[x].row, req[x].login)'
          /\ At(x, "inserted")' => Owns(req[x].row, req[x].login)' /\ ~InDoubt(x, req[x].row)'
    BY <1>1, <1>2, <1>3 DEF SessionInv, At, Owns, InDoubt, ByProvider
  <1>12. \A x \in Request : At(x, "inserted")' => ~Taken(req[x].row)'
    <2> SUFFICES ASSUME NEW x \in Request, req'[x].step = "inserted", NEW v \in users'
                 PROVE  ~Clash(req'[x].row, v)
      BY DEF At, Taken
    <2>1. /\ x # r /\ req'[x] = req[x] /\ At(x, "inserted")
          /\ v \in users \/ v = q.row
      BY <1>1, <1>2, <1>3 DEF ByProvider, At
    <2>2. \A u \in users : ~Clash(req[x].row, u)
      BY <2>1 DEF SessionInv, Taken
    <2>3. ~Clash(req[x].row, q.row)
      BY <1>5, <2>1
    <2> QED BY <2>1, <2>2, <2>3
  <1>13. logins' \in Seq(Login)
    BY <1>1 DEF SessionInv
  <1> QED BY <1>2, <1>7, <1>8, <1>9, <1>10, <1>11, <1>12, <1>13 DEF SessionInv

\* A restart ends requests, and nothing else the sessions rest on.
LEMMA RestartKeepsSessions ==
  ASSUME SessionInv, NEW p \in Process, Restart(p)
  PROVE  SessionInv'
PROOF
  <1>1. /\ UNCHANGED <<users, logins, browser>> /\ DOMAIN req' = Request
        /\ \A x \in Request : req'[x] = req[x] \/ req'[x].step = "idle"
    BY DEF Restart, Idle, SessionInv
  <1>2. SessionIsOwn'
    BY <1>1 DEF SessionInv, SessionIsOwn
  <1>3. \A x \in Request :
          /\ req'[x].step \in ByProvider => req'[x].login \in 1 .. Len(logins')
          /\ At(x, "found")' => (req[x].row \in users)' /\ Owns(req[x].row, req[x].login)'
    BY <1>1 DEF SessionInv, At, Owns, ByProvider
  <1>4. \A x \in Request : At(x, "inserted")' =>
               /\ Owns(req[x].row, req[x].login)'
               /\ ~Taken(req[x].row)' /\ ~InDoubt(x, req[x].row)'
    BY <1>1 DEF SessionInv, At, Owns, ByProvider, Taken, InDoubt
  <1> QED BY <1>1, <1>2, <1>3, <1>4 DEF SessionInv

\* Redeeming a code leaves whose login it is.
LEMMA ExchangeKeepsSessions ==
  ASSUME SessionInv, NEW r \in Request, NEW n \in Name, Exchange(r, n)
  PROVE  SessionInv'
PROOF
  <1> DEFINE l == req[r].login
             q == [step |-> "signed", since |-> req[r].since, proc |-> req[r].proc,
                   login |-> l, name |-> n, key |-> Head(idp)]
  <1>1. /\ l \in 1 .. Len(logins) /\ logins \in Seq(Login) /\ logins[l] \in Login
        /\ logins' = [logins EXCEPT ![l].redeemed = TRUE]
        /\ Goes(r, q) /\ UNCHANGED <<users, browser>>
    BY DEF Exchange, At, SessionInv, ByProvider
  <1>2. [logins[l] EXCEPT !.redeemed = TRUE] \in Login
    BY <1>1 DEF Login
  <1>3. logins' = [logins EXCEPT ![l] = [logins[l] EXCEPT !.redeemed = TRUE]]
    BY <1>1
  <1>4. logins' \in Seq(Login) /\ Len(logins') = Len(logins)
    BY <1>1, <1>2, <1>3
  <1>5. \A k \in 1 .. Len(logins) : /\ logins'[k].browser = logins[k].browser
                                    /\ logins'[k].person = logins[k].person
    BY <1>1, <1>3 DEF Login
  <1>6. q.step = "signed" /\ q.login = l
    OBVIOUS
  <1> HIDE DEF q
  <1> QED BY <1>1, <1>4, <1>5, <1>6, RequestMoves

\* The steps through the provider up to the row keep the sessions.
LEMMA ProviderKeepsSessions ==
  ASSUME SessionInv, NEW r \in Request,
         \/ \E p \in Process, l \in 1 .. Len(logins) : Callback(r, p, l)
         \/ Verify(r) \/ Answer(r) \/ Store(r) \/ Find(r) \/ Insert(r)
  PROVE  SessionInv'
PROOF
  <1>1. ASSUME NEW p \in Process, NEW l \in 1 .. Len(logins), Callback(r, p, l)
        PROVE  SessionInv'
    <2> DEFINE q == [step |-> "exchange", since |-> now, proc |-> p, login |-> l]
    <2>1. /\ Goes(r, q) /\ UNCHANGED <<users, browser, logins>>
          /\ q.step = "exchange" /\ q.login \in 1 .. Len(logins)
      BY <1>1 DEF Callback
    <2> HIDE DEF q
    <2> QED BY <2>1, RequestMovesOn
  <1>2. CASE Verify(r) \/ Answer(r) \/ Store(r)
    <2>1. PICK q : /\ Goes(r, q) /\ UNCHANGED <<users, browser, logins>>
                   /\ q.step \in {"find", "refused", "idle", "fetch", "fetched"}
                   /\ q.step \in {"find", "fetch", "fetched"} => q.login = req[r].login
      <3>1. CASE Verify(r)
        BY <3>1, JudgedShape DEF Verify
      <3>2. CASE Answer(r)
        BY <3>2 DEF Answer
      <3>3. CASE Store(r)
        BY <3>3, JudgedShape DEF Store
      <3> QED BY <1>2, <3>1, <3>2, <3>3
    <2>2. req[r].login \in 1 .. Len(logins)
      BY <1>2 DEF Verify, Answer, Store, At, SessionInv, ByProvider
    <2> QED BY <2>1, <2>2, RequestMovesOn DEF ByProvider
  <1>3. CASE Find(r)
    <2>1. PICK u : /\ u = NoUser \/ (u \in users /\ u.person = logins[req[r].login].person)
                   /\ Goes(r, [step |-> IF u = NoUser THEN "insert" ELSE "found", since |-> 0,
                               login |-> req[r].login, proc |-> req[r].proc,
                               name |-> req[r].name, row |-> u])
      BY <1>3 DEF Find
    <2> DEFINE q == [step |-> IF u = NoUser THEN "insert" ELSE "found", since |-> 0,
                     login |-> req[r].login, proc |-> req[r].proc,
                     name |-> req[r].name, row |-> u]
    <2>2. /\ Goes(r, q) /\ q.login = req[r].login /\ q.row = u
          /\ q.step = IF u = NoUser THEN "insert" ELSE "found"
      BY <2>1
    <2>3. /\ UNCHANGED <<users, browser, logins>> /\ req[r].login \in 1 .. Len(logins)
      BY <1>3 DEF Find, At, SessionInv, ByProvider
    <2> HIDE DEF q
    <2> QED BY <2>1, <2>2, <2>3, RequestMovesOn DEF Owns
  <1>4. CASE Insert(r)
    <2> DEFINE u == [name |-> req[r].name, person |-> logins[req[r].login].person,
                     how |-> "sso"]
               q == IF Taken(u) THEN Idle ELSE [req[r] EXCEPT !.step = "inserted", !.row = u]
    <2>1. /\ req[r].step = "insert" /\ ~InDoubt(r, u)
          /\ Goes(r, q) /\ UNCHANGED <<users, browser, logins>>
          /\ req[r].login \in 1 .. Len(logins)
      BY <1>4 DEF Insert, At, SessionInv, ByProvider
    <2>2. CASE Taken(u)
      BY <2>1, <2>2, RequestLeaves DEF Idle, ByProvider
    <2>3. CASE ~Taken(u)
      <3>1. q.login = req[r].login /\ u.person = logins[q.login].person
        BY <2>3
      <3>2. q.step = "found" => FALSE
        BY <2>1, <2>3
      <3>3. q.step = "inserted" => q.row = u
        BY <2>1, <2>3
      <3> HIDE DEF q, u
      <3> QED BY <2>1, <2>3, <3>1, <3>2, <3>3, RequestMovesOn DEF Owns
    <2> QED BY <2>2, <2>3
  <1> QED BY <1>1, <1>2, <1>3, <1>4

\* The steps of a login by password, and one that is given up, keep the sessions.
LEMMA PasswordKeepsSessions ==
  ASSUME SessionInv, NEW r \in Request,
         \/ \E p \in Process, s \in Source, n \in Name : Attempt(r, p, s, n)
         \/ Deny(r) \/ Raise(r) \/ Accept(r) \/ Stamp(r) \/ Fail(r)
  PROVE  SessionInv'
PROOF
  <1>1. UNCHANGED <<users, browser, logins>>
    BY DEF Attempt, Deny, Raise, Accept, Stamp, Fail
  <1>2. req' = req \/ \E q : Goes(r, q) /\ q.step \notin ByProvider
    <2>1. ASSUME NEW p \in Process, NEW s \in Source, NEW n \in Name, Attempt(r, p, s, n)
          PROVE  req' = req \/ \E q : Goes(r, q) /\ q.step = "lookup"
      BY <2>1 DEF Attempt
    <2>2. CASE Deny(r) \/ Raise(r) \/ Stamp(r) \/ Fail(r)
      BY <2>2 DEF Deny, Raise, Stamp, Fail, Idle, ByProvider
    <2>3. CASE Accept(r)
      <3>1. Goes(r, [req[r] EXCEPT !.step = "stamp"]) /\ req[r].step = "lookup"
        BY <2>3 DEF Accept, At
      <3>2. [req[r] EXCEPT !.step = "stamp"].step \in {"stamp", "lookup"}
        BY <3>1
      <3> QED BY <3>1, <3>2 DEF ByProvider
    <2> QED BY <2>1, <2>2, <2>3 DEF ByProvider
  <1>3. CASE req' = req
    BY <1>1, <1>3 DEF SessionInv, SessionIsOwn, At, Owns, Taken, InDoubt
  <1> QED BY <1>1, <1>2, <1>3, RequestLeaves

\* Every step leaves a browser the session of whoever signed in with it.
LEMMA SessionStep == SessionInv /\ [Next]_vars => SessionInv'
PROOF
  <1> SUFFICES ASSUME SessionInv, [Next]_vars PROVE SessionInv'
    OBVIOUS
  <1>1. ASSUME NEW r \in Request,
               \/ \E p \in Process, s \in Source, n \in Name : Attempt(r, p, s, n)
               \/ Deny(r) \/ Raise(r) \/ Accept(r) \/ Stamp(r) \/ Fail(r)
        PROVE  SessionInv'
    BY <1>1, PasswordKeepsSessions
  <1>2. ASSUME NEW r \in Request,
               \/ \E p \in Process, l \in 1 .. Len(logins) : Callback(r, p, l)
               \/ Verify(r) \/ Answer(r) \/ Store(r) \/ Find(r) \/ Insert(r)
        PROVE  SessionInv'
    BY <1>2, ProviderKeepsSessions
  <1>3. ASSUME NEW r \in Request, (\E n \in Name : Exchange(r, n)) \/ Grant(r)
        PROVE  SessionInv'
    BY <1>3, ExchangeKeepsSessions, GrantKeepsSessions
  <1>4. ASSUME NEW b \in Browser, Logout(b)
        PROVE  SessionInv'
    <2> DEFINE w == [cookie |-> NoCookie, session |-> NoUser, login |-> 0]
    <2>1. /\ UNCHANGED <<req, users, logins>> /\ w.session = NoUser
          /\ browser' = [browser EXCEPT ![b] = w]
      BY <1>4 DEF Logout
    <2> HIDE DEF w
    <2> QED BY <2>1, SessionEnds
  <1>5. ASSUME NEW b \in Browser, Expire(b)
        PROVE  SessionInv'
    <2> DEFINE w == [browser[b] EXCEPT !.session = NoUser, !.login = 0]
    <2>1. /\ UNCHANGED <<req, users, logins>>
          /\ \A c \in Browser : browser'[c].session # NoUser => browser'[c] = browser[c]
          /\ DOMAIN browser' = Browser
      BY <1>5 DEF Expire, SessionInv
    <2> QED BY <2>1 DEF SessionInv, SessionIsOwn, At, Owns, Taken, InDoubt
  <1>6. ASSUME NEW b \in Browser, NEW e \in Person, SsoLogin(b, e)
        PROVE  SessionInv'
    BY <1>6, SsoLoginKeepsSessions
  <1>7. ASSUME NEW u \in User, CreateUser(u)
        PROVE  SessionInv'
    BY <1>7, CreateUserKeepsSessions
  <1>8. ASSUME NEW p \in Process, Restart(p)
        PROVE  SessionInv'
    BY <1>8, RestartKeepsSessions
  <1>9. CASE Rotate \/ Tick \/ UNCHANGED vars
    <2>1. UNCHANGED <<req, users, logins, browser>>
      BY <1>9 DEF Rotate, Tick, vars
    <2> QED BY <2>1 DEF SessionInv, SessionIsOwn, At, Owns, Taken, InDoubt
  <1> QED BY <1>1, <1>2, <1>3, <1>4, <1>5, <1>6, <1>7, <1>8, <1>9 DEF Next

\* Initially nobody has a session and the users have keys of their own.
LEMMA SessionInit == Init => SessionInv
BY SignInAssumption
   DEF Init, SessionInv, SessionIsOwn, Idle, ByProvider, At, NoCookie

\* A session names the one user with the address of the person who signed in,
\* through a login of that very browser.
THEOREM SessionsAreTheirBrowsers == Spec => []SessionIsOwn
PROOF
  <1>1. SessionInv => SessionIsOwn
    BY DEF SessionInv
  <1> QED BY <1>1, SessionInit, SessionStep, PTL DEF Spec
----------------------------------------------------------------------------
\* How long a key is refused

\* A request that fits moves on and the rest stays: the invariant is kept.
LEMMA KeyMoves ==
  ASSUME KeyInv, NEW r \in Request, NEW q, Goes(r, q), KeyFits(q),
         UNCHANGED <<now, idp, rotatedAt, jwks>>
  PROVE  KeyInv'
PROOF
  <1>1. /\ DOMAIN req' = Request /\ req'[r] = q
        /\ \A x \in Request \ {r} : req'[x] = req[x]
    BY DEF Goes, KeyInv
  <1>2. \A x \in Request : KeyFits(req'[x])
    BY <1>1 DEF KeyInv
  <1>3. \A x \in Request : KeyFits(req[x])'
    BY <1>2 DEF KeyFits, Gone, Stale
  <1>4. \A p \in Process : CacheFits(jwks[p])'
    BY DEF KeyInv, CacheFits, Stale
  <1> QED BY <1>1, <1>3, <1>4 DEF KeyInv

\* A request that waits for no provider and was not refused always fits.
LEMMA NotWaitingFits ==
  ASSUME NEW q, q.step \notin Waiting \cup {"refused"}
  PROVE  KeyFits(q)
BY DEF KeyFits, Waiting

\* A key that is judged by a document is refused soon enough after the change
\* that made it, or the document, the provider's no longer.
LEMMA JudgedFits ==
  ASSUME KeyInv, NEW q, q.step \in {"signed", "fetched"}, KeyFits(q),
         NEW doc \in Seq(Int), q.step = "fetched" => doc = q.doc,
         q.step = "signed" /\ Stale(doc) => now < rotatedAt + JwksTTL + Timeout
  PROVE  KeyFits(Judged(q, doc))
PROOF
  <1>1. /\ now \in Nat /\ rotatedAt \in Int /\ q.proc \in Process /\ q.since \in Nat
        /\ q.since <= now /\ now <= q.since + Timeout
        /\ Timeout \in Nat /\ JwksTTL \in Nat /\ 2 * Timeout < JwksTTL
    BY SignInAssumption DEF KeyInv, KeyFits, Waiting
  <1>2. q.step = "signed" /\ Gone(q.key) => q.since <= rotatedAt
    BY DEF KeyFits
  <1>3. q.step = "fetched" => /\ q.forced \in BOOLEAN
                              /\ Stale(q.doc) => q.since <= rotatedAt
    BY DEF KeyFits
  <1>4. q.step = "fetched" /\ Gone(q.key) =>
          q.since <= rotatedAt + (IF q.forced THEN 2 * Timeout ELSE Timeout)
    BY DEF KeyFits
  <1>5. CASE q.key \in Published(doc)
    <2>1. Judged(q, doc).step = "find"
      BY <1>5 DEF Judged
    <2> QED BY <2>1, NotWaitingFits DEF Waiting
  <1>6. CASE q.key \notin Published(doc) /\ doc # <<>>
    <2>1. Judged(q, doc) = [step |-> "refused", since |-> now]
      BY <1>6 DEF Judged
    <2>2. now - rotatedAt < JwksTTL + Timeout
      <3>1. CASE doc = idp
        <4>1. Gone(q.key)
          BY <1>6, <3>1 DEF Gone
        <4>2. CASE q.step = "signed"
          BY <1>1, <1>2, <4>1, <4>2
        <4>3. CASE q.step = "fetched"
          <5>1. q.since <= rotatedAt + 2 * Timeout
            BY <1>1, <1>3, <1>4, <4>1, <4>3
          <5> QED BY <1>1, <5>1
        <4> QED BY <4>2, <4>3
      <3>2. CASE doc # idp
        <4>1. Stale(doc)
          BY <1>6, <3>2 DEF Stale
        <4>2. CASE q.step = "signed"
          BY <1>1, <4>1, <4>2
        <4>3. CASE q.step = "fetched"
          BY <1>1, <1>3, <4>1, <4>3
        <4> QED BY <4>2, <4>3
      <3> QED BY <3>1, <3>2
    <2> DEFINE f == [step |-> "refused", since |-> now]
    <2>3. f.step = "refused" /\ f.since = now
      OBVIOUS
    <2> HIDE DEF f
    <2>4. KeyFits(f)
      BY <1>1, <2>2, <2>3 DEF KeyFits, Waiting
    <2> QED BY <2>1, <2>4 DEF f
  <1>7. CASE q.key \notin Published(doc) /\ doc = <<>> /\ q.step = "fetched" /\ q.forced
    <2>1. Judged(q, doc).step = "idle"
      BY <1>7 DEF Judged, Idle
    <2> QED BY <2>1, NotWaitingFits DEF Waiting
  <1>8. CASE q.key \notin Published(doc) /\ doc = <<>> /\ ~(q.step = "fetched" /\ q.forced)
    <2> DEFINE f == [step |-> "fetch", since |-> now, proc |-> q.proc, login |-> q.login,
                     name |-> q.name, key |-> q.key, forced |-> TRUE]
    <2>1. Judged(q, doc) = f
      BY <1>8 DEF Judged
    <2>2. /\ f.step = "fetch" /\ f.since = now /\ f.proc = q.proc /\ f.key = q.key
          /\ f.forced = TRUE
      OBVIOUS
    <2> HIDE DEF f
    <2>3. Gone(q.key) => now <= rotatedAt + 2 * Timeout
      <3>1. CASE q.step = "signed"
        BY <1>1, <1>2, <3>1
      <3>2. CASE q.step = "fetched"
        <4>1. Gone(q.key) => q.since <= rotatedAt + Timeout
          BY <1>3, <1>4, <1>8, <3>2
        <4> QED BY <1>1, <4>1
      <3> QED BY <3>1, <3>2
    <2>4. f.forced \in BOOLEAN /\ (IF f.forced THEN 2 * Timeout ELSE Timeout) = 2 * Timeout
      BY <2>2
    <2>5. Gone(f.key) => f.since <= rotatedAt + (IF f.forced THEN 2 * Timeout ELSE Timeout)
      BY <2>2, <2>3, <2>4
    <2>6. /\ f.proc \in Process /\ f.since \in Nat
          /\ f.since <= now /\ now <= f.since + Timeout
      BY <1>1, <2>2
    <2>7. KeyFits(f)
      BY <2>2, <2>4, <2>5, <2>6 DEF KeyFits
    <2> QED BY <2>1, <2>7
  <1> QED BY <1>5, <1>6, <1>7, <1>8

\* A callback's wait begins now.
LEMMA CallbackKeepsKeys ==
  ASSUME KeyInv, NEW r \in Request, NEW p \in Process, NEW l \in 1 .. Len(logins),
         Callback(r, p, l)
  PROVE  KeyInv'
PROOF
  <1> DEFINE q == [step |-> "exchange", since |-> now, proc |-> p, login |-> l]
  <1>1. /\ Goes(r, q) /\ UNCHANGED <<now, idp, rotatedAt, jwks>>
        /\ q.step = "exchange" /\ q.since = now /\ q.proc = p
    BY DEF Callback, provider
  <1> HIDE DEF q
  <1>2. now \in Nat /\ Timeout \in Nat
    BY SignInAssumption DEF KeyInv
  <1>3. KeyFits(q)
    BY <1>1, <1>2 DEF KeyFits
  <1> QED BY <1>1, <1>3, KeyMoves

\* A token is signed with a key that is published.
LEMMA ExchangeKeepsKeys ==
  ASSUME KeyInv, NEW r \in Request, NEW n \in Name, Exchange(r, n)
  PROVE  KeyInv'
PROOF
  <1> DEFINE q == [step |-> "signed", since |-> req[r].since, proc |-> req[r].proc,
                   login |-> req[r].login, name |-> n, key |-> Head(idp)]
  <1>1. /\ Goes(r, q) /\ UNCHANGED <<now, idp, rotatedAt, jwks>>
        /\ q.step = "signed" /\ q.since = req[r].since /\ q.proc = req[r].proc
        /\ q.key = Head(idp) /\ req[r].step = "exchange"
    BY DEF Exchange, provider, At
  <1> HIDE DEF q
  <1>2. ~Gone(q.key)
    <2>1. idp \in Seq(Int) /\ idp # <<>>
      BY DEF KeyInv
    <2>2. Len(idp) \in Nat /\ Len(idp) >= 1 /\ Head(idp) = idp[1]
      BY <2>1
    <2> QED BY <1>1, <2>2 DEF Gone, Published
  <1>3. KeyFits(req[r])
    BY DEF KeyInv
  <1>4. KeyFits(q)
    BY <1>1, <1>2, <1>3 DEF KeyFits, Waiting
  <1> QED BY <1>1, <1>4, KeyMoves

\* A cached document that is young enough judges the key, or one is fetched.
LEMMA VerifyKeepsKeys ==
  ASSUME KeyInv, NEW r \in Request, Verify(r)
  PROVE  KeyInv'
PROOF
  <1> DEFINE q == req[r]
             c == jwks[q.proc]
             f == [step |-> "fetch", since |-> now, proc |-> q.proc, login |-> q.login,
                   name |-> q.name, key |-> q.key, forced |-> FALSE]
  <1>1. /\ q.step = "signed" /\ UNCHANGED <<now, idp, rotatedAt, jwks>>
        /\ Goes(r, IF c.held /\ now - c.at < JwksTTL THEN Judged(q, c.doc) ELSE f)
    BY DEF Verify, At, provider
  <1>2. /\ KeyFits(q) /\ q.proc \in Process /\ q.since \in Nat
        /\ now <= q.since + Timeout
        /\ Gone(q.key) => q.since <= rotatedAt
    BY <1>1 DEF KeyInv, KeyFits, Waiting
  <1>3. /\ c \in [held: BOOLEAN, at: Nat, doc: Seq(Int)] /\ CacheFits(c)
        /\ now \in Nat /\ rotatedAt \in Int /\ Timeout \in Nat /\ JwksTTL \in Nat
    BY <1>2, SignInAssumption DEF KeyInv
  <1>4. CASE c.held /\ now - c.at < JwksTTL
    <2>1. c.doc \in Seq(Int) /\ c.at \in Nat
      BY <1>3
    <2>2. Stale(c.doc) => now < rotatedAt + JwksTTL + Timeout
      BY <1>3, <1>4, <2>1 DEF CacheFits
    <2>3. KeyFits(Judged(q, c.doc))
      BY <1>1, <1>2, <2>1, <2>2, JudgedFits
    <2> QED BY <1>1, <1>4, <2>3, KeyMoves
  <1>5. CASE ~(c.held /\ now - c.at < JwksTTL)
    <2>1. /\ f.step = "fetch" /\ f.since = now /\ f.proc = q.proc /\ f.key = q.key
          /\ f.forced = FALSE
      OBVIOUS
    <2>2. Goes(r, f)
      BY <1>1, <1>5
    <2> HIDE DEF f, q, c
    <2>3. f.forced \in BOOLEAN /\ (IF f.forced THEN 2 * Timeout ELSE Timeout) = Timeout
      BY <2>1
    <2>4. Gone(f.key) => f.since <= rotatedAt + (IF f.forced THEN 2 * Timeout ELSE Timeout)
      BY <1>2, <1>3, <2>1, <2>3
    <2>5. /\ f.proc \in Process /\ f.since \in Nat
          /\ f.since <= now /\ now <= f.since + Timeout
      BY <1>2, <1>3, <2>1
    <2>6. KeyFits(f)
      BY <2>1, <2>3, <2>4, <2>5 DEF KeyFits
    <2> QED BY <1>1, <2>2, <2>6, KeyMoves
  <1> QED BY <1>4, <1>5

\* The provider's answer is its present document, or one without keys.
LEMMA AnswerKeepsKeys ==
  ASSUME KeyInv, NEW r \in Request, Answer(r)
  PROVE  KeyInv'
PROOF
  <1> DEFINE q == req[r]
  <1>1. PICK doc \in {idp, <<>>} :
          Goes(r, [step |-> "fetched", since |-> q.since, proc |-> q.proc, login |-> q.login,
                   name |-> q.name, key |-> q.key, forced |-> q.forced, doc |-> doc])
    BY DEF Answer
  <1> DEFINE f == [step |-> "fetched", since |-> q.since, proc |-> q.proc, login |-> q.login,
                   name |-> q.name, key |-> q.key, forced |-> q.forced, doc |-> doc]
  <1>2. /\ Goes(r, f) /\ f.step = "fetched" /\ f.since = q.since /\ f.proc = q.proc
        /\ f.key = q.key /\ f.forced = q.forced /\ f.doc = doc
    BY <1>1
  <1>3. q.step = "fetch" /\ UNCHANGED <<now, idp, rotatedAt, jwks>>
    BY DEF Answer, At, provider
  <1>4. KeyFits(q) /\ idp \in Seq(Int)
    BY DEF KeyInv
  <1>5. doc \in Seq(Int) /\ ~Stale(doc)
    <2>1. doc = idp \/ doc = <<>>
      BY <1>1
    <2>2. <<>> \in Seq(Int)
      OBVIOUS
    <2>3. doc \in Seq(Int)
      BY <1>4, <2>1, <2>2
    <2>4. ~Stale(doc)
      BY <1>1 DEF Stale
    <2> QED BY <2>3, <2>4
  <1> HIDE DEF f, q
  <1>6. /\ f.proc \in Process /\ f.since \in Nat
        /\ f.since <= now /\ now <= f.since + Timeout
    BY <1>2, <1>3, <1>4 DEF KeyFits, Waiting
  <1>7. q.forced \in BOOLEAN
        /\ (Gone(q.key) => q.since <= rotatedAt + (IF q.forced THEN 2 * Timeout ELSE Timeout))
    BY <1>3, <1>4 DEF KeyFits
  <1>8. KeyFits(f)
    BY <1>2, <1>5, <1>6, <1>7 DEF KeyFits
  <1> QED BY <1>2, <1>3, <1>8, KeyMoves

\* What is stored is what was answered, no longer ago than a call may take.
LEMMA StoreKeepsKeys ==
  ASSUME KeyInv, NEW r \in Request, Store(r)
  PROVE  KeyInv'
PROOF
  <1> DEFINE q == req[r]
             c == [held |-> TRUE, at |-> now, doc |-> q.doc]
  <1>1. /\ q.step = "fetched" /\ UNCHANGED <<now, idp, rotatedAt>>
        /\ Goes(r, Judged(q, q.doc)) /\ jwks' = [jwks EXCEPT ![q.proc] = c]
    BY DEF Store, At, provider
  <1>2. /\ KeyFits(q) /\ q.proc \in Process /\ q.since \in Nat /\ q.doc \in Seq(Int)
        /\ now <= q.since + Timeout
        /\ Stale(q.doc) => q.since <= rotatedAt
    BY <1>1 DEF KeyInv, KeyFits, Waiting
  <1>3. now \in Nat /\ rotatedAt \in Int /\ Timeout \in Nat
    BY SignInAssumption DEF KeyInv
  <1>4. KeyFits(Judged(q, q.doc))
    BY <1>1, <1>2, JudgedFits
  <1>5. /\ DOMAIN req' = Request /\ req'[r] = Judged(q, q.doc)
        /\ \A x \in Request \ {r} : req'[x] = req[x]
    BY <1>1 DEF Goes, KeyInv
  <1>6. \A x \in Request : KeyFits(req'[x])
    BY <1>4, <1>5 DEF KeyInv
  <1>7. \A x \in Request : KeyFits(req[x])'
    BY <1>1, <1>6 DEF KeyFits, Gone, Stale
  <1>8. c \in [held: BOOLEAN, at: Nat, doc: Seq(Int)] /\ CacheFits(c)
    BY <1>2, <1>3 DEF CacheFits
  <1>9. jwks' \in [Process -> [held: BOOLEAN, at: Nat, doc: Seq(Int)]]
    BY <1>1, <1>8 DEF KeyInv
  <1>10. \A p \in Process : CacheFits(jwks'[p])
    BY <1>1, <1>2, <1>8 DEF KeyInv
  <1>11. \A p \in Process : CacheFits(jwks[p])'
    BY <1>1, <1>10 DEF CacheFits, Stale
  <1> QED BY <1>1, <1>5, <1>7, <1>9, <1>11 DEF KeyInv

\* When the keys change, whatever waits or is cached has begun before.
LEMMA RotateKeepsKeys ==
  ASSUME KeyInv, Rotate
  PROVE  KeyInv'
PROOF
  <1> DEFINE all == <<idp[1] + 1>> \o idp
  <1>1. /\ UNCHANGED <<now, jwks, req>> /\ rotatedAt' = now
        /\ idp' = IF Len(all) <= Keep THEN all ELSE SubSeq(all, 1, Keep)
        /\ now \in Nat /\ rotatedAt \in Int /\ rotatedAt <= now
        /\ idp \in Seq(Int) /\ idp # <<>> /\ Keep \in Nat \ {0} /\ Timeout \in Nat
        /\ JwksTTL \in Nat /\ 2 * Timeout < JwksTTL
    BY SignInAssumption DEF Rotate, KeyInv
  <1>2. idp' \in Seq(Int) /\ idp' # <<>>
    <2>1. Len(idp) \in Nat /\ Len(idp) >= 1 /\ idp[1] \in Int
      BY <1>1
    <2>2. /\ all \in Seq(Int) /\ Len(all) = Len(idp) + 1
      BY <1>1, <2>1
    <2> HIDE DEF all
    <2>3. CASE Len(all) <= Keep
      BY <1>1, <2>1, <2>2, <2>3
    <2>4. CASE ~(Len(all) <= Keep)
      <3>1. \A i \in 1 .. Keep : all[i] \in Int
        BY <1>1, <2>1, <2>2, <2>4
      <3>2. /\ SubSeq(all, 1, Keep) \in Seq(Int)
            /\ Len(SubSeq(all, 1, Keep)) = Keep
        BY <1>1, <3>1, SubSeqProperties
      <3> QED BY <1>1, <2>4, <3>2
    <2> QED BY <2>3, <2>4
  <1>3. \A p \in Process : CacheFits(jwks[p])'
    <2> SUFFICES ASSUME NEW p \in Process PROVE CacheFits(jwks[p])'
      OBVIOUS
    <2>1. jwks[p] \in [held: BOOLEAN, at: Nat, doc: Seq(Int)] /\ CacheFits(jwks[p])
      BY DEF KeyInv
    <2>2. jwks[p].at \in Nat
      BY <2>1
    <2> QED BY <1>1, <2>1, <2>2 DEF CacheFits
  <1>4. \A r \in Request : KeyFits(req[r])'
    <2> SUFFICES ASSUME NEW r \in Request PROVE KeyFits(req[r])'
      OBVIOUS
    <2> DEFINE q == req[r]
    <2>1. KeyFits(q)
      BY DEF KeyInv
    <2>2. q.step \in Waiting =>
            /\ q.proc \in Process /\ q.since \in Nat
            /\ q.since <= now /\ now <= q.since + Timeout
      BY <2>1 DEF KeyFits
    <2>3. q.step \in {"fetch", "fetched"} =>
            /\ q.forced \in BOOLEAN
            /\ q.since <= rotatedAt' + (IF q.forced THEN 2 * Timeout ELSE Timeout)
      <3>1. q.step \in {"fetch", "fetched"} => q.forced \in BOOLEAN
        BY <2>1 DEF KeyFits
      <3>2. q.step \in {"fetch", "fetched"} => q.since \in Nat /\ q.since <= now
        BY <2>2 DEF Waiting
      <3>3. (IF q.forced THEN 2 * Timeout ELSE Timeout) \in Nat
        BY <1>1
      <3> HIDE DEF q
      <3> QED BY <1>1, <3>1, <3>2, <3>3
    <2>4. q.step = "signed" => q.since <= rotatedAt'
      BY <1>1, <2>2 DEF Waiting
    <2>5. q.step = "fetched" => q.doc \in Seq(Int) /\ q.since <= rotatedAt'
      <3>1. q.step = "fetched" => q.doc \in Seq(Int)
        BY <2>1 DEF KeyFits
      <3> QED BY <1>1, <2>2, <3>1 DEF Waiting
    <2>6. q.step = "refused" => q.since \in Nat /\ q.since - rotatedAt' < JwksTTL + Timeout
      <3>1. q.step = "refused" => q.since \in Nat /\ q.since - rotatedAt < JwksTTL + Timeout
        BY <2>1 DEF KeyFits
      <3> HIDE DEF q
      <3> QED BY <1>1, <3>1
    <2>7. q' = q /\ now' = now
      BY <1>1
    <2> HIDE DEF q
    <2>8. KeyFits(q)'
      BY <2>2, <2>3, <2>4, <2>5, <2>6, <2>7 DEF KeyFits
    <2> QED BY <2>8 DEF q
  <1>5. /\ jwks' \in [Process -> [held: BOOLEAN, at: Nat, doc: Seq(Int)]]
        /\ DOMAIN req' = Request
    BY <1>1 DEF KeyInv
  <1>6. now' \in Nat /\ rotatedAt' \in Int /\ rotatedAt' <= now'
    BY <1>1
  <1> QED BY <1>2, <1>3, <1>4, <1>5, <1>6 DEF KeyInv

\* Time stops for a call that has waited for its timeout.
LEMMA TickKeepsKeys ==
  ASSUME KeyInv, Tick
  PROVE  KeyInv'
PROOF
  <1>1. /\ UNCHANGED <<jwks, req, idp, rotatedAt>> /\ now' = now + 1
        /\ now \in Nat /\ rotatedAt \in Int /\ rotatedAt <= now /\ Timeout \in Nat
        /\ \A r \in Request : req[r].step \in Waiting => now < req[r].since + Timeout
    BY SignInAssumption DEF Tick, KeyInv, provider
  <1>2. \A p \in Process : CacheFits(jwks[p])'
    <2> SUFFICES ASSUME NEW p \in Process PROVE CacheFits(jwks[p])'
      OBVIOUS
    <2>1. jwks[p] \in [held: BOOLEAN, at: Nat, doc: Seq(Int)] /\ CacheFits(jwks[p])
      BY DEF KeyInv
    <2>2. jwks[p].at \in Nat
      BY <2>1
    <2> QED BY <1>1, <2>1, <2>2 DEF CacheFits, Stale
  <1>3. \A r \in Request : KeyFits(req[r])'
    <2> SUFFICES ASSUME NEW r \in Request PROVE KeyFits(req[r])'
      OBVIOUS
    <2>1. KeyFits(req[r])
      BY DEF KeyInv
    <2>2. req[r].step \in Waiting =>
            /\ req[r].since <= now' /\ now' <= req[r].since + Timeout
      BY <1>1, <2>1 DEF KeyFits
    <2> QED BY <1>1, <2>1, <2>2 DEF KeyFits, Gone, Stale
  <1> QED BY <1>1, <1>2, <1>3 DEF KeyInv

\* A process that starts anew holds no document.
LEMMA RestartKeepsKeys ==
  ASSUME KeyInv, NEW p \in Process, Restart(p)
  PROVE  KeyInv'
PROOF
  <1>1. /\ UNCHANGED <<now, idp, rotatedAt>> /\ jwks' = [jwks EXCEPT ![p] = NoJwks]
        /\ DOMAIN req' = Request
        /\ \A x \in Request : req'[x] = req[x] \/ req'[x].step = "idle"
    BY DEF Restart, Idle, provider
  <1>2. NoJwks \in [held: BOOLEAN, at: Nat, doc: Seq(Int)] /\ NoJwks.held = FALSE
    BY DEF NoJwks
  <1>3. jwks' \in [Process -> [held: BOOLEAN, at: Nat, doc: Seq(Int)]]
    BY <1>1, <1>2 DEF KeyInv
  <1>4. \A x \in Process : CacheFits(jwks'[x])
    <2> SUFFICES ASSUME NEW x \in Process PROVE CacheFits(jwks'[x])
      OBVIOUS
    <2>1. CASE x = p
      BY <1>1, <1>2, <2>1 DEF KeyInv, CacheFits
    <2>2. CASE x # p
      BY <1>1, <2>2 DEF KeyInv
    <2> QED BY <2>1, <2>2
  <1>5. \A x \in Process : CacheFits(jwks[x])'
    BY <1>1, <1>4 DEF CacheFits, Stale
  <1>6. \A x \in Request : KeyFits(req'[x])
    BY <1>1, NotWaitingFits DEF KeyInv, Waiting
  <1>7. \A x \in Request : KeyFits(req[x])'
    BY <1>1, <1>6 DEF KeyFits, Gone, Stale
  <1> QED BY <1>1, <1>3, <1>5, <1>7 DEF KeyInv

\* A request that waits for no provider afterwards disturbs no bound.
LEMMA RequestEndsKeepsKeys ==
  ASSUME KeyInv, NEW r \in Request,
         \/ \E p \in Process, s \in Source, n \in Name : Attempt(r, p, s, n)
         \/ Deny(r) \/ Raise(r) \/ Accept(r) \/ Stamp(r)
         \/ Find(r) \/ Insert(r) \/ Grant(r) \/ Fail(r)
  PROVE  KeyInv'
PROOF
  <1>1. UNCHANGED <<now, idp, rotatedAt, jwks>>
    BY DEF Attempt, Deny, Raise, Accept, Stamp, Find, Insert, Grant, Fail, provider
  <1>2. req' = req \/ \E q : Goes(r, q) /\ q.step \notin Waiting \cup {"refused"}
    <2>1. ASSUME NEW p \in Process, NEW s \in Source, NEW n \in Name, Attempt(r, p, s, n)
          PROVE  req' = req \/ \E q : Goes(r, q) /\ q.step = "lookup"
      BY <2>1 DEF Attempt
    <2>2. CASE Deny(r) \/ Raise(r) \/ Stamp(r) \/ Fail(r) \/ Grant(r)
      BY <2>2 DEF Deny, Raise, Stamp, Fail, Grant, Idle, Waiting
    <2>3. CASE Accept(r)
      <3>1. Goes(r, [req[r] EXCEPT !.step = "stamp"]) /\ req[r].step = "lookup"
        BY <2>3 DEF Accept, At
      <3>2. [req[r] EXCEPT !.step = "stamp"].step \in {"stamp", "lookup"}
        BY <3>1
      <3> QED BY <3>1, <3>2 DEF Waiting
    <2>4. CASE Find(r)
      <3>1. \E q : Goes(r, q) /\ q.step \in {"insert", "found"}
        BY <2>4 DEF Find
      <3> QED BY <3>1 DEF Waiting
    <2>5. CASE Insert(r)
      <3> DEFINE u == [name |-> req[r].name, person |-> logins[req[r].login].person,
                       how |-> "sso"]
                 f == [req[r] EXCEPT !.step = "inserted", !.row = u]
      <3>1. req[r].step = "insert" /\ (Goes(r, Idle) \/ Goes(r, f))
        BY <2>5 DEF Insert, At
      <3>2. f.step \in {"insert", "inserted"} /\ Idle.step = "idle"
        BY <3>1 DEF Idle
      <3> HIDE DEF f
      <3> QED BY <3>1, <3>2 DEF Waiting
    <2> QED BY <2>1, <2>2, <2>3, <2>4, <2>5 DEF Waiting
  <1>3. CASE req' = req
    BY <1>1, <1>3 DEF KeyInv, KeyFits, CacheFits, Gone, Stale
  <1>4. ASSUME NEW q, Goes(r, q), q.step \notin Waiting \cup {"refused"}
        PROVE  KeyInv'
    <2>1. KeyFits(q)
      BY <1>4, NotWaitingFits
    <2> QED BY <1>1, <1>4, <2>1, KeyMoves
  <1> QED BY <1>2, <1>3, <1>4

\* Every step keeps keys, documents and requests within their bounds.
LEMMA KeyStep == KeyInv /\ [Next]_vars => KeyInv'
PROOF
  <1> SUFFICES ASSUME KeyInv, [Next]_vars PROVE KeyInv'
    OBVIOUS
  <1>1. ASSUME NEW r \in Request,
               \/ \E p \in Process, s \in Source, n \in Name : Attempt(r, p, s, n)
               \/ Deny(r) \/ Raise(r) \/ Accept(r) \/ Stamp(r)
               \/ Find(r) \/ Insert(r) \/ Grant(r) \/ Fail(r)
        PROVE  KeyInv'
    BY <1>1, RequestEndsKeepsKeys
  <1>2. ASSUME NEW r \in Request,
               \/ \E p \in Process, l \in 1 .. Len(logins) : Callback(r, p, l)
               \/ \E n \in Name : Exchange(r, n)
               \/ Verify(r) \/ Answer(r) \/ Store(r)
        PROVE  KeyInv'
    BY <1>2, CallbackKeepsKeys, ExchangeKeepsKeys, VerifyKeepsKeys, AnswerKeepsKeys,
       StoreKeepsKeys
  <1>3. CASE \/ \E b \in Browser : Logout(b) \/ Expire(b) \/ \E e \in Person : SsoLogin(b, e)
             \/ \E u \in User : CreateUser(u)
             \/ UNCHANGED vars
    <2>1. UNCHANGED <<now, idp, rotatedAt, jwks, req>>
      BY <1>3 DEF Logout, Expire, SsoLogin, CreateUser, vars, provider
    <2> QED BY <2>1 DEF KeyInv, KeyFits, CacheFits, Gone, Stale
  <1>4. ASSUME NEW p \in Process, Restart(p)
        PROVE  KeyInv'
    BY <1>4, RestartKeepsKeys
  <1>5. CASE Rotate
    BY <1>5, RotateKeepsKeys
  <1>6. CASE Tick
    BY <1>6, TickKeepsKeys
  <1> QED BY <1>1, <1>2, <1>3, <1>4, <1>5, <1>6 DEF Next

\* Initially nothing is cached and nobody waits.
LEMMA KeyInit == Init => KeyInv
PROOF
  <1> SUFFICES ASSUME Init PROVE KeyInv
    OBVIOUS
  <1>1. /\ DOMAIN req = Request /\ \A r \in Request : req[r].step = "idle"
        /\ now = 0 /\ rotatedAt = -(JwksTTL + Timeout) /\ idp = <<1>>
        /\ \A p \in Process : jwks[p].held = FALSE
    BY DEF Init, Idle, NoJwks
  <1>2. rotatedAt \in Int /\ rotatedAt <= now /\ now \in Nat
    BY <1>1, SignInAssumption
  <1>3. idp \in Seq(Int) /\ idp # <<>>
    BY <1>1
  <1>4. jwks \in [Process -> [held: BOOLEAN, at: Nat, doc: Seq(Int)]]
    BY DEF Init, NoJwks
  <1>5. \A r \in Request : KeyFits(req[r])
    BY <1>1, NotWaitingFits DEF Waiting
  <1>6. \A p \in Process : CacheFits(jwks[p])
    BY <1>1 DEF CacheFits
  <1> QED BY <1>1, <1>2, <1>3, <1>4, <1>5, <1>6 DEF KeyInv

\* A token is refused for its key only for so long after the provider changed its
\* keys as a document may be cached and its fetching may take.
THEOREM RefusalsEnd == Spec => []RefusedAfterRotation
PROOF
  <1>1. KeyInv => RefusedAfterRotation
    BY DEF KeyInv, KeyFits, RefusedAfterRotation
  <1> QED BY <1>1, KeyInit, KeyStep, PTL DEF Spec
----------------------------------------------------------------------------
\* How far the limit is overshot

\* What WindowHolds says of one history.
Spread(w) == \A i, j \in 1 .. Len(w) :
  j - i + 1 >= MaxAttempts + Cardinality(Request) => w[j] - w[i] > LoginWindow

\* The constants are numbers, Cardinality(Request) among them.
LEMMA Numbers ==
  /\ MaxAttempts \in Nat /\ MaxAttempts >= 1 /\ LoginWindow \in Nat
  /\ IsFiniteSet(Request) /\ Cardinality(Request) \in Nat
BY SignInAssumption, FS_CardinalityType

\* Dropping what has left the window leaves the end of the history.
LEMMA DropKeepsEnd ==
  ASSUME NEW a \in Seq(Nat), NEW w \in Seq(Nat), NEW t \in Nat, EndOf(a, w, t),
         NEW k \in 0 .. Len(a), \A i \in 1 .. k : t - a[i] > LoginWindow
  PROVE  /\ EndOf(SubSeq(a, k + 1, Len(a)), w, t)
         /\ SubSeq(a, k + 1, Len(a)) \in Seq(Nat)
         /\ Len(SubSeq(a, k + 1, Len(a))) = Len(a) - k
PROOF
  <1> DEFINE b == SubSeq(a, k + 1, Len(a))
             d == Len(w) - Len(a)
  <1>1. Len(a) \in Nat /\ Len(w) \in Nat /\ k \in Nat /\ k <= Len(a)
    OBVIOUS
  <1>2. \A i \in k + 1 .. Len(a) : a[i] \in Nat
    BY <1>1
  <1>3. /\ b \in Seq(Nat) /\ Len(b) = Len(a) - k
        /\ \A i \in 1 .. Len(a) - k : b[i] = a[k + i]
    <2> DEFINE m == k + 1
    <2>1. m \in Int /\ Len(a) \in Int /\ \A i \in m .. Len(a) : a[i] \in Nat
      BY <1>1, <1>2
    <2>2. m = k + 1
      OBVIOUS
    <2> HIDE DEF m
    <2>3. /\ SubSeq(a, m, Len(a)) \in Seq(Nat)
          /\ Len(SubSeq(a, m, Len(a))) = IF m <= Len(a) THEN Len(a) - m + 1 ELSE 0
          /\ \A i \in 1 .. Len(a) - m + 1 : SubSeq(a, m, Len(a))[i] = a[m + i - 1]
      BY <2>1, SubSeqProperties
    <2>4. b = SubSeq(a, m, Len(a))
      BY <2>2
    <2> HIDE DEF b
    <2>5. b \in Seq(Nat) /\ Len(b) = Len(a) - k
      BY <1>1, <2>2, <2>3, <2>4
    <2>6. \A i \in 1 .. Len(a) - k : b[i] = a[k + i]
      <3> SUFFICES ASSUME NEW i \in 1 .. Len(a) - k PROVE b[i] = a[k + i]
        OBVIOUS
      <3>1. i \in 1 .. Len(a) - m + 1 /\ m + i - 1 = k + i
        BY <1>1, <2>2
      <3> QED BY <2>3, <2>4, <3>1
    <2> QED BY <2>5, <2>6
  <1>4. /\ d >= 0 /\ \A i \in 1 .. Len(a) : a[i] = w[d + i]
        /\ \A i \in 1 .. d : t - w[i] > LoginWindow
    BY DEF EndOf
  <1> HIDE DEF b
  <1>5. \A i \in 1 .. Len(b) : b[i] = w[(Len(w) - Len(b)) + i]
    <2> SUFFICES ASSUME NEW i \in 1 .. Len(b) PROVE b[i] = w[(Len(w) - Len(b)) + i]
      OBVIOUS
    <2>1. i \in 1 .. Len(a) - k /\ k + i \in 1 .. Len(a)
      BY <1>1, <1>3
    <2>2. d + (k + i) = (Len(w) - Len(b)) + i
      BY <1>1, <1>3
    <2> HIDE DEF d
    <2> QED BY <1>3, <1>4, <2>1, <2>2
  <1>6. \A i \in 1 .. Len(w) - Len(b) : t - w[i] > LoginWindow
    <2> SUFFICES ASSUME NEW i \in 1 .. Len(w) - Len(b) PROVE t - w[i] > LoginWindow
      OBVIOUS
    <2>1. d \in Int /\ d + k = Len(w) - Len(b)
      BY <1>1, <1>3
    <2> HIDE DEF d
    <2>2. CASE i <= d
      <3>1. i \in 1 .. d
        BY <2>1, <2>2
      <3> QED BY <1>4, <3>1
    <2>3. CASE i > d
      <3>1. i - d \in 1 .. k /\ i - d \in 1 .. Len(a) /\ d + (i - d) = i
        BY <1>1, <2>1, <2>3
      <3>2. a[i - d] = w[d + (i - d)] /\ t - a[i - d] > LoginWindow
        BY <1>4, <3>1
      <3> QED BY <3>1, <3>2
    <2> QED BY <2>1, <2>2, <2>3
  <1>7. EndOf(b, w, t)
    BY <1>1, <1>3, <1>4, <1>5, <1>6 DEF EndOf
  <1> QED BY <1>3, <1>7 DEF b

\* An attempt counted in both is at the end of both.
LEMMA AppendKeepsEnd ==
  ASSUME NEW a \in Seq(Nat), NEW w \in Seq(Nat), NEW t \in Nat, EndOf(a, w, t)
  PROVE  EndOf(Append(a, t), Append(w, t), t)
PROOF
  <1>1. /\ Len(a) \in Nat /\ Len(w) \in Nat
        /\ Len(Append(a, t)) = Len(a) + 1 /\ Len(Append(w, t)) = Len(w) + 1
    OBVIOUS
  <1>2. \A i \in 1 .. Len(w) : Append(w, t)[i] = w[i]
    OBVIOUS
  <1>3. \A i \in 1 .. Len(a) : Append(a, t)[i] = a[i]
    OBVIOUS
  <1>4. Append(a, t)[Len(a) + 1] = t /\ Append(w, t)[Len(w) + 1] = t
    OBVIOUS
  <1> DEFINE b == Append(a, t)
             v == Append(w, t)
  <1> HIDE DEF b, v
  <1>5. Len(w) - Len(a) >= 0
    BY DEF EndOf
  <1>6. \A i \in 1 .. Len(a) + 1 : b[i] = v[(Len(w) - Len(a)) + i]
    <2> SUFFICES ASSUME NEW i \in 1 .. Len(a) + 1
                 PROVE  b[i] = v[(Len(w) - Len(a)) + i]
      OBVIOUS
    <2>1. CASE i = Len(a) + 1
      <3>1. (Len(w) - Len(a)) + i = Len(w) + 1
        BY <1>1, <2>1
      <3> QED BY <1>4, <2>1, <3>1 DEF b, v
    <2>2. CASE i \in 1 .. Len(a)
      <3>1. a[i] = w[(Len(w) - Len(a)) + i] /\ (Len(w) - Len(a)) + i \in 1 .. Len(w)
        BY <1>1, <1>5, <2>2 DEF EndOf
      <3> QED BY <1>2, <1>3, <2>2, <3>1 DEF b, v
    <2> QED BY <1>1, <2>1, <2>2
  <1>7. \A i \in 1 .. Len(w) - Len(a) : t - v[i] > LoginWindow
    <2> SUFFICES ASSUME NEW i \in 1 .. Len(w) - Len(a) PROVE t - v[i] > LoginWindow
      OBVIOUS
    <2>1. i \in 1 .. Len(w) /\ t - w[i] > LoginWindow
      BY <1>1 DEF EndOf
    <2> QED BY <1>2, <2>1 DEF v
  <1>8. Len(b) = Len(a) + 1 /\ Len(v) = Len(w) + 1 /\ Len(v) - Len(b) = Len(w) - Len(a)
    BY <1>1 DEF b, v
  <1>9. EndOf(b, v, t)
    BY <1>5, <1>6, <1>7, <1>8 DEF EndOf
  <1> QED BY <1>9 DEF b, v

\* An attempt compared now is one too many only next to some that have left the
\* window, if the deque had room for it.
LEMMA AppendKeepsSpread ==
  ASSUME NEW a \in Seq(Nat), NEW w \in Seq(Nat), NEW t \in Nat, EndOf(a, w, t), Spread(w),
         Len(a) <= MaxAttempts + Cardinality(Request) - 2
  PROVE  Spread(Append(w, t))
PROOF
  <1>1. /\ Len(a) \in Nat /\ Len(w) \in Nat /\ Len(Append(w, t)) = Len(w) + 1
        /\ Append(w, t)[Len(w) + 1] = t
        /\ \A i \in 1 .. Len(w) : Append(w, t)[i] = w[i]
    OBVIOUS
  <1> DEFINE v == Append(w, t)
  <1> HIDE DEF v
  <1>2. ASSUME NEW i \in 1 .. Len(w) + 1, NEW j \in 1 .. Len(w) + 1,
               j - i + 1 >= MaxAttempts + Cardinality(Request)
        PROVE  v[j] - v[i] > LoginWindow
    <2>1. CASE j \in 1 .. Len(w)
      <3>1. i \in 1 .. Len(w)
        <4>1. j - i + 1 >= 1
          BY <1>2, Numbers
        <4> QED BY <1>1, <2>1, <4>1
      <3>2. w[j] - w[i] > LoginWindow
        BY <1>2, <2>1, <3>1 DEF Spread
      <3> QED BY <1>1, <2>1, <3>1, <3>2 DEF v
    <2>2. CASE j = Len(w) + 1
      <3>1. i \in 1 .. Len(w) - Len(a) \/ (i = Len(w) + 1 /\ FALSE)
        <4>1. Len(w) + 1 - i + 1 >= Len(a) + 2
          BY <1>1, <1>2, <2>2, Numbers
        <4> QED BY <1>1, <4>1
      <3>2. t - w[i] > LoginWindow /\ i \in 1 .. Len(w)
        BY <1>1, <3>1 DEF EndOf
      <3> QED BY <1>1, <2>2, <3>2 DEF v
    <2> QED BY <1>1, <2>1, <2>2
  <1>3. Len(v) = Len(w) + 1
    BY <1>1 DEF v
  <1>4. Spread(v)
    BY <1>2, <1>3 DEF Spread
  <1> QED BY <1>4 DEF v

\* Fewer requests past the check are no more.
LEMMA FewerLookups ==
  ASSUME NEW S, NEW T, S \subseteq T, T \subseteq Request
  PROVE  /\ Cardinality(S) \in Nat /\ Cardinality(T) \in Nat
         /\ Cardinality(S) <= Cardinality(T) /\ Cardinality(T) <= Cardinality(Request)
BY Numbers, FS_Subset, FS_CardinalityType

\* What the invariant says of one process and one address.
LEMMA WindowFacts ==
  ASSUME WindowInv, NEW p \in Process, NEW s \in Source
  PROVE  /\ attempts[p][s] \in Seq(Nat) /\ wrong[p][s] \in Seq(Nat) /\ now \in Nat
         /\ EndOf(attempts[p][s], wrong[p][s], now)
         /\ Lookups(p, s) \subseteq Request /\ Cardinality(Lookups(p, s)) \in Nat
         /\ Len(attempts[p][s]) + Cardinality(Lookups(p, s))
              <= MaxAttempts - 1 + Cardinality(Request)
         /\ Spread(wrong[p][s])
PROOF
  <1>1. attempts[p][s] \in Seq(Nat) /\ wrong[p][s] \in Seq(Nat) /\ now \in Nat
    BY DEF WindowInv, WindowTypes
  <1>2. Lookups(p, s) \subseteq Request
    BY DEF Lookups
  <1>3. Spread(wrong[p][s])
    BY DEF WindowInv, WindowHolds, Spread
  <1> QED BY <1>1, <1>2, <1>3, FewerLookups DEF WindowInv

\* And what it takes of each for it to hold afterwards.
LEMMA WindowAfter ==
  ASSUME WindowTypes',
         \A p \in Process, s \in Source :
           /\ EndOf(attempts'[p][s], wrong'[p][s], now')
           /\ Len(attempts'[p][s]) + Cardinality(Lookups(p, s)')
                <= MaxAttempts - 1 + Cardinality(Request)
           /\ Spread(wrong'[p][s])
  PROVE  WindowInv'
BY DEF WindowInv, WindowHolds, EndOf, Spread

\* The counts stay, and no request has come past the check.
LEMMA WindowKept ==
  ASSUME WindowInv, UNCHANGED <<attempts, wrong>>, now' \in Nat, now' >= now, WindowTypes',
         \A p \in Process, s \in Source : Lookups(p, s)' \subseteq Lookups(p, s)
  PROVE  WindowInv'
PROOF
  <1> SUFFICES ASSUME NEW p \in Process, NEW s \in Source
               PROVE  /\ EndOf(attempts'[p][s], wrong'[p][s], now')
                      /\ Len(attempts'[p][s]) + Cardinality(Lookups(p, s)')
                           <= MaxAttempts - 1 + Cardinality(Request)
                      /\ Spread(wrong'[p][s])
    BY WindowAfter
  <1> DEFINE a == attempts[p][s]
             w == wrong[p][s]
  <1>1. /\ a \in Seq(Nat) /\ w \in Seq(Nat) /\ now \in Nat /\ EndOf(a, w, now)
        /\ Cardinality(Lookups(p, s)) \in Nat
        /\ Len(a) + Cardinality(Lookups(p, s)) <= MaxAttempts - 1 + Cardinality(Request)
        /\ Spread(w) /\ attempts'[p][s] = a /\ wrong'[p][s] = w
    BY WindowFacts
  <1> HIDE DEF a, w
  <1>2. EndOf(a, w, now')
    <2>1. \A i \in 1 .. Len(w) - Len(a) : now' - w[i] > LoginWindow
      <3> SUFFICES ASSUME NEW i \in 1 .. Len(w) - Len(a) PROVE now' - w[i] > LoginWindow
        OBVIOUS
      <3>1. Len(w) \in Nat /\ Len(a) \in Nat
        BY <1>1
      <3>2. i \in 1 .. Len(w) /\ now - w[i] > LoginWindow
        BY <1>1, <3>1 DEF EndOf
      <3>3. w[i] \in Nat
        BY <1>1, <3>2
      <3>4. now \in Nat /\ now' \in Nat /\ now' >= now
        BY <1>1
      <3> QED BY <3>2, <3>3, <3>4, Numbers
    <2> QED BY <1>1, <2>1 DEF EndOf
  <1>3. Lookups(p, s)' \subseteq Lookups(p, s) /\ Lookups(p, s) \subseteq Request
    BY DEF Lookups
  <1>4. /\ Cardinality(Lookups(p, s)') \in Nat
        /\ Cardinality(Lookups(p, s)') <= Cardinality(Lookups(p, s))
    BY <1>3, FewerLookups
  <1>5. Len(a) \in Nat
    BY <1>1
  <1> QED BY <1>1, <1>2, <1>4, <1>5, Numbers

\* A request that is none of the password's afterwards passes no check.
LEMMA RequestEndsKeepsWindow ==
  ASSUME WindowInv, NEW r \in Request, NEW q, Goes(r, q), UNCHANGED <<attempts, wrong, now>>,
         q.step # "lookup",
         q.step = "stamp" => q.proc \in Process /\ q.from \in Source
  PROVE  WindowInv'
PROOF
  <1>1. /\ DOMAIN req' = Request /\ req'[r] = q
        /\ \A x \in Request \ {r} : req'[x] = req[x]
    BY DEF Goes, WindowInv, WindowTypes
  <1>2. WindowTypes'
    BY <1>1 DEF WindowInv, WindowTypes
  <1>3. \A p \in Process, s \in Source : Lookups(p, s)' \subseteq Lookups(p, s)
    BY <1>1 DEF Lookups, At
  <1>4. now' \in Nat /\ now' >= now
    BY DEF WindowInv, WindowTypes
  <1> QED BY <1>2, <1>3, <1>4, WindowKept

\* Old attempts are dropped, and a request passes only where there is room.
LEMMA AttemptKeepsWindow ==
  ASSUME WindowInv, NEW r \in Request, NEW p \in Process, NEW s \in Source, NEW n \in Name,
         Attempt(r, p, s, n)
  PROVE  WindowInv'
PROOF
  <1> DEFINE a == attempts[p][s]
             f == [step |-> "lookup", since |-> 0, proc |-> p, from |-> s, name |-> n]
  <1>1. PICK k \in 0 .. Len(a) :
          /\ Lapsed(a, k)
          /\ attempts' = [attempts EXCEPT ![p][s] = SubSeq(a, k + 1, Len(a))]
          /\ IF Len(a) - k >= MaxAttempts THEN req' = req ELSE Goes(r, f)
    BY DEF Attempt
  <1>2. /\ UNCHANGED <<now, wrong>> /\ req[r].step \in {"idle", "refused"}
    BY DEF Attempt, Free
  <1>3. /\ a \in Seq(Nat) /\ wrong[p][s] \in Seq(Nat) /\ now \in Nat
        /\ EndOf(a, wrong[p][s], now)
        /\ Cardinality(Lookups(p, s)) \in Nat
        /\ Len(a) + Cardinality(Lookups(p, s)) <= MaxAttempts - 1 + Cardinality(Request)
    BY WindowFacts
  <1> DEFINE b == SubSeq(a, k + 1, Len(a))
  <1>4. EndOf(b, wrong[p][s], now) /\ b \in Seq(Nat) /\ Len(b) = Len(a) - k
    <2>1. \A i \in 1 .. k : now - a[i] > LoginWindow
      BY <1>1 DEF Lapsed
    <2> QED BY <1>3, <2>1, DropKeepsEnd
  <1> HIDE DEF b
  <1>5. attempts' = [attempts EXCEPT ![p][s] = b]
    BY <1>1 DEF b
  <1>6. attempts \in [Process -> [Source -> Seq(Nat)]]
    BY DEF WindowInv, WindowTypes
  <1>7. /\ attempts' \in [Process -> [Source -> Seq(Nat)]] /\ attempts'[p][s] = b
        /\ \A x \in Process, y \in Source :
             x # p \/ y # s => attempts'[x][y] = attempts[x][y]
    BY <1>4, <1>5, <1>6
  <1>8. f.step = "lookup" /\ f.proc = p /\ f.from = s
    OBVIOUS
  <1>9. /\ DOMAIN req' = Request
        /\ \A x \in Request \ {r} : req'[x] = req[x]
        /\ req'[r] = req[r] \/ (req'[r] = f /\ Len(a) - k < MaxAttempts)
    <2>1. DOMAIN req = Request /\ Len(a) \in Nat /\ k \in Nat /\ MaxAttempts \in Nat
      BY <1>3, Numbers DEF WindowInv, WindowTypes
    <2>2. CASE Len(a) - k >= MaxAttempts
      BY <1>1, <2>1, <2>2
    <2>3. CASE ~(Len(a) - k >= MaxAttempts)
      BY <1>1, <2>1, <2>3 DEF Goes
    <2> QED BY <2>2, <2>3
  <1> HIDE DEF f
  <1>10. WindowTypes'
    BY <1>2, <1>7, <1>8, <1>9 DEF WindowInv, WindowTypes
  <1>11. ASSUME NEW x \in Process, NEW y \in Source
         PROVE  /\ EndOf(attempts'[x][y], wrong'[x][y], now')
                /\ Len(attempts'[x][y]) + Cardinality(Lookups(x, y)')
                     <= MaxAttempts - 1 + Cardinality(Request)
                /\ Spread(wrong'[x][y])
    <2>1. /\ EndOf(attempts[x][y], wrong[x][y], now) /\ Spread(wrong[x][y])
          /\ attempts[x][y] \in Seq(Nat) /\ Cardinality(Lookups(x, y)) \in Nat
          /\ Len(attempts[x][y]) + Cardinality(Lookups(x, y))
               <= MaxAttempts - 1 + Cardinality(Request)
      BY WindowFacts
    <2>2. CASE x # p \/ y # s
      <3>1. Lookups(x, y)' \subseteq Lookups(x, y) /\ Lookups(x, y) \subseteq Request
        BY <1>8, <1>9, <2>2 DEF Lookups, At
      <3>2. /\ Cardinality(Lookups(x, y)') \in Nat
            /\ Cardinality(Lookups(x, y)') <= Cardinality(Lookups(x, y))
        BY <3>1, FewerLookups
      <3>3. Len(attempts[x][y]) \in Nat /\ attempts'[x][y] = attempts[x][y]
        BY <1>7, <2>1, <2>2
      <3> QED BY <1>2, <2>1, <3>2, <3>3, Numbers
    <2>3. CASE x = p /\ y = s
      <3>1. Len(a) \in Nat /\ k \in Nat /\ Len(b) = Len(a) - k /\ attempts'[x][y] = b
        BY <1>3, <1>4, <1>7, <2>3
      <3>2. CASE req'[r] = req[r]
        <4>1. Lookups(p, s)' \subseteq Lookups(p, s) /\ Lookups(p, s) \subseteq Request
          BY <1>9, <3>2 DEF Lookups, At
        <4>2. /\ Cardinality(Lookups(p, s)') \in Nat
              /\ Cardinality(Lookups(p, s)') <= Cardinality(Lookups(p, s))
          BY <4>1, FewerLookups
        <4>3. Len(b) + Cardinality(Lookups(p, s)') <= MaxAttempts - 1 + Cardinality(Request)
          BY <1>3, <3>1, <4>2, Numbers
        <4> QED BY <1>2, <1>4, <2>1, <2>3, <3>1, <4>3
      <3>3. CASE Len(a) - k < MaxAttempts
        <4>1. Lookups(p, s)' \subseteq Request
          BY DEF Lookups
        <4>2. /\ Cardinality(Lookups(p, s)') \in Nat
              /\ Cardinality(Lookups(p, s)') <= Cardinality(Request)
          BY <4>1, FewerLookups
        <4>3. Len(b) + Cardinality(Lookups(p, s)') <= MaxAttempts - 1 + Cardinality(Request)
          BY <3>1, <3>3, <4>2, Numbers
        <4> QED BY <1>2, <1>4, <2>1, <2>3, <3>1, <4>3
      <3> QED BY <1>9, <3>2, <3>3
    <2> QED BY <2>2, <2>3
  <1> QED BY <1>10, <1>11, WindowAfter

\* A wrong password is compared and counted, and its request is past the check no more.
LEMMA DenyKeepsWindow ==
  ASSUME WindowInv, NEW r \in Request, Deny(r)
  PROVE  WindowInv'
PROOF
  <1>0. PICK p \in Process, s \in Source : req[r].proc = p /\ req[r].from = s
    BY DEF Deny, At, WindowInv, WindowTypes
  <1> DEFINE a == attempts[p][s]
             w == wrong[p][s]
  <1>1. /\ req[r].step = "lookup" /\ now' = now
        /\ attempts' = [attempts EXCEPT ![p][s] = Append(a, now)]
        /\ wrong' = [wrong EXCEPT ![p][s] = Append(w, now)]
        /\ req' = [req EXCEPT ![r] = Idle]
    BY <1>0 DEF Deny, At, Count, Counted, Goes
  <1>2. /\ a \in Seq(Nat) /\ w \in Seq(Nat) /\ now \in Nat /\ EndOf(a, w, now)
        /\ Cardinality(Lookups(p, s)) \in Nat /\ Spread(w)
        /\ Len(a) + Cardinality(Lookups(p, s)) <= MaxAttempts - 1 + Cardinality(Request)
    BY <1>1, WindowFacts
  <1>3. /\ DOMAIN req' = Request /\ req'[r].step = "idle"
        /\ \A x \in Request \ {r} : req'[x] = req[x]
    BY <1>1 DEF Idle, WindowInv, WindowTypes
  <1>4. /\ attempts \in [Process -> [Source -> Seq(Nat)]]
        /\ wrong \in [Process -> [Source -> Seq(Nat)]]
    BY DEF WindowInv, WindowTypes
  <1>5. Append(a, now) \in Seq(Nat) /\ Append(w, now) \in Seq(Nat)
    BY <1>2
  <1>6. /\ attempts' \in [Process -> [Source -> Seq(Nat)]]
        /\ attempts'[p][s] = Append(a, now)
        /\ \A x \in Process, y \in Source :
             x # p \/ y # s => attempts'[x][y] = attempts[x][y]
    BY <1>1, <1>4, <1>5
  <1>7. /\ wrong' \in [Process -> [Source -> Seq(Nat)]]
        /\ wrong'[p][s] = Append(w, now)
        /\ \A x \in Process, y \in Source : x # p \/ y # s => wrong'[x][y] = wrong[x][y]
    BY <1>1, <1>4, <1>5
  <1>8. WindowTypes'
    BY <1>1, <1>3, <1>6, <1>7 DEF WindowInv, WindowTypes
  <1>9. /\ Lookups(p, s)' = Lookups(p, s) \ {r} /\ r \in Lookups(p, s)
        /\ Lookups(p, s) \subseteq Request
    BY <1>0, <1>1, <1>3 DEF Lookups, At
  <1>10. Cardinality(Lookups(p, s)') = Cardinality(Lookups(p, s)) - 1
    <2>1. IsFiniteSet(Lookups(p, s))
      BY <1>9, Numbers, FS_Subset
    <2> QED BY <1>9, <2>1, FS_RemoveElement
  <1>11. /\ Cardinality(Lookups(p, s)') \in Nat
         /\ Cardinality(Lookups(p, s)') <= Cardinality(Request)
    <2>1. Lookups(p, s)' \subseteq Request
      BY DEF Lookups
    <2> QED BY <2>1, FewerLookups
  <1> DEFINE b == Append(a, now)
             v == Append(w, now)
  <1>12. EndOf(b, v, now) /\ Len(b) = Len(a) + 1 /\ Len(a) \in Nat
    BY <1>2, AppendKeepsEnd
  <1>13. Spread(v)
    <2>1. Len(a) <= MaxAttempts + Cardinality(Request) - 2
      BY <1>2, <1>10, <1>11, <1>12, Numbers
    <2> QED BY <1>2, <2>1, AppendKeepsSpread
  <1>14. attempts'[p][s] = b /\ wrong'[p][s] = v /\ now' = now
    BY <1>1, <1>6, <1>7
  <1> HIDE DEF a, w, b, v
  <1>15. Len(b) + Cardinality(Lookups(p, s)') <= MaxAttempts - 1 + Cardinality(Request)
    BY <1>2, <1>10, <1>11, <1>12, Numbers
  <1>16. ASSUME NEW x \in Process, NEW y \in Source
         PROVE  /\ EndOf(attempts'[x][y], wrong'[x][y], now')
                /\ Len(attempts'[x][y]) + Cardinality(Lookups(x, y)')
                     <= MaxAttempts - 1 + Cardinality(Request)
                /\ Spread(wrong'[x][y])
    <2>1. CASE x = p /\ y = s
      <3>1. attempts'[x][y] = b /\ wrong'[x][y] = v /\ Lookups(x, y)' = Lookups(p, s)'
        BY <1>14, <2>1
      <3> QED BY <1>12, <1>13, <1>14, <1>15, <3>1
    <2>2. CASE x # p \/ y # s
      <3>1. /\ EndOf(attempts[x][y], wrong[x][y], now) /\ Spread(wrong[x][y])
            /\ attempts[x][y] \in Seq(Nat) /\ Cardinality(Lookups(x, y)) \in Nat
            /\ Len(attempts[x][y]) + Cardinality(Lookups(x, y))
                 <= MaxAttempts - 1 + Cardinality(Request)
        BY WindowFacts
      <3>2. Lookups(x, y)' \subseteq Lookups(x, y) /\ Lookups(x, y) \subseteq Request
        BY <1>3 DEF Lookups, At
      <3>3. /\ Cardinality(Lookups(x, y)') \in Nat
            /\ Cardinality(Lookups(x, y)') <= Cardinality(Lookups(x, y))
        BY <3>2, FewerLookups
      <3>4. /\ Len(attempts[x][y]) \in Nat /\ attempts'[x][y] = attempts[x][y]
            /\ wrong'[x][y] = wrong[x][y]
        BY <1>6, <1>7, <2>2, <3>1
      <3>5. Len(attempts[x][y]) + Cardinality(Lookups(x, y)')
              <= MaxAttempts - 1 + Cardinality(Request)
        BY <3>1, <3>3, <3>4, Numbers
      <3> QED BY <1>14, <3>1, <3>4, <3>5
    <2> QED BY <2>1, <2>2
  <1> QED BY <1>8, <1>16, WindowAfter

\* Where nothing is counted there is room for every request.
LEMMA EmptyFits ==
  ASSUME NEW t, NEW S, S \subseteq Request
  PROVE  /\ EndOf(<<>>, <<>>, t) /\ Spread(<<>>)
         /\ Len(<<>>) + Cardinality(S) <= MaxAttempts - 1 + Cardinality(Request)
PROOF
  <1>1. Len(<<>>) = 0
    OBVIOUS
  <1>2. EndOf(<<>>, <<>>, t) /\ Spread(<<>>)
    BY <1>1 DEF EndOf, Spread
  <1>3. Cardinality(S) \in Nat /\ Cardinality(S) <= Cardinality(Request)
    BY FewerLookups
  <1> QED BY <1>1, <1>2, <1>3, Numbers

\* A right password, or a restart, starts addresses afresh.
LEMMA AfreshKeepsWindow ==
  ASSUME WindowInv, WindowTypes', UNCHANGED now,
         \A p \in Process, s \in Source :
           \/ attempts'[p][s] = <<>> /\ wrong'[p][s] = <<>>
           \/ /\ attempts'[p][s] = attempts[p][s] /\ wrong'[p][s] = wrong[p][s]
              /\ Lookups(p, s)' \subseteq Lookups(p, s)
  PROVE  WindowInv'
PROOF
  <1> SUFFICES ASSUME NEW x \in Process, NEW y \in Source
               PROVE  /\ EndOf(attempts'[x][y], wrong'[x][y], now')
                      /\ Len(attempts'[x][y]) + Cardinality(Lookups(x, y)')
                           <= MaxAttempts - 1 + Cardinality(Request)
                      /\ Spread(wrong'[x][y])
    BY WindowAfter
  <1>1. CASE attempts'[x][y] = <<>> /\ wrong'[x][y] = <<>>
    <2>1. Lookups(x, y)' \subseteq Request
      BY DEF Lookups
    <2> QED BY <1>1, <2>1, EmptyFits
  <1>2. CASE /\ attempts'[x][y] = attempts[x][y] /\ wrong'[x][y] = wrong[x][y]
             /\ Lookups(x, y)' \subseteq Lookups(x, y)
    <2>1. /\ EndOf(attempts[x][y], wrong[x][y], now) /\ Spread(wrong[x][y])
          /\ attempts[x][y] \in Seq(Nat) /\ Cardinality(Lookups(x, y)) \in Nat
          /\ Lookups(x, y) \subseteq Request
          /\ Len(attempts[x][y]) + Cardinality(Lookups(x, y))
               <= MaxAttempts - 1 + Cardinality(Request)
      BY WindowFacts
    <2>2. /\ Cardinality(Lookups(x, y)') \in Nat
          /\ Cardinality(Lookups(x, y)') <= Cardinality(Lookups(x, y))
      BY <1>2, <2>1, FewerLookups
    <2>3. Len(attempts[x][y]) \in Nat
      BY <2>1
    <2> QED BY <1>2, <2>1, <2>2, <2>3, Numbers
  <1> QED BY <1>1, <1>2

\* The address of a right password counts nothing.
LEMMA StampKeepsWindow ==
  ASSUME WindowInv, NEW r \in Request, Stamp(r)
  PROVE  WindowInv'
PROOF
  <1> DEFINE p == req[r].proc
             s == req[r].from
  <1>1. /\ req[r].step = "stamp" /\ p \in Process /\ s \in Source /\ UNCHANGED now
        /\ attempts' = [attempts EXCEPT ![p][s] = <<>>]
        /\ wrong' = [wrong EXCEPT ![p][s] = <<>>]
        /\ req' = [req EXCEPT ![r] = Idle]
    BY DEF Stamp, At, Count, Goes, WindowInv, WindowTypes
  <1> HIDE DEF p, s
  <1>2. /\ DOMAIN req' = Request /\ req'[r].step = "idle"
        /\ \A x \in Request \ {r} : req'[x] = req[x]
    BY <1>1 DEF Idle, WindowInv, WindowTypes
  <1>3. <<>> \in Seq(Nat)
    OBVIOUS
  <1>4. /\ attempts \in [Process -> [Source -> Seq(Nat)]]
        /\ wrong \in [Process -> [Source -> Seq(Nat)]]
    BY DEF WindowInv, WindowTypes
  <1>5. /\ attempts' \in [Process -> [Source -> Seq(Nat)]]
        /\ wrong' \in [Process -> [Source -> Seq(Nat)]]
        /\ attempts'[p][s] = <<>> /\ wrong'[p][s] = <<>>
        /\ \A x \in Process, y \in Source : x # p \/ y # s =>
             attempts'[x][y] = attempts[x][y] /\ wrong'[x][y] = wrong[x][y]
    BY <1>1, <1>3, <1>4
  <1>6. WindowTypes'
    BY <1>1, <1>2, <1>5 DEF WindowInv, WindowTypes
  <1>7. \A x \in Process, y \in Source : Lookups(x, y)' \subseteq Lookups(x, y)
    BY <1>2 DEF Lookups, At
  <1> QED BY <1>1, <1>5, <1>6, <1>7, AfreshKeepsWindow

\* A process that starts anew counts nothing.
LEMMA RestartKeepsWindow ==
  ASSUME WindowInv, NEW p \in Process, Restart(p)
  PROVE  WindowInv'
PROOF
  <1>1. /\ UNCHANGED now /\ DOMAIN req' = Request
        /\ \A x \in Request : req'[x] = req[x] \/ req'[x].step = "idle"
        /\ attempts' = [attempts EXCEPT ![p] = [s \in Source |-> <<>>]]
        /\ wrong' = [wrong EXCEPT ![p] = [s \in Source |-> <<>>]]
    BY DEF Restart, Idle
  <1>2. [s \in Source |-> <<>>] \in [Source -> Seq(Nat)]
    OBVIOUS
  <1>3. /\ attempts \in [Process -> [Source -> Seq(Nat)]]
        /\ wrong \in [Process -> [Source -> Seq(Nat)]]
    BY DEF WindowInv, WindowTypes
  <1>4. /\ attempts' \in [Process -> [Source -> Seq(Nat)]]
        /\ wrong' \in [Process -> [Source -> Seq(Nat)]]
        /\ \A x \in Process, y \in Source :
             IF x = p THEN attempts'[x][y] = <<>> /\ wrong'[x][y] = <<>>
             ELSE attempts'[x][y] = attempts[x][y] /\ wrong'[x][y] = wrong[x][y]
    BY <1>1, <1>2, <1>3
  <1>5. WindowTypes'
    BY <1>1, <1>4 DEF WindowInv, WindowTypes
  <1>6. \A x \in Process, y \in Source : Lookups(x, y)' \subseteq Lookups(x, y)
    BY <1>1 DEF Lookups, At
  <1> QED BY <1>1, <1>4, <1>5, <1>6, AfreshKeepsWindow

\* The other steps of a request pass no check and count nothing.
LEMMA OthersKeepWindow ==
  ASSUME WindowInv, NEW r \in Request,
         \/ Raise(r) \/ Accept(r) \/ Fail(r)
         \/ \E p \in Process, l \in 1 .. Len(logins) : Callback(r, p, l)
         \/ \E n \in Name : Exchange(r, n)
         \/ Verify(r) \/ Answer(r) \/ Store(r) \/ Find(r) \/ Insert(r) \/ Grant(r)
  PROVE  WindowInv'
PROOF
  <1>1. UNCHANGED <<attempts, wrong, now>>
    BY DEF Raise, Accept, Fail, Callback, Exchange, Verify, Answer, Store, Find, Insert, Grant
  <1>2. \E q : Goes(r, q) /\ q.step # "lookup"
               /\ (q.step = "stamp" => q.proc \in Process /\ q.from \in Source)
    <2>1. CASE Raise(r) \/ Fail(r) \/ Grant(r)
      BY <2>1 DEF Raise, Fail, Grant, Idle
    <2>2. CASE Accept(r)
      <3> DEFINE f == [req[r] EXCEPT !.step = "stamp"]
      <3>1. /\ req[r].step = "lookup" /\ req[r].proc \in Process /\ req[r].from \in Source
            /\ Goes(r, f)
        BY <2>2 DEF Accept, At, WindowInv, WindowTypes
      <3>2. f.proc = req[r].proc /\ f.from = req[r].from
        OBVIOUS
      <3>3. f.step # "lookup"
        <4>1. CASE "step" \in DOMAIN req[r]
          BY <4>1
        <4>2. CASE "step" \notin DOMAIN req[r]
          BY <4>2, <3>1
        <4> QED BY <4>1, <4>2
      <3> HIDE DEF f
      <3> QED BY <3>1, <3>2, <3>3
    <2>3. CASE \E p \in Process, l \in 1 .. Len(logins) : Callback(r, p, l)
      <3>1. \E q : Goes(r, q) /\ q.step = "exchange"
        BY <2>3 DEF Callback
      <3> QED BY <3>1
    <2>4. CASE \E n \in Name : Exchange(r, n)
      <3>1. \E q : Goes(r, q) /\ q.step = "signed"
        BY <2>4 DEF Exchange
      <3> QED BY <3>1
    <2>5. CASE Verify(r) \/ Store(r)
      <3>1. \E q : Goes(r, q) /\ q.step \in {"find", "refused", "idle", "fetch"}
        BY <2>5, JudgedShape DEF Verify, Store
      <3> QED BY <3>1
    <2>6. CASE Answer(r) \/ Find(r)
      <3>1. CASE Answer(r)
        <4>1. \E q : Goes(r, q) /\ q.step = "fetched"
          BY <3>1 DEF Answer
        <4> QED BY <4>1
      <3>2. CASE Find(r)
        <4>1. \E q : Goes(r, q) /\ q.step \in {"insert", "found"}
          BY <3>2 DEF Find
        <4> QED BY <4>1
      <3> QED BY <2>6, <3>1, <3>2
    <2>7. CASE Insert(r)
      <3> DEFINE u == [name |-> req[r].name, person |-> logins[req[r].login].person,
                       how |-> "sso"]
                 f == [req[r] EXCEPT !.step = "inserted", !.row = u]
      <3>1. req[r].step = "insert" /\ (Goes(r, Idle) \/ Goes(r, f))
        BY <2>7 DEF Insert, At
      <3>2. f.step \in {"insert", "inserted"} /\ Idle.step = "idle"
        BY <3>1 DEF Idle
      <3> HIDE DEF f
      <3> QED BY <3>1, <3>2
    <2> QED BY <2>1, <2>2, <2>3, <2>4, <2>5, <2>6, <2>7
  <1> QED BY <1>1, <1>2, RequestEndsKeepsWindow

\* Every step keeps the deque the end of the history and the requests countable.
LEMMA WindowStep == WindowInv /\ [Next]_vars => WindowInv'
PROOF
  <1> SUFFICES ASSUME WindowInv, [Next]_vars PROVE WindowInv'
    OBVIOUS
  <1>1. ASSUME NEW r \in Request,
               \/ \E p \in Process, s \in Source, n \in Name : Attempt(r, p, s, n)
               \/ Deny(r) \/ Stamp(r)
        PROVE  WindowInv'
    BY <1>1, AttemptKeepsWindow, DenyKeepsWindow, StampKeepsWindow
  <1>2. ASSUME NEW r \in Request,
               \/ Raise(r) \/ Accept(r) \/ Fail(r)
               \/ \E p \in Process, l \in 1 .. Len(logins) : Callback(r, p, l)
               \/ \E n \in Name : Exchange(r, n)
               \/ Verify(r) \/ Answer(r) \/ Store(r) \/ Find(r) \/ Insert(r) \/ Grant(r)
        PROVE  WindowInv'
    BY <1>2, OthersKeepWindow
  <1>3. CASE \/ \E b \in Browser : Logout(b) \/ Expire(b) \/ \E e \in Person : SsoLogin(b, e)
             \/ \E u \in User : CreateUser(u)
             \/ Rotate \/ Tick \/ UNCHANGED vars
    <2>1. /\ UNCHANGED <<attempts, wrong, req>> /\ now' \in {now, now + 1}
      BY <1>3 DEF Logout, Expire, SsoLogin, CreateUser, Rotate, Tick, vars
    <2>2. now' \in Nat /\ now' >= now
      BY <2>1 DEF WindowInv, WindowTypes
    <2>3. WindowTypes' /\ \A p \in Process, s \in Source : Lookups(p, s)' \subseteq Lookups(p, s)
      BY <2>1, <2>2 DEF WindowInv, WindowTypes, Lookups, At
    <2> QED BY <2>1, <2>2, <2>3, WindowKept
  <1>4. ASSUME NEW p \in Process, Restart(p)
        PROVE  WindowInv'
    BY <1>4, RestartKeepsWindow
  <1> QED BY <1>1, <1>2, <1>3, <1>4 DEF Next

\* Initially nothing was compared or counted.
LEMMA WindowInit == Init => WindowInv
PROOF
  <1> SUFFICES ASSUME Init PROVE WindowInv
    OBVIOUS
  <1>1. <<>> \in Seq(Nat)
    OBVIOUS
  <1>2. WindowTypes
    BY <1>1 DEF Init, WindowTypes, Idle
  <1>3. ASSUME NEW p \in Process, NEW s \in Source
        PROVE  /\ EndOf(attempts[p][s], wrong[p][s], now)
               /\ Len(attempts[p][s]) + Cardinality(Lookups(p, s))
                    <= MaxAttempts - 1 + Cardinality(Request)
               /\ Spread(wrong[p][s])
    <2>1. attempts[p][s] = <<>> /\ wrong[p][s] = <<>> /\ Lookups(p, s) \subseteq Request
      BY DEF Init, Lookups
    <2> QED BY <2>1, EmptyFits
  <1> QED BY <1>2, <1>3 DEF WindowInv, WindowHolds, Spread

\* In no window does a process compare as many wrong passwords from one address as
\* MaxAttempts and all its requests together.
THEOREM OvershootIsBounded == Spec => []WindowHolds
PROOF
  <1>1. WindowInv => WindowHolds
    BY DEF WindowInv
  <1> QED BY <1>1, WindowInit, WindowStep, PTL DEF Spec
----------------------------------------------------------------------------
\* Types

\* What a request carries, step by step.
LEMMA RequestShape ==
  ASSUME NEW q \in RequestState
  PROVE  /\ q.step \in {"lookup", "stamp"} =>
              q \in [step: {"lookup", "stamp"}, since: {0}, proc: Process, from: Source,
                     name: Name]
         /\ q.step \in {"exchange", "signed", "fetch", "fetched", "find", "insert", "found",
                        "inserted"} => q.login \in Nat /\ q.proc \in Process
         /\ q.step \in {"exchange", "signed", "fetch", "fetched"} => q.since \in Nat
         /\ q.step \in {"signed", "fetch", "fetched"} => q.name \in Name /\ q.key \in Key
         /\ q.step \in {"fetch", "fetched"} => q.forced \in BOOLEAN
         /\ q.step = "fetched" => q.doc \in Seq(Key)
         /\ q.step = "find" => q.name \in Name
         /\ q.step = "insert" =>
              q \in [step: {"insert"}, since: {0}, proc: Process, login: Nat, name: Name,
                     row: {NoUser}]
         /\ q.step \in {"found", "inserted"} => q.row \in User
BY DEF RequestState

\* A request moved to one of its states.
LEMMA MovesTyped ==
  ASSUME TypeOK, NEW r \in Request, NEW q \in RequestState, Goes(r, q)
  PROVE  req' \in [Request -> RequestState]
BY DEF TypeOK, Goes

\* What may still happen stays a number of each thing.
LEMMA SpendTyped ==
  ASSUME left \in Allowance,
         NEW what \in {"attempts", "logins", "rotations", "accidents", "ticks"}, Spend(what)
  PROVE  left' \in Allowance
<1>1. left[what] \in Nat /\ left[what] > 0 /\ left' = [left EXCEPT ![what] = left[what] - 1]
  BY DEF Allowance, Spend
<1>2. left[what] - 1 \in Nat
  BY <1>1
<1> QED
  BY <1>1, <1>2 DEF Allowance

\* A process and an address are given another deque or history.
LEMMA CountTyped ==
  ASSUME TypeOK, NEW r \in Request, req[r].proc \in Process, req[r].from \in Source,
         NEW f \in [Process -> [Source -> Seq(Nat)]], NEW s \in Seq(Nat)
  PROVE  /\ Count(r, f, s) \in [Process -> [Source -> Seq(Nat)]]
         /\ Counted(r, f) \in Seq(Nat)
BY DEF Count, Counted

\* The initial state is one of the types.
LEMMA InitTyped == Init => TypeOK
<1> SUFFICES ASSUME Init PROVE TypeOK
  OBVIOUS
<1>1. now \in Nat /\ rotatedAt \in Int /\ users \subseteq User /\ left \in Allowance
  BY SignInAssumption DEF Init
<1>2. /\ attempts \in [Process -> [Source -> Seq(Nat)]]
      /\ wrong \in [Process -> [Source -> Seq(Nat)]]
  BY DEF Init
<1>3. jwks \in [Process -> [held: BOOLEAN, at: Nat, doc: Seq(Key)]]
  <2>1. NoJwks \in [held: BOOLEAN, at: Nat, doc: Seq(Key)]
    BY DEF NoJwks
  <2> QED
    BY <2>1 DEF Init
<1>4. idp \in Seq(Key) /\ Len(idp) \in 1 .. Keep
  BY SignInAssumption DEF Init, Key
<1>5. logins \in Seq(Login)
  BY DEF Init
<1>6. browser \in [Browser -> [cookie: [login: Nat, at: Nat],
                              session: User \cup {NoUser}, login: Nat]]
  BY DEF Init, NoCookie
<1>7. req \in [Request -> RequestState]
  BY DEF Init, Idle, RequestState
<1> QED
  BY <1>1, <1>2, <1>3, <1>4, <1>5, <1>6, <1>7 DEF TypeOK

\* A password: a deque and a history are times, and a request carries what it asks.
LEMMA PasswordTyped ==
  ASSUME TypeOK, NEW r \in Request,
         \/ \E p \in Process, s \in Source, n \in Name : Attempt(r, p, s, n)
         \/ Deny(r) \/ Raise(r) \/ Accept(r) \/ Stamp(r) \/ Fail(r)
  PROVE  TypeOK'
<1>1. /\ req[r] \in RequestState /\ now \in Nat /\ left \in Allowance
      /\ attempts \in [Process -> [Source -> Seq(Nat)]]
      /\ wrong \in [Process -> [Source -> Seq(Nat)]]
  BY DEF TypeOK
<1>2. Idle \in RequestState
  BY DEF Idle, RequestState
<1>3. ASSUME NEW p \in Process, NEW s \in Source, NEW n \in Name, Attempt(r, p, s, n)
      PROVE  TypeOK'
  <2> DEFINE q    == attempts[p][s]
             asks == [step |-> "lookup", since |-> 0, proc |-> p, from |-> s, name |-> n]
  <2>1. PICK k \in 0 .. Len(q) :
          /\ attempts' = [attempts EXCEPT ![p][s] = SubSeq(q, k + 1, Len(q))]
          /\ req' = req \/ Goes(r, asks)
    BY <1>3 DEF Attempt
  <2>2. q \in Seq(Nat)
    BY <1>1
  <2>3. SubSeq(q, k + 1, Len(q)) \in Seq(Nat)
    BY <2>2
  <2>4. attempts' \in [Process -> [Source -> Seq(Nat)]]
    BY <1>1, <2>1, <2>3
  <2>5. asks \in RequestState
    BY DEF RequestState
  <2>6. req' \in [Request -> RequestState]
    BY <2>1, <2>5, MovesTyped DEF TypeOK
  <2>7. left' \in Allowance
    BY <1>1, <1>3, SpendTyped DEF Attempt
  <2> QED
    BY <1>3, <2>4, <2>6, <2>7 DEF Attempt, TypeOK, provider
<1>4. CASE Deny(r) \/ Stamp(r)
  <2>1. req[r].proc \in Process /\ req[r].from \in Source
    BY <1>1, <1>4, RequestShape DEF Deny, Stamp, At
  <2>2. /\ Append(Counted(r, attempts), now) \in Seq(Nat)
        /\ Append(Counted(r, wrong), now) \in Seq(Nat) /\ <<>> \in Seq(Nat)
    BY <1>1, <2>1 DEF Counted
  <2>3. /\ attempts' \in [Process -> [Source -> Seq(Nat)]]
        /\ wrong' \in [Process -> [Source -> Seq(Nat)]]
    <3>1. CASE Deny(r)
      BY <1>1, <2>1, <2>2, <3>1, CountTyped DEF Deny
    <3>2. CASE Stamp(r)
      BY <1>1, <2>1, <2>2, <3>2, CountTyped DEF Stamp
    <3> QED
      BY <1>4, <3>1, <3>2
  <2>4. req' \in [Request -> RequestState]
    BY <1>2, <1>4, MovesTyped DEF Deny, Stamp
  <2> QED
    BY <1>4, <2>3, <2>4 DEF Deny, Stamp, TypeOK, provider
<1>5. CASE Raise(r) \/ Accept(r) \/ Fail(r)
  <2>1. Accept(r) => [req[r] EXCEPT !.step = "stamp"] \in RequestState
    <3>1. Accept(r) => req[r] \in [step: {"lookup", "stamp"}, since: {0}, proc: Process,
                                   from: Source, name: Name]
      BY <1>1, RequestShape DEF Accept, At
    <3> QED
      BY <3>1 DEF RequestState
  <2>2. req' \in [Request -> RequestState]
    BY <1>2, <1>5, <2>1, MovesTyped DEF Raise, Accept, Fail
  <2> QED
    BY <1>5, <2>2 DEF Raise, Accept, Fail, TypeOK, provider
<1> QED
  BY <1>3, <1>4, <1>5

\* What verifying makes of a token is one of a request's states.
LEMMA JudgedTyped ==
  ASSUME TypeOK, NEW q \in RequestState, q.step \in {"signed", "fetched"}, NEW doc
  PROVE  Judged(q, doc) \in RequestState
<1>1. /\ q.proc \in Process /\ q.login \in Nat /\ q.name \in Name /\ q.key \in Key
      /\ now \in Nat
  BY RequestShape DEF TypeOK
<1>2. [step |-> "find", since |-> 0, proc |-> q.proc, login |-> q.login, name |-> q.name]
        \in RequestState
  BY <1>1 DEF RequestState
<1>3. [step |-> "refused", since |-> now] \in RequestState /\ Idle \in RequestState
  BY <1>1 DEF RequestState, Idle
<1>4. [step |-> "fetch", since |-> now, proc |-> q.proc, login |-> q.login, name |-> q.name,
       key |-> q.key, forced |-> TRUE] \in RequestState
  BY <1>1 DEF RequestState
<1> QED
  BY <1>2, <1>3, <1>4 DEF Judged

\* A request that keeps its login on its way moves within the types.
LEMMA ProviderTyped ==
  ASSUME TypeOK, NEW r \in Request,
         \/ \E p \in Process, l \in 1 .. Len(logins) : Callback(r, p, l)
         \/ Verify(r) \/ Answer(r) \/ Store(r)
  PROVE  TypeOK'
<1>1. /\ req[r] \in RequestState /\ now \in Nat /\ idp \in Seq(Key)
      /\ jwks \in [Process -> [held: BOOLEAN, at: Nat, doc: Seq(Key)]]
      /\ logins \in Seq(Login)
  BY DEF TypeOK
<1>2. ASSUME NEW p \in Process, NEW l \in 1 .. Len(logins), Callback(r, p, l)
      PROVE  TypeOK'
  <2>1. [step |-> "exchange", since |-> now, proc |-> p, login |-> l] \in RequestState
    BY <1>1 DEF RequestState
  <2>2. req' \in [Request -> RequestState]
    BY <1>2, <2>1, MovesTyped DEF Callback
  <2> QED
    BY <1>2, <2>2 DEF Callback, TypeOK, provider
<1>3. CASE Verify(r)
  <2> DEFINE q    == req[r]
             asks == [step |-> "fetch", since |-> now, proc |-> q.proc, login |-> q.login,
                      name |-> q.name, key |-> q.key, forced |-> FALSE]
  <2>1. q.step = "signed" /\ (Goes(r, Judged(q, jwks[q.proc].doc)) \/ Goes(r, asks))
    BY <1>3 DEF Verify, At
  <2>2. asks \in RequestState
    BY <1>1, <2>1, RequestShape DEF RequestState
  <2>3. req' \in [Request -> RequestState]
    BY <1>1, <2>1, <2>2, JudgedTyped, MovesTyped
  <2> QED
    BY <1>3, <2>3 DEF Verify, TypeOK, provider
<1>4. CASE Answer(r)
  <2> DEFINE q       == req[r]
             has(doc) == [step |-> "fetched", since |-> q.since, proc |-> q.proc,
                          login |-> q.login, name |-> q.name, key |-> q.key,
                          forced |-> q.forced, doc |-> doc]
  <2>1. q.step = "fetch" /\ \E doc \in {idp, <<>>} : Goes(r, has(doc))
    BY <1>4 DEF Answer, At
  <2>2. \A doc \in {idp, <<>>} : doc \in Seq(Key)
    <3>1. <<>> \in Seq(Key)
      OBVIOUS
    <3> QED
      BY <1>1, <3>1, Zenon
  <2>3. PICK doc \in Seq(Key) : Goes(r, has(doc))
    BY <2>1, <2>2, Zenon
  <2>4. /\ q.since \in Nat /\ q.proc \in Process /\ q.login \in Nat /\ q.name \in Name
        /\ q.key \in Key /\ q.forced \in BOOLEAN
    BY <1>1, <2>1, RequestShape
  <2>5. has(doc) \in RequestState
    BY <2>4 DEF RequestState
  <2>6. req' \in [Request -> RequestState]
    BY <2>3, <2>5, MovesTyped
  <2> QED
    BY <1>4, <2>6 DEF Answer, TypeOK, provider
<1>5. CASE Store(r)
  <2> DEFINE q == req[r]
  <2>1. /\ q.step = "fetched" /\ Goes(r, Judged(q, q.doc))
        /\ jwks' = [jwks EXCEPT ![q.proc] = [held |-> TRUE, at |-> now, doc |-> q.doc]]
    BY <1>5 DEF Store, At
  <2>2. q.doc \in Seq(Key)
    BY <1>1, <2>1, RequestShape
  <2>3. jwks' \in [Process -> [held: BOOLEAN, at: Nat, doc: Seq(Key)]]
    BY <1>1, <2>1, <2>2
  <2>4. req' \in [Request -> RequestState]
    BY <1>1, <2>1, JudgedTyped, MovesTyped
  <2> QED
    BY <1>5, <2>3, <2>4 DEF Store, TypeOK, provider
<1> QED
  BY <1>2, <1>3, <1>4, <1>5

\* Looking for a user, and inserting one: the row carried is a user's, or none.
LEMMA RowsTyped ==
  ASSUME TypeOK, SessionInv, NEW r \in Request, Find(r) \/ Insert(r)
  PROVE  TypeOK'
<1> DEFINE q == req[r]
<1>1. q \in RequestState /\ users \subseteq User /\ logins \in Seq(Login)
  BY DEF TypeOK
<1>2. q.step \in {"find", "insert"}
  BY DEF Find, Insert, At
<1>3. /\ q.login \in 1 .. Len(logins) /\ q.login \in Nat /\ q.proc \in Process
      /\ q.name \in Name
  BY <1>1, <1>2, RequestShape DEF SessionInv, ByProvider
<1>4. logins[q.login].person \in Person
  <2>1. logins[q.login] \in Login
    BY <1>1, <1>3
  <2> QED
    BY <2>1 DEF Login
<1>5. CASE Find(r)
  <2> DEFINE same    == {u \in users : u.person = logins[q.login].person}
             has(u)  == [step |-> IF u = NoUser THEN "insert" ELSE "found", since |-> 0,
                         login |-> q.login, proc |-> q.proc, name |-> q.name, row |-> u]
  <2>1. \E u \in IF same = {} THEN {NoUser} ELSE same : Goes(r, has(u))
    BY <1>5 DEF Find
  <2>2. \A u \in IF same = {} THEN {NoUser} ELSE same : u \in User \cup {NoUser}
    BY <1>1
  <2>3. PICK u \in User \cup {NoUser} : Goes(r, has(u))
    BY <2>1, <2>2, Zenon
  <2>4. has(u) \in RequestState
    BY <1>3 DEF RequestState
  <2>5. req' \in [Request -> RequestState]
    BY <2>3, <2>4, MovesTyped
  <2> QED
    BY <1>5, <2>5 DEF Find, TypeOK, provider
<1>6. CASE Insert(r)
  <2> DEFINE u    == [name |-> q.name, person |-> logins[q.login].person, how |-> "sso"]
             asks == [q EXCEPT !.step = "inserted", !.row = u]
  <2>1. q.step = "insert" /\ (Goes(r, Idle) \/ Goes(r, asks))
    BY <1>6 DEF Insert, At
  <2>2. u \in User
    BY <1>3, <1>4 DEF User
  <2>3. asks \in RequestState
    <3>1. q \in [step: {"insert"}, since: {0}, proc: Process, login: Nat, name: Name,
                 row: {NoUser}]
      BY <1>1, <2>1, RequestShape
    <3> HIDE DEF q, u
    <3> QED
      BY <2>2, <3>1 DEF RequestState
  <2>4. Idle \in RequestState
    BY DEF Idle, RequestState
  <2>5. req' \in [Request -> RequestState]
    BY <2>1, <2>3, <2>4, MovesTyped
  <2> QED
    BY <1>6, <2>5 DEF Insert, TypeOK, provider
<1> QED
  BY <1>5, <1>6

\* A login is begun, redeemed, and ends in a session of the user it found.
LEMMA LoginsTyped ==
  ASSUME TypeOK, SessionInv,
         \/ \E r \in Request : (\E n \in Name : Exchange(r, n)) \/ Grant(r)
         \/ \E b \in Browser : Logout(b) \/ Expire(b) \/ \E e \in Person : SsoLogin(b, e)
  PROVE  TypeOK'
<1> DEFINE Held == [cookie: [login: Nat, at: Nat], session: User \cup {NoUser}, login: Nat]
<1>1. /\ users \subseteq User /\ logins \in Seq(Login) /\ now \in Nat /\ left \in Allowance
      /\ browser \in [Browser -> Held] /\ req \in [Request -> RequestState]
      /\ idp \in Seq(Key) /\ Len(idp) \in 1 .. Keep
  BY DEF TypeOK
<1>2. ASSUME NEW w \in Held, NEW b, browser' = [browser EXCEPT ![b] = w]
      PROVE  browser' \in [Browser -> Held]
  BY <1>1, <1>2
<1>3. NoCookie \in [login: Nat, at: Nat]
  BY DEF NoCookie
<1>4. ASSUME NEW r \in Request, NEW n \in Name, Exchange(r, n)
      PROVE  TypeOK'
  <2> DEFINE l == req[r].login
             q == [step |-> "signed", since |-> req[r].since, proc |-> req[r].proc,
                   login |-> l, name |-> n, key |-> Head(idp)]
  <2>1. /\ req[r].step = "exchange" /\ Goes(r, q)
        /\ logins' = [logins EXCEPT ![l].redeemed = TRUE]
    BY <1>4 DEF Exchange, At
  <2>2. l \in 1 .. Len(logins)
    BY <2>1 DEF SessionInv, ByProvider
  <2>3. logins' \in Seq(Login)
    <3>1. logins[l] \in Login
      BY <1>1, <2>2
    <3>2. [logins[l] EXCEPT !.redeemed = TRUE] \in Login
      BY <3>1 DEF Login
    <3>3. logins' = [logins EXCEPT ![l] = [logins[l] EXCEPT !.redeemed = TRUE]]
      BY <2>1
    <3> QED
      BY <1>1, <2>2, <3>2, <3>3
  <2>4. q \in RequestState
    <3>1. Head(idp) \in Key
      BY <1>1
    <3>2. req[r].since \in Nat /\ req[r].proc \in Process /\ l \in Nat
      BY <1>1, <2>1, RequestShape
    <3> QED
      BY <3>1, <3>2 DEF RequestState
  <2>5. req' \in [Request -> RequestState]
    BY <2>1, <2>4, MovesTyped
  <2> QED
    BY <1>4, <2>3, <2>5 DEF Exchange, TypeOK, provider
<1>5. ASSUME NEW r \in Request, Grant(r)
      PROVE  TypeOK'
  <2> DEFINE q == req[r]
             w == [cookie |-> NoCookie, session |-> q.row, login |-> q.login]
  <2>1. /\ q.step \in {"found", "inserted"} /\ Goes(r, Idle) /\ users' = users \cup {q.row}
        /\ browser' = [browser EXCEPT ![logins[q.login].browser] = w]
    BY <1>5 DEF Grant, At
  <2>2. q.row \in User /\ q.login \in Nat
    BY <1>1, <2>1, RequestShape
  <2>3. w \in Held
    BY <1>3, <2>2
  <2>4. browser' \in [Browser -> Held]
    BY <1>2, <2>1, <2>3
  <2>5. users' \subseteq User
    BY <1>1, <2>1, <2>2
  <2>6. req' \in [Request -> RequestState]
    <3>1. Idle \in RequestState
      BY DEF Idle, RequestState
    <3> QED
      BY <2>1, <3>1, MovesTyped
  <2> QED
    BY <1>5, <2>4, <2>5, <2>6 DEF Grant, TypeOK, provider
<1>6. ASSUME NEW b \in Browser, Logout(b) \/ Expire(b)
      PROVE  TypeOK'
  <2>1. left' \in Allowance
    BY <1>1, <1>6, SpendTyped DEF Logout, Expire
  <2>2. browser' \in [Browser -> Held]
    <3>1. CASE Logout(b)
      BY <1>2, <1>3, <3>1 DEF Logout
    <3>2. CASE Expire(b)
      BY <1>1, <3>2 DEF Expire
    <3> QED
      BY <1>6, <3>1, <3>2
  <2> QED
    BY <1>6, <2>1, <2>2 DEF Logout, Expire, TypeOK, provider
<1>7. ASSUME NEW b \in Browser, NEW e \in Person, SsoLogin(b, e)
      PROVE  TypeOK'
  <2>1. left' \in Allowance
    BY <1>1, <1>7, SpendTyped DEF SsoLogin
  <2>2. logins' \in Seq(Login) /\ Len(logins') \in Nat
    BY <1>1, <1>7 DEF SsoLogin, Login
  <2>3. browser' \in [Browser -> Held]
    <3> DEFINE given == [login |-> Len(logins'), at |-> now]
    <3>1. given \in [login: Nat, at: Nat] /\ browser[b] \in Held
      BY <1>1, <2>2
    <3>2. browser' = [browser EXCEPT ![b] = [browser[b] EXCEPT !.cookie = given]]
      BY <1>7 DEF SsoLogin
    <3> HIDE DEF given
    <3>3. [browser[b] EXCEPT !.cookie = given] \in Held
      BY <3>1
    <3> HIDE DEF Held
    <3> QED
      BY <1>2, <3>2, <3>3
  <2> QED
    BY <1>7, <2>1, <2>2, <2>3 DEF SsoLogin, TypeOK, provider
<1> QED
  BY <1>4, <1>5, <1>6, <1>7

\* Users, accidents, the provider's keys and time.
LEMMA AccidentsTyped ==
  ASSUME TypeOK,
         \/ \E u \in User : CreateUser(u)
         \/ \E p \in Process : Restart(p)
         \/ Rotate \/ Tick
  PROVE  TypeOK'
<1>1. /\ now \in Nat /\ left \in Allowance /\ idp \in Seq(Key) /\ Len(idp) \in 1 .. Keep
      /\ users \subseteq User /\ req \in [Request -> RequestState]
      /\ attempts \in [Process -> [Source -> Seq(Nat)]]
      /\ wrong \in [Process -> [Source -> Seq(Nat)]]
      /\ jwks \in [Process -> [held: BOOLEAN, at: Nat, doc: Seq(Key)]]
  BY DEF TypeOK
<1>2. left' \in Allowance
  BY <1>1, SpendTyped DEF CreateUser, Restart, Rotate, Tick
<1>3. ASSUME NEW u \in User, CreateUser(u)
      PROVE  TypeOK'
  BY <1>2, <1>3 DEF CreateUser, TypeOK, provider
<1>4. ASSUME NEW p \in Process, Restart(p)
      PROVE  TypeOK'
  <2>1. /\ attempts' \in [Process -> [Source -> Seq(Nat)]]
        /\ wrong' \in [Process -> [Source -> Seq(Nat)]]
    BY <1>1, <1>4 DEF Restart
  <2>2. jwks' \in [Process -> [held: BOOLEAN, at: Nat, doc: Seq(Key)]]
    BY <1>1, <1>4 DEF Restart, NoJwks
  <2>3. req' \in [Request -> RequestState]
    <3>1. Idle \in RequestState
      BY DEF Idle, RequestState
    <3> QED
      BY <1>1, <1>4, <3>1 DEF Restart
  <2> QED
    BY <1>2, <1>4, <2>1, <2>2, <2>3 DEF Restart, TypeOK, provider
<1>5. CASE Rotate
  <2> DEFINE all == <<idp[1] + 1>> \o idp
  <2>1. Keep \in Nat \ {0} /\ idp[1] \in Key
    BY <1>1, SignInAssumption
  <2>2. all \in Seq(Key) /\ Len(all) = Len(idp) + 1
    BY <1>1, <2>1 DEF Key
  <2>3. idp' = IF Len(all) <= Keep THEN all ELSE SubSeq(all, 1, Keep)
    BY <1>5 DEF Rotate
  <2> HIDE DEF all
  <2>4. idp' \in Seq(Key) /\ Len(idp') \in 1 .. Keep
    BY <1>1, <2>1, <2>2, <2>3, SubSeqProperties
  <2>5. rotatedAt' \in Int
    BY <1>1, <1>5 DEF Rotate
  <2> QED
    BY <1>2, <1>5, <2>4, <2>5 DEF Rotate, TypeOK
<1>6. CASE Tick
  <2>1. now' \in Nat
    BY <1>1, <1>6 DEF Tick
  <2> QED
    BY <1>2, <1>6, <2>1 DEF Tick, TypeOK, provider
<1> QED
  BY <1>3, <1>4, <1>5, <1>6

\* A request carries at each step what the step needs: a user before it grants a
\* session, a key before it is checked; and the provider always has keys, as many as
\* it keeps (login, sso_callback, _verify_id_token, _upsert_sso_user).  The rows
\* hold because every login was begun, which is why SessionInv comes with it.
THEOREM TypeCorrect == Spec => []TypeOK
<1>1. TypeOK /\ SessionInv /\ [Next]_vars => TypeOK'
  <2> SUFFICES ASSUME TypeOK, SessionInv, [Next]_vars PROVE TypeOK'
    OBVIOUS
  <2>1. CASE UNCHANGED vars
    BY <2>1 DEF vars, provider, TypeOK
  <2> QED
    BY <2>1, PasswordTyped, ProviderTyped, RowsTyped, LoginsTyped, AccidentsTyped DEF Next
<1> QED
  BY <1>1, InitTyped, SessionInit, SessionStep, PTL DEF Spec
=============================================================================
