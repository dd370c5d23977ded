------------------------------- MODULE Session -------------------------------
(***************************************************************************)
(* Browser sessions: session.Manager (session/session.go), its in-memory   *)
(* store (session/memory.go), the buffering middleware (web/session.go)    *)
(* and the session-bound CSRF token (web/csrf.go, security/csrf/csrf.go).  *)
(*                                                                         *)
(* One browser has several requests in flight.  A request reads the store  *)
(* once, works on its private copy of the session, and writes the copy     *)
(* back when the handler has returned, so every store call of a request is *)
(* a step of its own and the requests interleave between them.             *)
(*                                                                         *)
(* A session's values are abstracted to the two the framework and its      *)
(* generated applications keep there: the credential version observed at   *)
(* login ("stamp", None when nobody is logged in) and the CSRF token.      *)
(* The flash map holds at most one notice.  Session ids and tokens come    *)
(* from crypto/rand and are never repeated, so each is the next number.    *)
(***************************************************************************)
EXTENDS Integers, FiniteSets

CONSTANT
    Applications   \* records: the policy and the handlers of an application, and
                   \* bounds of the model (time, ids, tokens, versions)

ASSUME PolicyAssumption == \A a \in Applications :
    /\ a.idle \in Nat \ {0}
    /\ a.absolute \in Nat /\ (a.absolute = 0 \/ a.absolute >= a.idle)
    /\ \A n \in {a.second, a.time, a.ids, a.tokens, a.versions} : n \in Nat \ {0}

VARIABLES
    app,       \* the application that is running
    now,       \* the clock shared by the manager and the store
    store,     \* MemoryStore.entries
    nextId,    \* the next id newID returns
    nextToken, \* the next token csrf.generate returns
    version,   \* the user's credential version, a column of the application
    jar,       \* the browser's session cookie: an id or None
    page,      \* the token in the form the browser shows: a token or None
    req,       \* the requests in flight
    removed,   \* history: ids that were in the store and left it
    shown,     \* history: notices a request displayed and then saved
    winner     \* history: the id of the last delivered credential change

sessionVars == <<app, now, store, nextId, nextToken, version, jar, page, req,
          removed, shown, winner>>

Requests == app.requests           \* request slots of the browser
Handlers == app.handlers           \* the handlers the application serves
IdleLifetime == app.idle           \* Policy.IdleLifetime
AbsoluteLifetime == app.absolute   \* Policy.AbsoluteLifetime; 0 switches it off
Second == app.second               \* clock ticks of one second (Max-Age counts seconds)
MaxSessionTime == app.time
MaxIds == app.ids
MaxTokens == app.tokens
MaxVersion == app.versions

None == 0
Ids == 1 .. MaxIds
Tokens == 1 .. MaxTokens
ZeroTime == 0
DeleteCookie == -1   \* the expired cookie Manager.expire stages

(***************************************************************************)
(* A stored row.  root and origin are history: the first id of the chain   *)
(* of rotations the row belongs to, and the time that chain was issued.    *)
(***************************************************************************)
Entry == [stamp : 0 .. MaxVersion, token : Tokens \cup {None},
          flash : Tokens \cup {None}, issued : 0 .. MaxSessionTime,
          expires : Int, root : Ids, origin : 0 .. MaxSessionTime]

NoEntry == [stamp |-> None, token |-> None, flash |-> None, issued |-> ZeroTime,
            expires |-> 0, root |-> 0, origin |-> 0]

\* The private session of a request.
NoSession == [id |-> None, persistedID |-> None, stamp |-> None, token |-> None,
              oldFlash |-> None, newFlash |-> None, issued |-> ZeroTime,
              createOnMissing |-> FALSE, root |-> None, origin |-> 0]

NoRequest == [pc |-> "idle", sent |-> None, submitted |-> None, unsafe |-> FALSE,
              sess |-> NoSession, expires |-> 0, cookie |-> None,
              form |-> None, change |-> FALSE]

Present(id) == id # None /\ store[id] # NoEntry
Live(id) == Present(id) /\ now < store[id].expires

(***************************************************************************)
(* The store (each operator is the table after the call).                  *)
(***************************************************************************)
Delete(id) == IF id = None THEN store ELSE [store EXCEPT ![id] = NoEntry]
Create(id, e) == [store EXCEPT ![id] = e]
Update(id, e) == IF Live(id) THEN [store EXCEPT ![id] = e] ELSE Delete(id)
Rotate(old, new, e) ==
    IF Live(old) THEN [store EXCEPT ![old] = NoEntry, ![new] = e] ELSE Delete(old)

\* The history of ids that leave the table.
SetStore(table) ==
    /\ store' = table
    /\ removed' = removed \cup {i \in Ids : store[i] # NoEntry /\ table[i] = NoEntry}

(***************************************************************************)
(* The manager's operations on a private session.                          *)
(***************************************************************************)
Fresh(id) == [NoSession EXCEPT !.id = id, !.issued = now, !.root = id, !.origin = now]

Loaded(id, e) == [NoSession EXCEPT !.id = id, !.persistedID = id,
    !.stamp = e.stamp, !.token = e.token, !.oldFlash = e.flash,
    !.issued = e.issued, !.root = e.root, !.origin = e.origin]

regenerate(s, id, createOnMissing) ==
    [s EXCEPT !.id = id, !.createOnMissing = createOnMissing]

absoluteExpired(issuedAt) ==
    AbsoluteLifetime > 0 /\ now >= issuedAt + AbsoluteLifetime

\* Save's expiry: idle from now, but never past the absolute deadline.
ExpiresAt(s) ==
    LET idle == now + IdleLifetime
        absolute == s.issued + AbsoluteLifetime
    IN IF AbsoluteLifetime > 0 /\ absolute < idle THEN absolute ELSE idle

\* cookieMaxAge: less than a second left is sent as a deletion.
CookieFor(id, remaining) == IF remaining \div Second = 0 THEN DeleteCookie ELSE id

\* The payload Save encodes: this request's flash replaces the one it loaded.
Encoded(s, expires) ==
    [stamp |-> s.stamp, token |-> s.token, flash |-> s.newFlash,
     issued |-> s.issued, expires |-> expires, root |-> s.root, origin |-> s.origin]

(***************************************************************************)
(* Sending a request and Manager.Load.                                     *)
(***************************************************************************)
Send(r, unsafe) ==
    /\ req[r].pc = "idle"
    /\ req' = [req EXCEPT ![r] = [NoRequest EXCEPT !.pc = "load", !.sent = jar,
                                    !.submitted = page, !.unsafe = unsafe]]
    /\ UNCHANGED <<now, store, nextId, nextToken, version, jar, page, removed,
                   shown, winner>>

StartFresh(r) ==
    /\ nextId \in Ids
    /\ nextId' = nextId + 1
    /\ req' = [req EXCEPT ![r].pc = "handler", ![r].sess = Fresh(nextId)]

\* store.Get: an expired row is deleted and reported missing.
LoadMissing(r) ==
    /\ req[r].pc = "load"
    /\ ~Live(req[r].sent)
    /\ SetStore(Delete(req[r].sent))
    /\ StartFresh(r)
    /\ UNCHANGED <<now, nextToken, version, jar, page, shown, winner>>

LoadFound(r) ==
    /\ req[r].pc = "load"
    /\ Live(req[r].sent)
    /\ req' = [req EXCEPT ![r].pc = "loaded",
                          ![r].sess = Loaded(req[r].sent, store[req[r].sent])]
    /\ UNCHANGED <<now, store, nextId, nextToken, version, jar, page, removed,
                   shown, winner>>

\* The manager reads its own clock after the store answered.
MustPurge(s) ==
    IF s.issued = ZeroTime THEN AbsoluteLifetime > 0 ELSE absoluteExpired(s.issued)

LoadPurge(r) ==
    /\ req[r].pc = "loaded"
    /\ MustPurge(req[r].sess)
    /\ req' = [req EXCEPT ![r].pc = "purge"]
    /\ UNCHANGED <<now, store, nextId, nextToken, version, jar, page, removed,
                   shown, winner>>

Purge(r) ==
    /\ req[r].pc = "purge"
    /\ SetStore(Delete(req[r].sent))
    /\ StartFresh(r)
    /\ UNCHANGED <<now, nextToken, version, jar, page, shown, winner>>

LoadAccept(r) ==
    /\ req[r].pc = "loaded"
    /\ ~MustPurge(req[r].sess)
    /\ req' = [req EXCEPT ![r].pc = "handler",
                 ![r].sess.issued = IF @ = ZeroTime THEN now ELSE @]
    /\ UNCHANGED <<now, store, nextId, nextToken, version, jar, page, removed,
                   shown, winner>>

(***************************************************************************)
(* CSRF middleware: an unsafe request must submit its session's token.     *)
(***************************************************************************)
Validates(r) ==
    req[r].unsafe => req[r].sess.token # None /\ req[r].submitted = req[r].sess.token

\* A handler error: the buffered response, cookies included, is dropped.
Discard(r) == [req EXCEPT ![r].pc = "respond", ![r].cookie = None,
                          ![r].form = None, ![r].change = FALSE]

RejectForgery(r) ==
    /\ req[r].pc = "handler"
    /\ ~Validates(r)
    /\ req' = Discard(r)
    /\ UNCHANGED <<now, store, nextId, nextToken, version, jar, page, removed,
                   shown, winner>>

Handles(r, handler, unsafe) ==
    /\ handler \in Handlers
    /\ req[r].pc = "handler"
    /\ req[r].unsafe = unsafe
    /\ Validates(r)

\* The handler fails before it saved anything.
HandlerFails(r, unsafe) ==
    /\ Handles(r, "fail", unsafe)
    /\ req' = Discard(r)
    /\ UNCHANGED <<now, store, nextId, nextToken, version, jar, page, removed,
                   shown, winner>>

\* A store call fails (a cancelled context, a lost database): the table is as
\* it was, and the request ends like one whose handler failed.
StoreFails(r) ==
    /\ "storefail" \in Handlers
    /\ req[r].pc \in {"load", "purge", "persist", "create"}
    /\ req' = Discard(r)
    /\ UNCHANGED <<now, store, nextId, nextToken, version, jar, page, removed,
                   shown, winner>>

\* A handler that never calls web.Session: nothing is saved, no cookie is set.
Untouched(r) ==
    /\ Handles(r, "skip", FALSE)
    /\ req' = [req EXCEPT ![r].pc = "respond"]
    /\ UNCHANGED <<now, store, nextId, nextToken, version, jar, page, removed,
                   shown, winner>>

\* A page with a form: csrf.Ensure creates the token when there is none.
Page(r) ==
    /\ Handles(r, "page", FALSE)
    /\ LET old == req[r].sess.token
           token == IF old = None THEN nextToken ELSE old
       IN /\ token \in Tokens
          /\ nextToken' = IF old = None THEN nextToken + 1 ELSE nextToken
          /\ req' = [req EXCEPT ![r].pc = "save", ![r].sess.token = token,
                                ![r].form = token]
    /\ UNCHANGED <<now, store, nextId, version, jar, page, removed, shown, winner>>

\* Authentication: a new id, the observed version, a new token and a notice.
Authenticate(r, stamp, createOnMissing) ==
    /\ nextId \in Ids /\ nextToken \in Tokens
    /\ nextId' = nextId + 1 /\ nextToken' = nextToken + 1
    /\ req' = [req EXCEPT ![r].pc = "save", ![r].change = createOnMissing,
         ![r].sess = [regenerate(@, nextId, createOnMissing) EXCEPT
                        !.stamp = stamp, !.token = nextToken, !.newFlash = nextToken]]

Login(r) ==
    /\ Handles(r, "login", TRUE)
    /\ Authenticate(r, version, FALSE)
    /\ UNCHANGED <<now, store, version, jar, page, removed, shown, winner>>

\* A password change: the application's compare-and-swap of the version
\* succeeds, then RegenerateOrCreate.
Change(r) ==
    /\ Handles(r, "change", TRUE)
    /\ req[r].sess.stamp = version /\ version < MaxVersion
    /\ version' = version + 1
    /\ Authenticate(r, version + 1, TRUE)
    /\ UNCHANGED <<now, store, jar, page, removed, shown, winner>>

MutantEndSession(r, cookie) ==
    /\ SetStore(Delete(req[r].sess.persistedID))
    /\ req' = [req EXCEPT ![r].pc = "respond", ![r].sess = NoSession,
                          ![r].cookie = DeleteCookie, ![r].form = None]

\* Manager.invalidate: the row of the loaded id goes, the session is cleared.
EndSession(r, cookie) ==
    /\ SetStore(Delete(req[r].sess.persistedID))
    /\ req' = [req EXCEPT ![r].pc = "respond", ![r].sess = NoSession,
                          ![r].cookie = cookie, ![r].form = None]

\* web.Destroy: the deletion cookie is staged.
Logout(r) ==
    /\ Handles(r, "logout", TRUE)
    /\ EndSession(r, DeleteCookie)
    /\ UNCHANGED <<now, nextId, nextToken, version, jar, page, shown, winner>>

\* web.Invalidate of a session whose credentials changed: no cookie at all.
RejectStale(r) ==
    /\ "reject" \in Handlers
    /\ req[r].pc = "handler" /\ Validates(r)
    /\ req[r].sess.stamp \notin {None, version}
    /\ EndSession(r, None)
    /\ UNCHANGED <<now, nextId, nextToken, version, jar, page, shown, winner>>

(***************************************************************************)
(* Manager.Save, called by the middleware when the handler has returned.   *)
(***************************************************************************)
\* An absolutely expired session is deleted instead of saved.
SaveExpired(r) ==
    /\ req[r].pc = "save"
    /\ absoluteExpired(req[r].sess.issued)
    /\ EndSession(r, DeleteCookie)
    /\ UNCHANGED <<now, nextId, nextToken, version, jar, page, shown, winner>>

SaveBegin(r) ==
    /\ req[r].pc = "save"
    /\ ~absoluteExpired(req[r].sess.issued)
    /\ req' = [req EXCEPT ![r].pc = "persist", ![r].expires = ExpiresAt(req[r].sess),
         ![r].cookie = CookieFor(req[r].sess.id, ExpiresAt(req[r].sess) - now)]
    /\ UNCHANGED <<now, store, nextId, nextToken, version, jar, page, removed,
                   shown, winner>>

Saved(r) ==
    /\ shown' = shown \cup ({req[r].sess.oldFlash} \ {None})
    /\ req' = [req EXCEPT ![r].pc = "respond"]

\* A session without a row is created under its own id.
PersistNew(r) ==
    LET s == req[r].sess IN
    /\ req[r].pc = "persist" /\ s.persistedID = None
    /\ SetStore(Create(s.id, Encoded(s, req[r].expires)))
    /\ Saved(r)
    /\ UNCHANGED <<now, nextId, nextToken, version, jar, page, winner>>

\* An update that recreates a missing row.
MutantPersistTable(s, expires) ==
    IF s.persistedID = s.id THEN Create(s.id, Encoded(s, expires))
                            ELSE Rotate(s.persistedID, s.id, Encoded(s, expires))

\* The same id is updated in place, a new id replaces the old one.
PersistTable(s, expires) ==
    IF s.persistedID = s.id THEN Update(s.id, Encoded(s, expires))
                            ELSE Rotate(s.persistedID, s.id, Encoded(s, expires))

\* Save may create the new id when the rotation found no old row.
CreatesOnMissing(s) == s.id # s.persistedID /\ s.createOnMissing

PersistExisting(r) ==
    LET s == req[r].sess IN
    /\ req[r].pc = "persist" /\ s.persistedID # None
    /\ SetStore(PersistTable(s, req[r].expires))
    /\ IF Live(s.persistedID) THEN Saved(r)
       ELSE /\ req' = IF CreatesOnMissing(s)
                      THEN [req EXCEPT ![r].pc = "create"]
                      ELSE Discard(r)
            /\ UNCHANGED shown
    /\ UNCHANGED <<now, nextId, nextToken, version, jar, page, winner>>

\* RegenerateOrCreate: the new id is created as a chain of its own.
PersistCreate(r) ==
    LET s == [req[r].sess EXCEPT !.root = req[r].sess.id] IN
    /\ req[r].pc = "create"
    /\ SetStore(Create(s.id, Encoded(s, req[r].expires)))
    /\ Saved(r)
    /\ UNCHANGED <<now, nextId, nextToken, version, jar, page, winner>>

(***************************************************************************)
(* The committed response reaches the browser, in any order, or is lost.   *)
(***************************************************************************)
Deliver(r) ==
    LET c == req[r].cookie IN
    /\ req[r].pc = "respond"
    /\ jar' = IF c = None THEN jar ELSE IF c = DeleteCookie THEN None ELSE c
    /\ page' = IF req[r].form = None THEN page ELSE req[r].form
    /\ winner' = IF req[r].change /\ c \in Ids THEN c ELSE winner
    /\ req' = [req EXCEPT ![r] = NoRequest]
    /\ UNCHANGED <<now, store, nextId, nextToken, version, removed, shown>>

Lose(r) ==
    /\ req[r].pc = "respond"
    /\ req' = [req EXCEPT ![r] = NoRequest]
    /\ UNCHANGED <<now, store, nextId, nextToken, version, jar, page, removed,
                   shown, winner>>

Tick ==
    /\ now < MaxSessionTime
    /\ now' = now + 1
    /\ UNCHANGED <<store, nextId, nextToken, version, jar, page, req, removed,
                   shown, winner>>

(***************************************************************************)
(* The store starts empty, or with a row an earlier release wrote without  *)
(* an issuance time, or with a logged-in browser.                          *)
(***************************************************************************)
LegacyEntry == [NoEntry EXCEPT !.stamp = 1, !.token = 1, !.expires = IdleLifetime,
                               !.root = 1]
LoggedIn == [LegacyEntry EXCEPT !.issued = 1, !.origin = 1, !.expires = 1 + IdleLifetime]

SessionInit ==
    /\ app \in Applications
    /\ now = 1 /\ version = 1
    /\ \E first \in IF app.clean THEN {NoEntry, LegacyEntry} ELSE {LoggedIn} :
         LET some == first # NoEntry IN
         /\ store = [i \in Ids |-> IF i = 1 THEN first ELSE NoEntry]
         /\ nextId = IF some THEN 2 ELSE 1
         /\ nextToken = IF some THEN 2 ELSE 1
         /\ jar = IF some THEN 1 ELSE None
         /\ page = IF some THEN 1 ELSE None
    /\ req = [r \in Requests |-> NoRequest]
    /\ removed = {} /\ shown = {} /\ winner = None

SessionStep ==
    \/ \E r \in Requests :
         \/ \E unsafe \in BOOLEAN : Send(r, unsafe) \/ HandlerFails(r, unsafe)
         \/ LoadMissing(r) \/ LoadFound(r) \/ LoadPurge(r) \/ Purge(r) \/ LoadAccept(r)
         \/ RejectForgery(r) \/ StoreFails(r) \/ Untouched(r) \/ Page(r) \/ Login(r) \/ Change(r)
         \/ Logout(r) \/ RejectStale(r)
         \/ SaveExpired(r) \/ SaveBegin(r)
         \/ PersistNew(r) \/ PersistExisting(r) \/ PersistCreate(r)
         \/ Deliver(r) \/ Lose(r)
    \/ Tick

SessionNext == SessionStep /\ UNCHANGED app
SessionSpec == SessionInit /\ [][SessionNext]_sessionVars

(***************************************************************************)
(* Properties.                                                             *)
(***************************************************************************)
Cookies == {None, DeleteCookie} \cup Ids

\* The clock, the table, the browser and the private sessions have their types.
SessionTypeOK ==
    /\ now \in 1 .. MaxSessionTime /\ version \in 1 .. MaxVersion
    /\ store \in [Ids -> Entry \cup {NoEntry}]
    /\ nextId \in 1 .. MaxIds + 1 /\ nextToken \in 1 .. MaxTokens + 1
    /\ jar \in Ids \cup {None} /\ page \in Tokens \cup {None}
    /\ \A r \in Requests : req[r].cookie \in Cookies /\ req[r].sess.id \in Ids \cup {None}
    /\ removed \subseteq Ids /\ shown \subseteq Tokens /\ winner \in Ids \cup {None}

\* An id that left the store never comes back: a request that loaded the
\* session before another one rotated, destroyed or invalidated it cannot
\* restore it by saving its stale copy (Store.Update and Store.Rotate report
\* ErrNotFound; decision D014).
RemovedStaysRemoved == \A i \in removed : store[i] = NoEntry

\* A chain of rotations has at most one row: of several requests that rotate
\* the same id at most one wins, and the old row goes with it.
OneRowPerChain ==
    \A i, j \in Ids :
        i # j /\ Present(i) /\ Present(j) => store[i].root # store[j].root

\* However often a session is saved or rotated, its row ends at the latest
\* AbsoluteLifetime after the first request of the chain was issued.
AbsoluteDeadline ==
    AbsoluteLifetime > 0 =>
        \A i \in Ids : store[i].expires <= store[i].origin + AbsoluteLifetime

\* A notice that a request displayed is not in the store once that request
\* has saved: concurrent requests may display it too, later ones do not.
NoticeShownOnce == \A i \in Ids : store[i].flash \notin shown

\* Every cookie in a committed response, and so the browser's, names a row
\* that was stored before the response was committed.
CookieNamesStoredRow ==
    \A id \in {jar} \cup {req[r].cookie : r \in {q \in Requests : req[q].pc = "respond"}} :
        id \in Ids => Present(id) \/ id \in removed

\* In a browser whose other requests are rejected as stale or leave the session
\* alone, the cookie of a delivered credential change stays, and its row with it.
WinnerKeepsCookie ==
    winner # None => jar = winner /\ Present(winner) /\ store[winner].stamp = version

=============================================================================
