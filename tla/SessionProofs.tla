--------------------------- MODULE SessionProofs ---------------------------
(***************************************************************************)
(* The sessions, for every number of requests and every order of their     *)
(* steps: a removed session stays removed, a login keeps one row, the      *)
(* absolute deadline holds and a notice is shown once.                     *)
(***************************************************************************)
EXTENDS Session, TLAPS

(***************************************************************************)
(* Sessions.  The inductive invariant says who may know an id.  An id that *)
(* was never in the store is known to one request alone, the one that drew *)
(* it: so only that request can bring it into the store, once.             *)
(***************************************************************************)
PrivateSession ==
    [id : Ids \cup {None}, persistedID : Ids \cup {None}, stamp : 0 .. MaxVersion,
     token : Tokens \cup {None}, oldFlash : Tokens \cup {None}, newFlash : Tokens \cup {None},
     issued : 0 .. MaxSessionTime, createOnMissing : BOOLEAN, root : Ids \cup {None},
     origin : 0 .. MaxSessionTime]

BrowserRequest ==
    [pc : {"idle", "load", "loaded", "purge", "handler", "save", "persist", "create", "respond"},
     sent : Ids \cup {None}, submitted : Tokens \cup {None}, unsafe : BOOLEAN,
     sess : PrivateSession, expires : Int, cookie : Cookies, form : Tokens \cup {None},
     change : BOOLEAN]

SessionTypes ==
    /\ app \in Applications
    /\ now \in 1 .. MaxSessionTime /\ version \in 1 .. MaxVersion
    /\ store \in [Ids -> Entry \cup {NoEntry}]
    /\ nextId \in 1 .. MaxIds + 1 /\ nextToken \in 1 .. MaxTokens + 1
    /\ jar \in Ids \cup {None} /\ page \in Tokens \cup {None}
    /\ req \in [Requests -> BrowserRequest]
    /\ removed \subseteq Ids /\ shown \subseteq Tokens /\ winner \in Ids \cup {None}

Active(x) == x.pc \in {"handler", "save", "persist", "create"}
Engaged(x) == Active(x) \/ x.pc \in {"loaded", "purge"}
Owns(x) == Active(x) /\ x.sess.id # x.sess.persistedID
Recorded(i) == store[i] # NoEntry \/ i \in removed
Staged(x) == x.pc \in {"persist", "create"}

OwnIds(x) ==
    /\ x.sess.id < nextId
    /\ x.sess.persistedID # None => Recorded(x.sess.persistedID)
    /\ Owns(x) => ~Recorded(x.sess.id)
    /\ x.pc = "create" => x.sess.persistedID \in removed
    /\ Staged(x) => x.cookie \in {DeleteCookie, x.sess.id}
    /\ x.pc = "respond" /\ x.cookie \in Ids => Recorded(x.cookie)

IdInv ==
    /\ \A i \in Ids : i >= nextId => ~Recorded(i)
    /\ RemovedStaysRemoved
    /\ jar \in Ids => Recorded(jar)
    /\ \A r \in Requests : OwnIds(req[r])
    /\ \A r, q \in Requests : r # q /\ Owns(req[r]) => req[q].sess.id # req[r].sess.id

\* The roots a request may bring into the store.
Claims(x) ==
    IF ~Active(x) THEN {}
    ELSE IF x.sess.persistedID = None THEN {x.sess.root}
    ELSE {x.sess.id} \ {x.sess.persistedID}

ChainInv ==
    /\ OneRowPerChain
    /\ \A i \in Ids : store[i].root < nextId
    /\ \A r \in Requests : \A c \in Claims(req[r]) : c < nextId /\ \A i \in Ids : store[i].root # c
    /\ \A r, q \in Requests : r # q => Claims(req[r]) \cap Claims(req[q]) = {}
    /\ \A r \in Requests : Engaged(req[r]) /\ Present(req[r].sess.persistedID) =>
         store[req[r].sess.persistedID].root = req[r].sess.root

DeadlineInv ==
    AbsoluteLifetime > 0 =>
        /\ \A i \in Ids : store[i].issued = store[i].origin /\ store[i].expires <= store[i].origin + AbsoluteLifetime
        /\ \A r \in Requests : req[r].sess.issued = req[r].sess.origin
        /\ \A r \in Requests : Staged(req[r]) => req[r].expires <= req[r].sess.origin + AbsoluteLifetime

Pending(x) == Active(x) /\ x.sess.newFlash # None
Displays(x) == Engaged(x) /\ x.sess.oldFlash # None

NoticeInv ==
    /\ NoticeShownOnce
    /\ \A r \in Requests : req[r].pc \in {"loaded", "purge"} => req[r].sess.newFlash = None
    /\ \A t \in shown : t < nextToken
    /\ \A i \in Ids : store[i].flash < nextToken
    /\ \A i, j \in Ids : i # j /\ store[i].flash # None => store[i].flash # store[j].flash
    /\ \A r \in Requests : Pending(req[r]) =>
         /\ req[r].sess.newFlash < nextToken /\ req[r].sess.newFlash \notin shown
         /\ \A i \in Ids : store[i].flash # req[r].sess.newFlash
         /\ \A q \in Requests : Displays(req[q]) => req[q].sess.oldFlash # req[r].sess.newFlash
         /\ \A q \in Requests : q # r /\ Pending(req[q]) => req[q].sess.newFlash # req[r].sess.newFlash
    /\ \A r \in Requests : Displays(req[r]) =>
         /\ req[r].sess.oldFlash < nextToken /\ req[r].sess.persistedID # None
         /\ \A i \in Ids : store[i].flash = req[r].sess.oldFlash => i = req[r].sess.persistedID


\* Where a request stands in its own terms.
Formed(x) ==
    /\ Engaged(x) => x.sess.id \in Ids /\ x.sess.root \in Ids
    /\ x.pc \in {"loaded", "purge"} => x.sess.id = x.sess.persistedID
    /\ ~Staged(x) /\ x.pc # "respond" => x.cookie = None
    /\ x.pc = "create" => x.sess.id # x.sess.persistedID /\ x.sess.persistedID # None

SessionBase == SessionTypes /\ \A r \in Requests : Formed(req[r])

(***************************************************************************)
(* What a request's step does, with x and y the request before and after   *)
(* it: w is the id it writes and d the id it deletes (None for neither).   *)
(***************************************************************************)
Writes(w, d, e) ==
    /\ store' = [i \in Ids |-> IF i = w THEN e ELSE IF i = d THEN NoEntry ELSE store[i]]
    /\ removed' = removed \cup {i \in Ids : store[i] # NoEntry /\ store'[i] = NoEntry}

Quits(x, y) ==
    /\ ~Engaged(y) /\ y.cookie = None /\ y.sess \in {x.sess, NoSession}
    /\ jar' \in {jar, None} \/ (x.pc = "respond" /\ jar' = x.cookie /\ jar' \in Ids)
    /\ Writes(None, None, NoEntry) /\ UNCHANGED <<nextId, nextToken, shown>>

Restarts(x, y) ==
    /\ x.pc \in {"load", "purge"} /\ y.pc = "handler" /\ y.cookie = None
    /\ y.sess.id = nextId /\ y.sess.root = nextId /\ y.sess.persistedID = None
    /\ y.sess.oldFlash = None /\ y.sess.newFlash = None /\ y.sess.issued = y.sess.origin
    /\ nextId \in Ids /\ nextId' = nextId + 1
    /\ Writes(None, x.sent, NoEntry) /\ UNCHANGED <<nextToken, shown, jar>>

Reads(x, y) ==
    /\ x.pc = "load" /\ y.pc = "loaded" /\ y.cookie = None
    /\ x.sent \in Ids /\ store[x.sent] # NoEntry
    /\ y.sess.id = x.sent /\ y.sess.persistedID = x.sent
    /\ y.sess.oldFlash = store[x.sent].flash /\ y.sess.newFlash = None
    /\ y.sess.issued = store[x.sent].issued /\ y.sess.origin = store[x.sent].origin
    /\ y.sess.root = store[x.sent].root
    /\ Writes(None, None, NoEntry) /\ UNCHANGED <<nextId, nextToken, shown, jar>>

SameIdentity(x, y) ==
    /\ y.sess.persistedID = x.sess.persistedID /\ y.sess.root = x.sess.root
    /\ y.sess.oldFlash = x.sess.oldFlash /\ y.sess.origin = x.sess.origin

Judges(x, y) ==
    /\ x.pc = "loaded" /\ y.pc \in {"purge", "handler"} /\ y.cookie = x.cookie
    /\ SameIdentity(x, y) /\ y.sess.id = x.sess.id /\ y.sess.newFlash = x.sess.newFlash
    /\ AbsoluteLifetime > 0 => y.sess.issued = x.sess.issued
    /\ Writes(None, None, NoEntry) /\ UNCHANGED <<nextId, nextToken, shown, jar>>

Works(x, y) ==
    /\ x.pc = "handler" /\ y.pc = "save" /\ y.cookie = x.cookie
    /\ SameIdentity(x, y) /\ y.sess.id = x.sess.id /\ y.sess.newFlash = x.sess.newFlash
    /\ y.sess.issued = x.sess.issued
    /\ nextToken' = nextToken \/ (nextToken \in Tokens /\ nextToken' = nextToken + 1)
    /\ Writes(None, None, NoEntry) /\ UNCHANGED <<nextId, shown, jar>>

Renews(x, y) ==
    /\ x.pc = "handler" /\ y.pc = "save" /\ y.cookie = x.cookie
    /\ SameIdentity(x, y) /\ y.sess.id = nextId /\ y.sess.newFlash = nextToken
    /\ y.sess.issued = x.sess.issued
    /\ nextId \in Ids /\ nextId' = nextId + 1
    /\ nextToken \in Tokens /\ nextToken' = nextToken + 1
    /\ Writes(None, None, NoEntry) /\ UNCHANGED <<shown, jar>>

Ends(x, y) ==
    /\ x.pc \in {"handler", "save"} /\ y.pc = "respond" /\ y.cookie \in {None, DeleteCookie}
    /\ y.sess = NoSession
    /\ Writes(None, x.sess.persistedID, NoEntry) /\ UNCHANGED <<nextId, nextToken, shown, jar>>

Stages(x, y) ==
    /\ x.pc = "save" /\ y.pc = "persist" /\ y.cookie \in {DeleteCookie, x.sess.id}
    /\ y.sess = x.sess
    /\ AbsoluteLifetime > 0 => y.expires <= x.sess.issued + AbsoluteLifetime
    /\ Writes(None, None, NoEntry) /\ UNCHANGED <<nextId, nextToken, shown, jar>>

\* The row x writes, with this root.
RowOf(x, e, root) ==
    /\ e \in Entry /\ e.flash = x.sess.newFlash /\ e.issued = x.sess.issued
    /\ e.origin = x.sess.origin /\ e.expires = x.expires /\ e.root = root

Commits(x, y) ==
    /\ y.pc = "respond" /\ y.sess = x.sess /\ y.cookie = x.cookie
    /\ shown' = shown \cup ({x.sess.oldFlash} \ {None})
    /\ UNCHANGED <<nextId, nextToken, jar>>

Inserts(x, y, e) ==
    /\ \/ x.pc = "persist" /\ x.sess.persistedID = None /\ RowOf(x, e, x.sess.root)
       \/ x.pc = "create" /\ RowOf(x, e, x.sess.id)
    /\ Writes(x.sess.id, None, e) /\ Commits(x, y)

Replaces(x, y, e) ==
    /\ x.pc = "persist" /\ x.sess.persistedID # None /\ store[x.sess.persistedID] # NoEntry
    /\ RowOf(x, e, x.sess.root)
    /\ Writes(x.sess.id, x.sess.persistedID, e) /\ Commits(x, y)

Misses(x, y) ==
    /\ x.pc = "persist" /\ x.sess.persistedID # None /\ y.sess = x.sess
    /\ \/ y.pc = "create" /\ y.cookie = x.cookie /\ y.expires = x.expires /\ x.sess.id # x.sess.persistedID
       \/ y.pc = "respond" /\ y.cookie = None
    /\ Writes(None, x.sess.persistedID, NoEntry) /\ UNCHANGED <<nextId, nextToken, shown, jar>>

RequestStep(x, y) ==
    \/ Quits(x, y) \/ Restarts(x, y) \/ Reads(x, y) \/ Judges(x, y) \/ Works(x, y) \/ Renews(x, y)
    \/ Ends(x, y) \/ Stages(x, y) \/ Misses(x, y)
    \/ \E e \in Entry : Inserts(x, y, e) \/ Replaces(x, y, e)

LEMMA SessionNumbers ==
    ASSUME app \in Applications
    PROVE  /\ MaxIds \in Nat \ {0} /\ MaxTokens \in Nat \ {0} /\ MaxVersion \in Nat \ {0}
           /\ MaxSessionTime \in Nat \ {0} /\ IdleLifetime \in Nat \ {0} /\ Second \in Nat \ {0}
           /\ AbsoluteLifetime \in Nat /\ (AbsoluteLifetime = 0 \/ AbsoluteLifetime >= IdleLifetime)
           /\ 1 \in Ids /\ 1 \in Tokens /\ None \notin Ids /\ None \notin Tokens
           /\ DeleteCookie \notin Ids /\ DeleteCookie # None
           /\ Ids \subseteq Nat /\ Tokens \subseteq Nat
<1>1. /\ app.idle \in Nat \ {0} /\ app.absolute \in Nat /\ (app.absolute = 0 \/ app.absolute >= app.idle)
      /\ app.second \in Nat \ {0} /\ app.time \in Nat \ {0} /\ app.ids \in Nat \ {0}
      /\ app.tokens \in Nat \ {0} /\ app.versions \in Nat \ {0}
  BY Zenon, PolicyAssumption
<1> QED BY <1>1 DEF MaxIds, MaxTokens, MaxVersion, MaxSessionTime, IdleLifetime, Second,
          AbsoluteLifetime, Ids, Tokens, None, DeleteCookie

LEMMA SessionSame ==
    ASSUME app' = app
    PROVE  /\ Ids' = Ids /\ Tokens' = Tokens /\ Requests' = Requests /\ Entry' = Entry
           /\ MaxIds' = MaxIds /\ MaxTokens' = MaxTokens /\ MaxVersion' = MaxVersion
           /\ MaxSessionTime' = MaxSessionTime /\ AbsoluteLifetime' = AbsoluteLifetime
           /\ PrivateSession' = PrivateSession /\ BrowserRequest' = BrowserRequest
           /\ Cookies' = Cookies
  BY Zenon DEF Ids, Tokens, Requests, Entry, MaxIds, MaxTokens, MaxVersion, MaxSessionTime, AbsoluteLifetime,
     PrivateSession, BrowserRequest, Cookies

LEMMA SessionBlanks ==
    ASSUME app \in Applications
    PROVE  /\ NoEntry.flash = None /\ NoEntry.root = 0 /\ NoEntry.issued = 0 /\ NoEntry.origin = 0
           /\ NoEntry.expires = 0 /\ NoEntry \notin Entry
           /\ NoSession \in PrivateSession /\ NoSession.id = None /\ NoSession.persistedID = None
           /\ NoSession.oldFlash = None /\ NoSession.newFlash = None
           /\ NoSession.issued = NoSession.origin
           /\ NoRequest \in BrowserRequest /\ NoRequest.pc = "idle" /\ NoRequest.sess = NoSession
           /\ NoRequest.cookie = None
<1>1. NoEntry.flash = None /\ NoEntry.root = 0 /\ NoEntry.issued = 0 /\ NoEntry.origin = 0
      /\ NoEntry.expires = 0
  BY Zenon DEF NoEntry, ZeroTime
<1>2. NoEntry \notin Entry
  <2>1. 0 \notin Ids
    BY Zenon, SessionNumbers DEF None
  <2> QED BY Zenon, <1>1, <2>1 DEF Entry
<1>3. NoSession \in PrivateSession /\ NoSession.id = None /\ NoSession.persistedID = None
      /\ NoSession.oldFlash = None /\ NoSession.newFlash = None /\ NoSession.issued = NoSession.origin
  BY SessionNumbers DEF NoSession, PrivateSession, None, ZeroTime
<1>4. NoRequest \in BrowserRequest /\ NoRequest.pc = "idle" /\ NoRequest.sess = NoSession
      /\ NoRequest.cookie = None
  BY <1>3 DEF NoRequest, BrowserRequest, Cookies
<1> QED BY Zenon, <1>1, <1>2, <1>3, <1>4

LEMMA TableWrites ==
    ASSUME SessionTypes, NEW table \in [Ids -> Entry \cup {NoEntry}], SetStore(table),
           NEW w \in Ids \cup {None}, NEW d \in Ids \cup {None}, NEW e,
           \A i \in Ids : table[i] = IF i = w THEN e ELSE IF i = d THEN NoEntry ELSE store[i]
    PROVE  Writes(w, d, e)
<1>1. table = [i \in Ids |-> IF i = w THEN e ELSE IF i = d THEN NoEntry ELSE store[i]]
  BY Zenon
<1> QED BY <1>1, Zenon DEF SetStore, Writes

LEMMA StoreUntouched ==
    ASSUME SessionTypes, UNCHANGED <<store, removed>>
    PROVE  Writes(None, None, NoEntry)
<1>1. None \notin Ids
  BY Zenon, SessionNumbers DEF SessionTypes
<1>2. store' = [i \in Ids |-> IF i = None THEN NoEntry ELSE IF i = None THEN NoEntry ELSE store[i]]
  BY Zenon, <1>1 DEF SessionTypes
<1>3. {i \in Ids : store[i] # NoEntry /\ store'[i] = NoEntry} = {}
  BY Zenon
<1> QED BY Zenon, <1>2, <1>3 DEF Writes

LEMMA StoreDeletes ==
    ASSUME SessionTypes, NEW d \in Ids \cup {None}, SetStore(Delete(d))
    PROVE  Writes(None, d, NoEntry)
<1>1. None \notin Ids
  BY Zenon, SessionNumbers DEF SessionTypes
<1>2. Delete(d) \in [Ids -> Entry \cup {NoEntry}]
  BY Zenon DEF Delete, SessionTypes
<1>3. \A i \in Ids : Delete(d)[i] = IF i = None THEN NoEntry ELSE IF i = d THEN NoEntry ELSE store[i]
  BY Zenon, <1>1 DEF Delete, SessionTypes
<1> QED BY Zenon, <1>2, <1>3, TableWrites

LEMMA StoreCreates ==
    ASSUME SessionTypes, NEW w \in Ids, NEW e \in Entry, SetStore(Create(w, e))
    PROVE  Writes(w, None, e)
<1>1. None \notin Ids
  BY Zenon, SessionNumbers DEF SessionTypes
<1>2. Create(w, e) \in [Ids -> Entry \cup {NoEntry}]
  BY Zenon DEF Create, SessionTypes
<1>3. \A i \in Ids : Create(w, e)[i] = IF i = w THEN e ELSE IF i = None THEN NoEntry ELSE store[i]
  BY Zenon, <1>1 DEF Create, SessionTypes
<1> QED BY Zenon, <1>2, <1>3, TableWrites

LEMMA StoreReplaces ==
    ASSUME SessionTypes, NEW s \in PrivateSession, NEW expires \in Int, s.id \in Ids, s.persistedID \in Ids,
           Encoded(s, expires) \in Entry, SetStore(PersistTable(s, expires))
    PROVE  IF Live(s.persistedID) THEN Writes(s.id, s.persistedID, Encoded(s, expires))
                                  ELSE Writes(None, s.persistedID, NoEntry)
<1> DEFINE e == Encoded(s, expires)
           old == s.persistedID
           new == s.id
<1>0. SUFFICES ASSUME Live(old) PROVE Writes(new, old, e)
  <2>1. CASE ~Live(old)
    <3>1. PersistTable(s, expires) = Delete(old)
      BY Zenon, <2>1 DEF PersistTable, Update, Rotate
    <3> QED BY Zenon, <2>1, <3>1, StoreDeletes
  <2> QED BY Zenon, <2>1
<1> DEFINE table == IF old = new THEN [store EXCEPT ![new] = e] ELSE [store EXCEPT ![old] = NoEntry, ![new] = e]
<1>1. PersistTable(s, expires) = table
  BY Zenon, <1>0 DEF PersistTable, Update, Rotate
<1> HIDE DEF e
<1>2. table \in [Ids -> Entry \cup {NoEntry}]
  BY Zenon DEF SessionTypes, e
<1>3. \A i \in Ids : table[i] = IF i = new THEN e ELSE IF i = old THEN NoEntry ELSE store[i]
  BY Zenon DEF SessionTypes
<1> HIDE DEF table
<1> QED BY Zenon, <1>1, <1>2, <1>3, TableWrites

Moves(r) ==
    /\ req' = [req EXCEPT ![r] = req'[r]] /\ req'[r] \in BrowserRequest
    /\ Formed(req'[r]) /\ RequestStep(req[r], req'[r])

LEMMA MovesTo ==
    ASSUME SessionTypes, NEW r \in Requests, NEW y \in BrowserRequest, req' = [req EXCEPT ![r] = y],
           Formed(y), RequestStep(req[r], y)
    PROVE  Moves(r)
<1>1. req'[r] = y
  BY Zenon DEF SessionTypes
<1> QED BY <1>1, Zenon DEF Moves

LEMMA DiscardMoves ==
    ASSUME SessionBase, NEW r \in Requests, req' = Discard(r),
           UNCHANGED <<nextId, nextToken, shown, jar, store, removed>>
    PROVE  Moves(r)
<1> DEFINE x == req[r]
           y == [x EXCEPT !.pc = "respond", !.cookie = None, !.form = None, !.change = FALSE]
<1>1. x \in BrowserRequest /\ SessionTypes
  BY Zenon DEF SessionBase, SessionTypes
<1>2. req' = [req EXCEPT ![r] = y]
  BY Zenon DEF Discard
<1>3. y \in BrowserRequest /\ y.pc = "respond" /\ y.cookie = None /\ y.sess = x.sess
  BY <1>1, Zenon DEF BrowserRequest, Cookies
<1> HIDE DEF y
<1>4. Quits(x, y) /\ Formed(y)
  BY Zenon, <1>1, <1>3, StoreUntouched DEF Quits, Formed, Engaged, Active, Staged
<1> QED BY <1>1, <1>2, <1>3, <1>4, MovesTo, Zenon DEF RequestStep

LEMMA ResetMoves ==
    ASSUME SessionBase, NEW r \in Requests, NEW y \in BrowserRequest, req' = [req EXCEPT ![r] = y],
           y.pc \in {"idle", "load"}, y.sess = NoSession, y.cookie = None,
           UNCHANGED <<nextId, nextToken, shown, store, removed>>,
           jar' \in {jar, None} \/ (req[r].pc = "respond" /\ jar' = req[r].cookie /\ jar' \in Ids)
    PROVE  Moves(r)
<1>1. SessionTypes
  BY Zenon DEF SessionBase
<1>2. Quits(req[r], y) /\ Formed(y)
  BY Zenon, <1>1, StoreUntouched DEF Quits, Formed, Engaged, Active, Staged
<1> QED BY <1>1, <1>2, MovesTo, Zenon DEF RequestStep

LEMMA BrowserMoves ==
    ASSUME SessionBase, NEW r \in Requests,
           (\E unsafe \in BOOLEAN : Send(r, unsafe)) \/ Deliver(r) \/ Lose(r) \/ Untouched(r)
    PROVE  Moves(r)
<1>0. app \in Applications /\ SessionTypes /\ req[r] \in BrowserRequest /\ Formed(req[r])
  BY Zenon DEF SessionBase, SessionTypes
<1>1. ASSUME NEW unsafe \in BOOLEAN, Send(r, unsafe) PROVE Moves(r)
  <2> DEFINE y == [NoRequest EXCEPT !.pc = "load", !.sent = jar, !.submitted = page, !.unsafe = unsafe]
  <2>1. NoRequest \in BrowserRequest /\ NoRequest.sess = NoSession /\ NoRequest.cookie = None
    BY Zenon, <1>0, SessionBlanks
  <2>2. y \in BrowserRequest /\ y.pc = "load" /\ y.sess = NoSession /\ y.cookie = None
    <3>1. jar \in Ids \cup {None} /\ page \in Tokens \cup {None}
      BY Zenon, <1>0 DEF SessionTypes
    <3>2. y.pc = "load" /\ y.sess = NoSession /\ y.cookie = None
      BY Zenon, <2>1 DEF BrowserRequest
    <3> QED BY Zenon, <2>1, <3>1, <3>2 DEF BrowserRequest
  <2>3. req' = [req EXCEPT ![r] = y] /\ UNCHANGED <<nextId, nextToken, shown, jar, store, removed>>
    BY <1>1, Zenon DEF Send
  <2> HIDE DEF y
  <2> QED BY <2>2, <2>3, ResetMoves, Zenon
<1>2. ASSUME Deliver(r) \/ Lose(r) PROVE Moves(r)
  <2>1. NoRequest \in BrowserRequest /\ NoRequest.pc = "idle" /\ NoRequest.sess = NoSession /\ NoRequest.cookie = None
    BY Zenon, <1>0, SessionBlanks
  <2>2. /\ req' = [req EXCEPT ![r] = NoRequest] /\ UNCHANGED <<nextId, nextToken, shown, store, removed>>
        /\ jar' \in {jar, None} \/ (req[r].pc = "respond" /\ jar' = req[r].cookie /\ jar' \in Ids)
    BY Zenon, <1>0, <1>2 DEF Deliver, Lose, BrowserRequest, Cookies
  <2> QED BY <2>1, <2>2, ResetMoves, Zenon
<1>3. ASSUME Untouched(r) PROVE Moves(r)
  <2> DEFINE x == req[r]
             y == [x EXCEPT !.pc = "respond"]
  <2>1. x.pc = "handler" /\ req' = [req EXCEPT ![r] = y] /\ UNCHANGED <<nextId, nextToken, shown, jar, store, removed>>
    BY Zenon, <1>3 DEF Untouched, Handles
  <2>2. x.cookie = None
    BY Zenon, <1>0, <2>1 DEF Formed, Staged
  <2>3. y \in BrowserRequest /\ y.pc = "respond" /\ y.cookie = None /\ y.sess = x.sess
    BY Zenon, <1>0, <2>2 DEF BrowserRequest
  <2> HIDE DEF y
  <2>4. Quits(x, y) /\ Formed(y)
    BY Zenon, <1>0, <2>1, <2>3, StoreUntouched DEF Quits, Formed, Engaged, Active, Staged
  <2> QED BY <1>0, <2>1, <2>3, <2>4, MovesTo, Zenon DEF RequestStep
<1> QED BY Zenon, <1>1, <1>2, <1>3

LEMMA FreshSession ==
    ASSUME SessionTypes, nextId \in Ids
    PROVE  /\ Fresh(nextId) \in PrivateSession /\ Fresh(nextId).id = nextId /\ Fresh(nextId).root = nextId
           /\ Fresh(nextId).persistedID = None /\ Fresh(nextId).oldFlash = None
           /\ Fresh(nextId).newFlash = None /\ Fresh(nextId).issued = Fresh(nextId).origin
<1>1. NoSession \in PrivateSession /\ NoSession.persistedID = None /\ NoSession.oldFlash = None
      /\ NoSession.newFlash = None /\ now \in 0 .. MaxSessionTime
  BY SessionBlanks, SessionNumbers DEF SessionTypes
<1> QED BY <1>1, Zenon DEF Fresh, PrivateSession

LEMMA RestartMoves ==
    ASSUME SessionBase, NEW r \in Requests, LoadMissing(r) \/ Purge(r)
    PROVE  Moves(r)
<1> DEFINE x == req[r]
           y == [x EXCEPT !.pc = "handler", !.sess = Fresh(nextId)]
<1>1. x \in BrowserRequest /\ SessionTypes /\ Formed(x) /\ app \in Applications /\ x.sent \in Ids \cup {None}
  BY Zenon DEF SessionBase, SessionTypes, BrowserRequest
<1>2. /\ x.pc \in {"load", "purge"} /\ SetStore(Delete(x.sent)) /\ nextId \in Ids /\ nextId' = nextId + 1
      /\ req' = [req EXCEPT ![r] = y] /\ UNCHANGED <<nextToken, shown, jar>>
  BY Zenon DEF LoadMissing, Purge, StartFresh
<1>3. y \in BrowserRequest /\ y.pc = "handler" /\ y.cookie = x.cookie /\ y.sess = Fresh(nextId)
  BY <1>1, <1>2, FreshSession, Zenon DEF BrowserRequest
<1>4. y.cookie = None
  BY Zenon, <1>1, <1>2, <1>3 DEF Formed, Staged
<1>5. Writes(None, x.sent, NoEntry)
  BY Zenon, <1>1, <1>2, StoreDeletes
<1> HIDE DEF y
<1>6. Restarts(x, y)
  BY Zenon, <1>1, <1>2, <1>3, <1>4, <1>5, FreshSession DEF Restarts
<1>7. Formed(y)
  BY Zenon, <1>1, <1>2, <1>3, <1>4, FreshSession DEF Formed, Engaged, Active, Staged
<1> QED BY <1>1, <1>2, <1>3, <1>6, <1>7, MovesTo, Zenon DEF RequestStep

LEMMA ReadMoves ==
    ASSUME SessionBase, NEW r \in Requests, LoadFound(r)
    PROVE  Moves(r)
<1> DEFINE x == req[r]
           s == Loaded(x.sent, store[x.sent])
           y == [x EXCEPT !.pc = "loaded", !.sess = s]
<1>1. x \in BrowserRequest /\ SessionTypes /\ Formed(x) /\ app \in Applications
  BY Zenon DEF SessionBase, SessionTypes
<1>2. /\ x.pc = "load" /\ x.sent # None /\ store[x.sent] # NoEntry /\ req' = [req EXCEPT ![r] = y]
      /\ UNCHANGED <<nextId, nextToken, shown, jar, store, removed>>
  BY Zenon DEF LoadFound, Live, Present
<1>3. x.sent \in Ids
  BY <1>1, <1>2, Zenon DEF BrowserRequest
<1>4. store[x.sent] \in Entry
  BY Zenon, <1>1, <1>2, <1>3 DEF SessionTypes
<1>5. NoSession \in PrivateSession /\ NoSession.newFlash = None
  BY Zenon, <1>1, SessionBlanks
<1>6. /\ s \in PrivateSession /\ s.id = x.sent /\ s.persistedID = x.sent /\ s.newFlash = None
      /\ s.oldFlash = store[x.sent].flash /\ s.issued = store[x.sent].issued
      /\ s.origin = store[x.sent].origin /\ s.root = store[x.sent].root /\ s.root \in Ids
  <2>1. /\ s.id = x.sent /\ s.persistedID = x.sent /\ s.newFlash = None
        /\ s.oldFlash = store[x.sent].flash /\ s.issued = store[x.sent].issued
        /\ s.origin = store[x.sent].origin /\ s.root = store[x.sent].root
    BY Zenon, <1>5 DEF Loaded, PrivateSession
  <2> QED BY Zenon, <1>3, <1>4, <1>5, <2>1 DEF Loaded, PrivateSession, Entry
<1> HIDE DEF s
<1>7. y \in BrowserRequest /\ y.pc = "loaded" /\ y.cookie = x.cookie /\ y.sess = s
  BY <1>1, <1>6, Zenon DEF BrowserRequest
<1>8. y.cookie = None
  BY Zenon, <1>1, <1>2, <1>7 DEF Formed, Staged
<1> HIDE DEF y
<1>9. Reads(x, y)
  BY Zenon, <1>1, <1>2, <1>3, <1>6, <1>7, <1>8, StoreUntouched DEF Reads
<1>10. Formed(y)
  BY Zenon, <1>3, <1>6, <1>7, <1>8 DEF Formed, Engaged, Active, Staged
<1> QED BY <1>1, <1>2, <1>7, <1>9, <1>10, MovesTo, Zenon DEF RequestStep

LEMMA JudgeMoves ==
    ASSUME SessionBase, NEW r \in Requests, LoadPurge(r) \/ LoadAccept(r)
    PROVE  Moves(r)
<1> DEFINE x == req[r]
<1>1. x \in BrowserRequest /\ SessionTypes /\ Formed(x) /\ app \in Applications /\ x.sess \in PrivateSession
  BY Zenon DEF SessionBase, SessionTypes, BrowserRequest
<1>2. x.pc = "loaded" /\ UNCHANGED <<nextId, nextToken, shown, jar, store, removed>>
  BY Zenon DEF LoadPurge, LoadAccept
<1>3. ASSUME NEW y \in BrowserRequest, req' = [req EXCEPT ![r] = y], y.pc \in {"purge", "handler"},
             y.cookie = x.cookie, SameIdentity(x, y), y.sess.id = x.sess.id,
             y.sess.newFlash = x.sess.newFlash, AbsoluteLifetime > 0 => y.sess.issued = x.sess.issued
      PROVE  Moves(r)
  <2>1. Judges(x, y)
    BY Zenon, <1>1, <1>2, <1>3, StoreUntouched DEF Judges
  <2>2. Formed(y)
    BY Zenon, <1>1, <1>2, <1>3 DEF Formed, Engaged, Active, Staged, SameIdentity
  <2> QED BY <1>1, <1>3, <2>1, <2>2, MovesTo, Zenon DEF RequestStep
<1>4. ASSUME LoadPurge(r) PROVE Moves(r)
  <2> DEFINE y == [x EXCEPT !.pc = "purge"]
  <2>1. y \in BrowserRequest /\ y.pc = "purge" /\ y.cookie = x.cookie /\ y.sess = x.sess
    BY Zenon, <1>1 DEF BrowserRequest
  <2>2. req' = [req EXCEPT ![r] = y]
    BY Zenon, <1>4 DEF LoadPurge
  <2> HIDE DEF y
  <2> QED BY <1>3, <2>1, <2>2, Zenon DEF SameIdentity
<1>5. ASSUME LoadAccept(r) PROVE Moves(r)
  <2> DEFINE at == IF x.sess.issued = ZeroTime THEN now ELSE x.sess.issued
             s == [x.sess EXCEPT !.issued = at]
             y == [x EXCEPT !.pc = "handler", !.sess = s]
  <2>1. at \in 0 .. MaxSessionTime
    BY <1>1, SessionNumbers DEF SessionTypes, PrivateSession
  <2>2. AbsoluteLifetime > 0 => at = x.sess.issued
    BY Zenon, <1>5 DEF LoadAccept, MustPurge
  <2>3. req' = [req EXCEPT ![r] = y]
    BY <1>1, <1>5, Zenon DEF LoadAccept, SessionTypes, BrowserRequest, PrivateSession
  <2> HIDE DEF at
  <2>4. /\ s \in PrivateSession /\ s.id = x.sess.id /\ s.persistedID = x.sess.persistedID /\ s.root = x.sess.root
        /\ s.oldFlash = x.sess.oldFlash /\ s.origin = x.sess.origin /\ s.newFlash = x.sess.newFlash
        /\ s.issued = at
    BY Zenon, <1>1, <2>1 DEF PrivateSession
  <2> HIDE DEF s
  <2>5. y \in BrowserRequest /\ y.pc = "handler" /\ y.cookie = x.cookie /\ y.sess = s
    BY <1>1, <2>4, Zenon DEF BrowserRequest
  <2> HIDE DEF y
  <2> QED BY <1>3, <2>2, <2>3, <2>4, <2>5, Zenon DEF SameIdentity
<1> QED BY Zenon, <1>4, <1>5

LEMMA WorkMoves ==
    ASSUME SessionBase, NEW r \in Requests, Page(r)
    PROVE  Moves(r)
<1> DEFINE x == req[r]
           token == IF x.sess.token = None THEN nextToken ELSE x.sess.token
           s == [x.sess EXCEPT !.token = token]
           y == [x EXCEPT !.pc = "save", !.sess = s, !.form = token]
<1>1. x \in BrowserRequest /\ SessionTypes /\ Formed(x) /\ app \in Applications /\ x.sess \in PrivateSession
  BY Zenon DEF SessionBase, SessionTypes, BrowserRequest
<1>2. /\ x.pc = "handler" /\ token \in Tokens
      /\ nextToken' = nextToken \/ (nextToken \in Tokens /\ nextToken' = nextToken + 1)
      /\ UNCHANGED <<nextId, shown, jar, store, removed>>
  BY Zenon DEF Page, Handles
<1>3. req' = [req EXCEPT ![r] = y]
  BY <1>1, Zenon DEF Page, SessionTypes, BrowserRequest, PrivateSession
<1> HIDE DEF token
<1>4. /\ s \in PrivateSession /\ s.id = x.sess.id /\ s.persistedID = x.sess.persistedID /\ s.root = x.sess.root
      /\ s.oldFlash = x.sess.oldFlash /\ s.origin = x.sess.origin /\ s.newFlash = x.sess.newFlash
      /\ s.issued = x.sess.issued
  BY Zenon, <1>1, <1>2 DEF PrivateSession
<1> HIDE DEF s
<1>5. y \in BrowserRequest /\ y.pc = "save" /\ y.cookie = x.cookie /\ y.sess = s
  BY <1>1, <1>2, <1>4, Zenon DEF BrowserRequest
<1> HIDE DEF y
<1>6. Works(x, y)
  BY Zenon, <1>1, <1>2, <1>4, <1>5, StoreUntouched DEF Works, SameIdentity
<1>7. Formed(y)
  BY Zenon, <1>1, <1>2, <1>4, <1>5 DEF Formed, Engaged, Active, Staged
<1> QED BY <1>1, <1>3, <1>5, <1>6, <1>7, MovesTo, Zenon DEF RequestStep

LEMMA RenewMoves ==
    ASSUME SessionBase, NEW r \in Requests, NEW stamp \in 0 .. MaxVersion, NEW createOnMissing \in BOOLEAN,
           req[r].pc = "handler", Authenticate(r, stamp, createOnMissing),
           UNCHANGED <<shown, jar, store, removed>>
    PROVE  Moves(r)
<1> DEFINE x == req[r]
           s0 == [x.sess EXCEPT !.id = nextId, !.createOnMissing = createOnMissing]
           s == [s0 EXCEPT !.stamp = stamp, !.token = nextToken, !.newFlash = nextToken]
           y == [x EXCEPT !.pc = "save", !.change = createOnMissing, !.sess = s]
<1>1. x \in BrowserRequest /\ SessionTypes /\ Formed(x) /\ app \in Applications /\ x.sess \in PrivateSession
  BY Zenon DEF SessionBase, SessionTypes, BrowserRequest
<1>2. nextId \in Ids /\ nextToken \in Tokens /\ nextId' = nextId + 1 /\ nextToken' = nextToken + 1
  BY Zenon DEF Authenticate
<1>3. req' = [req EXCEPT ![r] = y]
  BY Zenon DEF Authenticate, regenerate
<1>4. /\ s0 \in PrivateSession /\ s0.id = nextId /\ s0.persistedID = x.sess.persistedID /\ s0.root = x.sess.root
      /\ s0.oldFlash = x.sess.oldFlash /\ s0.origin = x.sess.origin /\ s0.issued = x.sess.issued
  BY <1>1, <1>2, Zenon DEF PrivateSession
<1> HIDE DEF s0
<1>5. /\ s \in PrivateSession /\ s.id = nextId /\ s.persistedID = x.sess.persistedID /\ s.root = x.sess.root
      /\ s.oldFlash = x.sess.oldFlash /\ s.origin = x.sess.origin /\ s.issued = x.sess.issued
      /\ s.newFlash = nextToken
  BY <1>2, <1>4, Zenon DEF PrivateSession
<1> HIDE DEF s
<1>6. y \in BrowserRequest /\ y.pc = "save" /\ y.cookie = x.cookie /\ y.sess = s
  BY <1>1, <1>5, Zenon DEF BrowserRequest
<1> HIDE DEF y
<1>7. Renews(x, y)
  BY Zenon, <1>1, <1>2, <1>5, <1>6, StoreUntouched DEF Renews, SameIdentity
<1>8. Formed(y)
  BY Zenon, <1>1, <1>2, <1>5, <1>6 DEF Formed, Engaged, Active, Staged
<1> QED BY <1>1, <1>3, <1>6, <1>7, <1>8, MovesTo, Zenon DEF RequestStep

LEMMA EndMoves ==
    ASSUME SessionBase, NEW r \in Requests, NEW cookie \in {None, DeleteCookie}, EndSession(r, cookie),
           req[r].pc \in {"handler", "save"}, UNCHANGED <<nextId, nextToken, jar, shown>>
    PROVE  Moves(r)
<1> DEFINE x == req[r]
           y == [x EXCEPT !.pc = "respond", !.sess = NoSession, !.cookie = cookie, !.form = None]
<1>1. /\ x \in BrowserRequest /\ SessionTypes /\ Formed(x) /\ app \in Applications
      /\ x.sess.persistedID \in Ids \cup {None}
  BY Zenon DEF SessionBase, SessionTypes, BrowserRequest, PrivateSession
<1>2. req' = [req EXCEPT ![r] = y] /\ Writes(None, x.sess.persistedID, NoEntry)
  BY <1>1, StoreDeletes, Zenon DEF EndSession
<1>3. NoSession \in PrivateSession
  BY Zenon, <1>1, SessionBlanks
<1>4. y \in BrowserRequest /\ y.pc = "respond" /\ y.cookie = cookie /\ y.sess = NoSession
  BY <1>1, <1>3, Zenon DEF BrowserRequest, Cookies
<1> HIDE DEF y
<1>5. Ends(x, y)
  BY Zenon, <1>2, <1>4 DEF Ends
<1>6. Formed(y)
  BY Zenon, <1>4 DEF Formed, Engaged, Active, Staged
<1> QED BY <1>1, <1>2, <1>4, <1>5, <1>6, MovesTo, Zenon DEF RequestStep

LEMMA StageMoves ==
    ASSUME SessionBase, NEW r \in Requests, SaveBegin(r)
    PROVE  Moves(r)
<1> DEFINE x == req[r]
           at == ExpiresAt(x.sess)
           c == CookieFor(x.sess.id, at - now)
           y == [x EXCEPT !.pc = "persist", !.expires = at, !.cookie = c]
<1>1. /\ x \in BrowserRequest /\ SessionTypes /\ Formed(x) /\ app \in Applications
      /\ x.sess.issued \in Nat /\ now \in Nat /\ IdleLifetime \in Nat /\ AbsoluteLifetime \in Nat
  BY SessionNumbers DEF SessionBase, SessionTypes, BrowserRequest, PrivateSession
<1>2. /\ x.pc = "save" /\ req' = [req EXCEPT ![r] = y]
      /\ UNCHANGED <<nextId, nextToken, shown, jar, store, removed>>
  BY Zenon DEF SaveBegin
<1>3. at \in Int /\ (AbsoluteLifetime > 0 => at <= x.sess.issued + AbsoluteLifetime)
  BY <1>1 DEF ExpiresAt
<1> HIDE DEF at
<1>4. x.sess.id \in Ids /\ x.sess.root \in Ids
  BY Zenon, <1>1, <1>2 DEF Formed, Engaged, Active
<1>5. c \in {DeleteCookie, x.sess.id} /\ c \in Cookies
  BY Zenon, <1>4 DEF CookieFor, Cookies
<1> HIDE DEF c
<1>6. y \in BrowserRequest /\ y.pc = "persist" /\ y.cookie = c /\ y.sess = x.sess /\ y.expires = at
  BY <1>1, <1>3, <1>5, Zenon DEF BrowserRequest
<1> HIDE DEF y
<1>7. Stages(x, y)
  BY Zenon, <1>1, <1>2, <1>3, <1>5, <1>6, StoreUntouched DEF Stages
<1>8. Formed(y)
  BY Zenon, <1>4, <1>6 DEF Formed, Engaged, Active, Staged
<1> QED BY <1>1, <1>2, <1>6, <1>7, <1>8, MovesTo, Zenon DEF RequestStep

LEMMA EncodedRow ==
    ASSUME SessionTypes, NEW s \in PrivateSession, NEW expires \in Int, s.root \in Ids
    PROVE  /\ Encoded(s, expires) \in Entry /\ Encoded(s, expires).flash = s.newFlash
           /\ Encoded(s, expires).issued = s.issued /\ Encoded(s, expires).origin = s.origin
           /\ Encoded(s, expires).expires = expires /\ Encoded(s, expires).root = s.root
  BY Zenon DEF Encoded, Entry, PrivateSession

LEMMA SavedRequest ==
    ASSUME SessionBase, NEW r \in Requests, Saved(r), UNCHANGED <<nextId, nextToken, jar>>
    PROVE  \E y \in BrowserRequest :
             req' = [req EXCEPT ![r] = y] /\ Commits(req[r], y) /\ Formed(y)
<1> DEFINE x == req[r]
           y == [x EXCEPT !.pc = "respond"]
<1>1. x \in BrowserRequest
  BY Zenon DEF SessionBase, SessionTypes
<1>2. y \in BrowserRequest /\ y.pc = "respond" /\ y.cookie = x.cookie /\ y.sess = x.sess
  BY Zenon, <1>1 DEF BrowserRequest
<1>3. req' = [req EXCEPT ![r] = y] /\ shown' = shown \cup ({x.sess.oldFlash} \ {None})
  BY Zenon DEF Saved
<1> HIDE DEF y
<1>4. Commits(x, y)
  BY Zenon, <1>2, <1>3 DEF Commits
<1>5. Formed(y)
  BY Zenon, <1>2 DEF Formed, Engaged, Active, Staged
<1> QED BY <1>2, <1>3, <1>4, <1>5, Zenon

LEMMA InsertMoves ==
    ASSUME SessionBase, NEW r \in Requests, PersistNew(r) \/ PersistCreate(r)
    PROVE  Moves(r)
<1> DEFINE x == req[r]
<1>1. /\ x \in BrowserRequest /\ SessionTypes /\ Formed(x) /\ app \in Applications
      /\ x.sess \in PrivateSession /\ x.expires \in Int
  BY Zenon DEF SessionBase, SessionTypes, BrowserRequest
<1>2. Staged(x) /\ Saved(r) /\ UNCHANGED <<nextId, nextToken, jar>>
  BY Zenon DEF PersistNew, PersistCreate, Staged
<1>3. x.sess.id \in Ids /\ x.sess.root \in Ids
  BY Zenon, <1>1, <1>2 DEF Formed, Engaged, Active, Staged
<1>4. PICK y \in BrowserRequest : req' = [req EXCEPT ![r] = y] /\ Commits(x, y) /\ Formed(y)
  BY Zenon, <1>2, SavedRequest
<1>5. ASSUME NEW e \in Entry, Inserts(x, y, e) PROVE Moves(r)
  BY <1>1, <1>4, <1>5, MovesTo, Zenon DEF RequestStep
<1>6. ASSUME PersistNew(r) PROVE Moves(r)
  <2> DEFINE e == Encoded(x.sess, x.expires)
  <2>1. x.pc = "persist" /\ x.sess.persistedID = None /\ SetStore(Create(x.sess.id, e))
    BY Zenon, <1>6 DEF PersistNew
  <2>2. RowOf(x, e, x.sess.root)
    BY Zenon, <1>1, <1>3, EncodedRow DEF RowOf
  <2> HIDE DEF e
  <2>3. e \in Entry /\ Writes(x.sess.id, None, e)
    BY Zenon, <1>1, <1>3, <2>1, <2>2, StoreCreates DEF RowOf
  <2> QED BY Zenon, <1>4, <1>5, <2>1, <2>2, <2>3 DEF Inserts
<1>7. ASSUME PersistCreate(r) PROVE Moves(r)
  <2> DEFINE s == [x.sess EXCEPT !.root = x.sess.id]
             e == Encoded(s, x.expires)
  <2>1. /\ s \in PrivateSession /\ s.root = x.sess.id /\ s.newFlash = x.sess.newFlash
        /\ s.issued = x.sess.issued /\ s.origin = x.sess.origin /\ s.id = x.sess.id
    BY Zenon, <1>1, <1>3 DEF PrivateSession
  <2>2. x.pc = "create" /\ SetStore(Create(s.id, e))
    BY Zenon, <1>7 DEF PersistCreate
  <2> HIDE DEF s
  <2>3. RowOf(x, e, x.sess.id)
    BY Zenon, <1>1, <1>3, <2>1, EncodedRow DEF RowOf
  <2> HIDE DEF e
  <2>4. e \in Entry /\ Writes(x.sess.id, None, e)
    BY Zenon, <1>1, <1>3, <2>1, <2>2, <2>3, StoreCreates DEF RowOf
  <2> QED BY Zenon, <1>4, <1>5, <2>2, <2>3, <2>4 DEF Inserts
<1> QED BY Zenon, <1>6, <1>7

LEMMA ExistingMoves ==
    ASSUME SessionBase, NEW r \in Requests, PersistExisting(r)
    PROVE  Moves(r)
<1> DEFINE x == req[r]
           s == x.sess
           e == Encoded(s, x.expires)
<1>1. /\ x \in BrowserRequest /\ SessionTypes /\ Formed(x) /\ app \in Applications
      /\ s \in PrivateSession /\ x.expires \in Int
  BY Zenon DEF SessionBase, SessionTypes, BrowserRequest
<1>2. /\ x.pc = "persist" /\ s.persistedID # None /\ SetStore(PersistTable(s, x.expires))
      /\ UNCHANGED <<nextId, nextToken, jar>>
  BY Zenon DEF PersistExisting
<1>3. s.id \in Ids /\ s.root \in Ids /\ s.persistedID \in Ids
  BY Zenon, <1>1, <1>2 DEF Formed, Engaged, Active, PrivateSession
<1>4. RowOf(x, e, s.root)
  BY Zenon, <1>1, <1>3, EncodedRow DEF RowOf
<1>5. IF Live(s.persistedID) THEN Writes(s.id, s.persistedID, e) ELSE Writes(None, s.persistedID, NoEntry)
  BY Zenon, <1>1, <1>2, <1>3, <1>4, StoreReplaces DEF RowOf
<1> HIDE DEF e
<1>6. CASE Live(s.persistedID)
  <2>1. Saved(r)
    BY Zenon, <1>6 DEF PersistExisting
  <2>2. PICK y \in BrowserRequest : req' = [req EXCEPT ![r] = y] /\ Commits(x, y) /\ Formed(y)
    BY Zenon, <1>2, <2>1, SavedRequest
  <2>3. Replaces(x, y, e) /\ e \in Entry
    BY Zenon, <1>2, <1>4, <1>5, <1>6, <2>2 DEF Replaces, Live, Present, RowOf
  <2> QED BY <1>1, <2>2, <2>3, MovesTo, Zenon DEF RequestStep
<1>7. CASE ~Live(s.persistedID)
  <2>1. shown' = shown /\ req' = IF CreatesOnMissing(s) THEN [req EXCEPT ![r].pc = "create"] ELSE Discard(r)
    BY Zenon, <1>7 DEF PersistExisting
  <2>2. CASE CreatesOnMissing(s)
    <3> DEFINE y == [x EXCEPT !.pc = "create"]
    <3>1. req' = [req EXCEPT ![r] = y] /\ s.id # s.persistedID
      BY Zenon, <2>1, <2>2 DEF CreatesOnMissing
    <3>2. /\ y \in BrowserRequest /\ y.pc = "create" /\ y.cookie = x.cookie /\ y.sess = x.sess
          /\ y.expires = x.expires
      BY Zenon, <1>1 DEF BrowserRequest
    <3> HIDE DEF y
    <3>3. Misses(x, y)
      BY Zenon, <1>2, <1>5, <1>7, <2>1, <3>1, <3>2 DEF Misses
    <3>4. Formed(y)
      BY Zenon, <1>2, <1>3, <3>1, <3>2 DEF Formed, Engaged, Active, Staged
    <3> QED BY <1>1, <3>1, <3>2, <3>3, <3>4, MovesTo, Zenon DEF RequestStep
  <2>3. CASE ~CreatesOnMissing(s)
    <3> DEFINE y == [x EXCEPT !.pc = "respond", !.cookie = None, !.form = None, !.change = FALSE]
    <3>1. req' = [req EXCEPT ![r] = y]
      BY <2>1, <2>3, Zenon DEF Discard
    <3>2. y \in BrowserRequest /\ y.pc = "respond" /\ y.cookie = None /\ y.sess = x.sess
      BY <1>1, Zenon DEF BrowserRequest, Cookies
    <3> HIDE DEF y
    <3>3. Misses(x, y)
      BY Zenon, <1>2, <1>5, <1>7, <2>1, <3>1, <3>2 DEF Misses
    <3>4. Formed(y)
      BY Zenon, <3>2 DEF Formed, Engaged, Active, Staged
    <3> QED BY <1>1, <3>1, <3>2, <3>3, <3>4, MovesTo, Zenon DEF RequestStep
  <2> QED BY Zenon, <2>2, <2>3
<1> QED BY Zenon, <1>6, <1>7

LEMMA SessionSteps ==
    ASSUME SessionBase, SessionNext
    PROVE  Tick \/ \E r \in Requests : Moves(r)
<1>1. SUFFICES ASSUME NEW r \in Requests,
                      \/ \E unsafe \in BOOLEAN : Send(r, unsafe) \/ HandlerFails(r, unsafe)
                      \/ LoadMissing(r) \/ LoadFound(r) \/ LoadPurge(r) \/ Purge(r) \/ LoadAccept(r)
                      \/ RejectForgery(r) \/ StoreFails(r) \/ Untouched(r) \/ Page(r) \/ Login(r) \/ Change(r)
                      \/ Logout(r) \/ RejectStale(r)
                      \/ SaveExpired(r) \/ SaveBegin(r)
                      \/ PersistNew(r) \/ PersistExisting(r) \/ PersistCreate(r)
                      \/ Deliver(r) \/ Lose(r)
               PROVE  Moves(r)
  BY Zenon DEF SessionNext, SessionStep
<1>2. ASSUME (\E unsafe \in BOOLEAN : HandlerFails(r, unsafe)) \/ RejectForgery(r) \/ StoreFails(r)
      PROVE  Moves(r)
  <2>1. req' = Discard(r) /\ UNCHANGED <<nextId, nextToken, shown, jar, store, removed>>
    BY Zenon, <1>2 DEF HandlerFails, RejectForgery, StoreFails
  <2> QED BY Zenon, <2>1, DiscardMoves
<1>3. ASSUME Login(r) \/ Change(r) PROVE Moves(r)
  <2>1. version \in 0 .. MaxVersion /\ (version < MaxVersion => version + 1 \in 0 .. MaxVersion)
    BY SessionNumbers DEF SessionBase, SessionTypes
  <2>2. CASE Login(r)
    <3>1. /\ req[r].pc = "handler" /\ Authenticate(r, version, FALSE)
          /\ UNCHANGED <<shown, jar, store, removed>>
      BY <2>2, Zenon DEF Login, Handles
    <3> QED BY <2>1, <3>1, RenewMoves, Zenon
  <2>3. CASE Change(r)
    <3>1. /\ req[r].pc = "handler" /\ Authenticate(r, version + 1, TRUE) /\ version < MaxVersion
          /\ UNCHANGED <<shown, jar, store, removed>>
      BY <2>3, Zenon DEF Change, Handles
    <3> QED BY <2>1, <3>1, RenewMoves, Zenon
  <2> QED BY Zenon, <1>3, <2>2, <2>3
<1>4. ASSUME Logout(r) \/ RejectStale(r) \/ SaveExpired(r) PROVE Moves(r)
  <2>1. /\ EndSession(r, DeleteCookie) \/ EndSession(r, None)
        /\ req[r].pc \in {"handler", "save"} /\ UNCHANGED <<nextId, nextToken, jar, shown>>
    BY Zenon, <1>4 DEF Logout, RejectStale, SaveExpired, Handles
  <2> QED BY Zenon, <2>1, EndMoves
<1> QED BY <1>1, <1>2, <1>3, <1>4, BrowserMoves, RestartMoves, ReadMoves, JudgeMoves, WorkMoves, StageMoves,
       InsertMoves, ExistingMoves, Zenon

LEMMA BrowserTypes ==
    ASSUME SessionBase, SessionNext
    PROVE  /\ now' \in 1 .. MaxSessionTime /\ version' \in 1 .. MaxVersion
           /\ page' \in Tokens \cup {None} /\ winner' \in Ids \cup {None}
<1>1. /\ now \in 1 .. MaxSessionTime /\ version \in 1 .. MaxVersion
      /\ page \in Tokens \cup {None} /\ winner \in Ids \cup {None} /\ app \in Applications
      /\ req \in [Requests -> BrowserRequest]
  BY Zenon DEF SessionBase, SessionTypes
<1>2. CASE Tick
  BY <1>1, <1>2, SessionNumbers DEF Tick
<1>3. ASSUME NEW r \in Requests, Change(r)
      PROVE  version' \in 1 .. MaxVersion /\ UNCHANGED <<now, page, winner>>
  BY <1>1, <1>3, SessionNumbers DEF Change
<1>4. ASSUME NEW r \in Requests, Deliver(r)
      PROVE  page' \in Tokens \cup {None} /\ winner' \in Ids \cup {None} /\ UNCHANGED <<now, version>>
  BY Zenon, <1>1, <1>4 DEF Deliver, BrowserRequest
<1>5. CASE UNCHANGED <<now, version, page, winner>>
  BY Zenon, <1>1, <1>5
<1>6. ASSUME NEW r \in Requests,
             \/ \E unsafe \in BOOLEAN : Send(r, unsafe) \/ HandlerFails(r, unsafe)
             \/ LoadMissing(r) \/ LoadFound(r) \/ LoadPurge(r) \/ Purge(r) \/ LoadAccept(r)
             \/ RejectForgery(r) \/ StoreFails(r) \/ Untouched(r) \/ Page(r) \/ Login(r)
             \/ Logout(r) \/ RejectStale(r)
             \/ SaveExpired(r) \/ SaveBegin(r)
             \/ PersistNew(r) \/ PersistExisting(r) \/ PersistCreate(r) \/ Lose(r)
      PROVE  UNCHANGED <<now, version, page, winner>>
  BY <1>6, Zenon DEF Send, HandlerFails, LoadMissing, LoadFound, LoadPurge, Purge, LoadAccept, RejectForgery,
     StoreFails, Untouched, Page, Login, Logout, RejectStale, SaveExpired, SaveBegin, PersistNew,
     PersistExisting, PersistCreate, Lose
<1> QED BY <1>1, <1>2, <1>3, <1>4, <1>5, <1>6, Zenon DEF SessionNext, SessionStep

\* The write of a step, and the id x may write: one it stored before, or its own new one.
LEMMA StepWrites ==
    ASSUME SessionBase, NEW x \in BrowserRequest, Formed(x), NEW y \in BrowserRequest, RequestStep(x, y)
    PROVE  \E w \in Ids \cup {None}, d \in Ids \cup {None}, e \in Entry \cup {NoEntry} :
             /\ Writes(w, d, e)
             /\ w # None => /\ e \in Entry /\ w = x.sess.id /\ Staged(x) /\ y.pc = "respond"
                            /\ Owns(x) \/ (w = x.sess.persistedID /\ store[w] # NoEntry)
<1>1. x.sent \in Ids \cup {None} /\ x.sess.persistedID \in Ids \cup {None}
  BY Zenon DEF BrowserRequest, PrivateSession
<1>2. CASE \E d \in Ids \cup {None} : Writes(None, d, NoEntry)
  BY Zenon, <1>2
<1>3. ASSUME NEW e \in Entry, Inserts(x, y, e) 
      PROVE  Writes(x.sess.id, None, e) /\ x.sess.id \in Ids /\ Staged(x) /\ Owns(x) /\ y.pc = "respond"
  <2>1. x.sess.id \in Ids /\ Staged(x)
    BY Zenon, <1>3 DEF Inserts, Formed, Engaged, Active, Staged
  <2>2. None \notin Ids
    BY Zenon, SessionNumbers DEF SessionBase, SessionTypes
  <2> QED BY Zenon, <1>3, <2>1, <2>2 DEF Inserts, Formed, Owns, Active, Commits
<1>4. ASSUME NEW e \in Entry, Replaces(x, y, e)
      PROVE  /\ Writes(x.sess.id, x.sess.persistedID, e) /\ x.sess.id \in Ids /\ Staged(x) /\ y.pc = "respond"
             /\ Owns(x) \/ (x.sess.id = x.sess.persistedID /\ store[x.sess.id] # NoEntry)
  BY Zenon, <1>4 DEF Replaces, Formed, Engaged, Active, Staged, Owns, Commits
<1>5. Quits(x, y) \/ Restarts(x, y) \/ Reads(x, y) \/ Judges(x, y) \/ Works(x, y) \/ Renews(x, y)
      \/ Ends(x, y) \/ Stages(x, y) \/ Misses(x, y) => \E d \in Ids \cup {None} : Writes(None, d, NoEntry)
  BY <1>1, Zenon DEF Quits, Restarts, Reads, Judges, Works, Renews, Ends, Stages, Misses
<1>6. ASSUME NEW e \in Entry, Inserts(x, y, e) \/ Replaces(x, y, e)
      PROVE  \E w \in Ids \cup {None}, d \in Ids \cup {None} :
             /\ Writes(w, d, e) /\ e \in Entry /\ w = x.sess.id /\ Staged(x) /\ y.pc = "respond"
             /\ Owns(x) \/ (w = x.sess.persistedID /\ store[w] # NoEntry)
  BY <1>1, <1>3, <1>4, <1>6, Zenon
<1> QED BY <1>2, <1>5, <1>6, Zenon DEF RequestStep

LEMMA WritesType ==
    ASSUME SessionTypes, NEW w, NEW d, NEW e \in Entry \cup {NoEntry}, Writes(w, d, e)
    PROVE  store' \in [Ids -> Entry \cup {NoEntry}] /\ removed' \subseteq Ids
  BY Zenon DEF Writes, SessionTypes

LEMMA FirstRows ==
    ASSUME app \in Applications
    PROVE  /\ LegacyEntry \in Entry /\ LegacyEntry.flash = None /\ LegacyEntry.issued = 0
           /\ LegacyEntry.origin = 0 /\ LegacyEntry.expires = IdleLifetime /\ LegacyEntry.root = 1
           /\ LoggedIn \in Entry /\ LoggedIn.flash = None /\ LoggedIn.issued = 1
           /\ LoggedIn.origin = 1 /\ LoggedIn.expires = 1 + IdleLifetime /\ LoggedIn.root = 1
<1>1. /\ NoEntry \in [stamp : Int, token : Int, flash : Int, issued : Int, expires : Int, root : Int, origin : Int]
      /\ NoEntry.flash = None /\ NoEntry.issued = 0 /\ NoEntry.origin = 0
  BY DEF NoEntry, ZeroTime, None
<1>2. /\ 1 \in 0 .. MaxVersion /\ 1 \in Tokens /\ 1 \in Ids /\ 0 \in 0 .. MaxSessionTime
      /\ 1 \in 0 .. MaxSessionTime /\ IdleLifetime \in Int /\ 1 + IdleLifetime \in Int
  BY SessionNumbers
<1>3. /\ LegacyEntry \in Entry /\ LegacyEntry.flash = None /\ LegacyEntry.issued = 0
      /\ LegacyEntry.origin = 0 /\ LegacyEntry.expires = IdleLifetime /\ LegacyEntry.root = 1
  BY <1>1, <1>2, Zenon DEF LegacyEntry, Entry
<1>4. /\ LoggedIn \in Entry /\ LoggedIn.flash = None /\ LoggedIn.issued = 1
      /\ LoggedIn.origin = 1 /\ LoggedIn.expires = 1 + IdleLifetime /\ LoggedIn.root = 1
  BY <1>2, <1>3, Zenon DEF LoggedIn, Entry
<1> QED BY Zenon, <1>3, <1>4

LEMMA SessionBaseInit == SessionInit => SessionBase
<1>1. SUFFICES ASSUME SessionInit PROVE SessionBase
  BY Zenon
<1>2. app \in Applications /\ now = 1 /\ version = 1
  BY Zenon, <1>1 DEF SessionInit
<1>3. NoRequest \in BrowserRequest /\ NoRequest.pc = "idle" /\ NoRequest.cookie = None
  BY Zenon, <1>2, SessionBlanks
<1>4. Formed(NoRequest)
  BY Zenon, <1>3 DEF Formed, Engaged, Active, Staged
<1>5. LegacyEntry \in Entry /\ LoggedIn \in Entry
  BY Zenon, <1>2, FirstRows
<1>6. PICK first \in {NoEntry, LegacyEntry, LoggedIn} :
        /\ store = [i \in Ids |-> IF i = 1 THEN first ELSE NoEntry]
        /\ nextId = (IF first # NoEntry THEN 2 ELSE 1) /\ nextToken = (IF first # NoEntry THEN 2 ELSE 1)
        /\ jar = (IF first # NoEntry THEN 1 ELSE None) /\ page = (IF first # NoEntry THEN 1 ELSE None)
  BY Zenon, <1>1 DEF SessionInit
<1>7. store \in [Ids -> Entry \cup {NoEntry}]
  BY Zenon, <1>5, <1>6
<1>8. /\ nextId \in 1 .. MaxIds + 1 /\ nextToken \in 1 .. MaxTokens + 1
      /\ jar \in Ids \cup {None} /\ page \in Tokens \cup {None}
      /\ now \in 1 .. MaxSessionTime /\ version \in 1 .. MaxVersion
  BY <1>2, <1>6, SessionNumbers
<1>9. req = [r \in Requests |-> NoRequest] /\ removed = {} /\ shown = {} /\ winner = None
  BY Zenon, <1>1 DEF SessionInit
<1> QED BY Zenon, <1>2, <1>3, <1>4, <1>7, <1>8, <1>9 DEF SessionBase, SessionTypes

LEMMA SessionBaseNext == SessionBase /\ [SessionNext]_sessionVars => SessionBase'
<1>1. SUFFICES ASSUME SessionBase, [SessionNext]_sessionVars PROVE SessionBase'
  BY Zenon
<1>0. SessionTypes /\ app \in Applications
  BY Zenon, <1>1 DEF SessionBase, SessionTypes
<1>2. app' = app
  BY Zenon, <1>1 DEF SessionNext, sessionVars
<1>3. CASE UNCHANGED sessionVars
  BY Zenon, <1>1, <1>2, <1>3, SessionSame DEF SessionBase, SessionTypes, sessionVars, Formed
<1>4. CASE SessionNext
  <2>1. /\ now' \in 1 .. MaxSessionTime /\ version' \in 1 .. MaxVersion
        /\ page' \in Tokens \cup {None} /\ winner' \in Ids \cup {None}
    BY Zenon, <1>1, <1>4, BrowserTypes
  <2>2. CASE Tick
    BY Zenon, <1>1, <1>2, <2>1, <2>2, SessionSame DEF SessionBase, SessionTypes, Tick, Formed
  <2>3. ASSUME NEW r \in Requests, Moves(r) PROVE SessionBase'
    <3> DEFINE x == req[r]
               y == req'[r]
    <3>1. x \in BrowserRequest /\ y \in BrowserRequest /\ Formed(x) /\ Formed(y) /\ RequestStep(x, y)
      BY Zenon, <1>1, <2>3 DEF SessionBase, SessionTypes, Moves
    <3>2. req' \in [Requests -> BrowserRequest] /\ \A q \in Requests : Formed(req'[q])
      BY Zenon, <1>1, <2>3 DEF SessionBase, SessionTypes, Moves
    <3>3. store' \in [Ids -> Entry \cup {NoEntry}] /\ removed' \subseteq Ids
      BY Zenon, <1>0, <1>1, <3>1, StepWrites, WritesType
    <3> HIDE DEF x, y
    <3>4. jar' \in Ids \cup {None}
      BY <1>0, <3>1, Zenon DEF SessionTypes, RequestStep, Quits, Restarts, Reads, Judges, Works, Renews, Ends, Stages,
         Misses, Inserts, Replaces, Commits
    <3>5. nextId' = nextId \/ (nextId \in Ids /\ nextId' = nextId + 1)
      BY <3>1, Zenon DEF RequestStep, Quits, Restarts, Reads, Judges, Works, Renews, Ends, Stages,
         Misses, Inserts, Replaces, Commits
    <3>6. nextToken' = nextToken \/ (nextToken \in Tokens /\ nextToken' = nextToken + 1)
      BY <3>1, Zenon DEF RequestStep, Quits, Restarts, Reads, Judges, Works, Renews, Ends, Stages,
         Misses, Inserts, Replaces, Commits
    <3>7. nextId' \in 1 .. MaxIds + 1 /\ nextToken' \in 1 .. MaxTokens + 1
      <4>1. nextId \in 1 .. MaxIds + 1 /\ nextToken \in 1 .. MaxTokens + 1 /\ MaxIds \in Nat /\ MaxTokens \in Nat
        BY Zenon, <1>0, SessionNumbers DEF SessionTypes
      <4>2. (nextId \in Ids => nextId \in 1 .. MaxIds) /\ (nextToken \in Tokens => nextToken \in 1 .. MaxTokens)
        BY Zenon DEF Ids, Tokens
      <4> QED BY <3>5, <3>6, <4>1, <4>2
    <3>8. x.sess.oldFlash \in Tokens \cup {None}
      BY Zenon, <3>1 DEF BrowserRequest, PrivateSession
    <3>9. shown' = shown \/ shown' = shown \cup ({x.sess.oldFlash} \ {None})
      BY <3>1, Zenon DEF RequestStep, Quits, Restarts, Reads, Judges, Works, Renews, Ends, Stages,
         Misses, Inserts, Replaces, Commits
    <3>10. shown' \subseteq Tokens
      BY Zenon, <1>0, <3>8, <3>9 DEF SessionTypes
    <3>11. \A q \in Requests : Formed(req[q])'
      BY Zenon, <1>2, <3>2, SessionSame DEF Formed
    <3> QED BY Zenon, <1>0, <1>2, <2>1, <3>2, <3>3, <3>4, <3>7, <3>10, <3>11, SessionSame DEF SessionBase, SessionTypes
  <2> QED BY Zenon, <1>1, <1>4, <2>2, <2>3, SessionSteps
<1> QED BY Zenon, <1>1, <1>3, <1>4

RecordedNext(i) == store'[i] # NoEntry \/ i \in removed'

\* Once recorded, always recorded; and only the written id becomes so.
LEMMA RecordsGrow ==
    ASSUME SessionBase, NEW w \in Ids \cup {None}, NEW d \in Ids \cup {None}, NEW e \in Entry \cup {NoEntry},
           Writes(w, d, e), w # None => e \in Entry
    PROVE  \A i \in Ids : /\ Recorded(i) => RecordedNext(i)
                          /\ i # w /\ RecordedNext(i) => Recorded(i)
                          /\ i = w => store'[i] # NoEntry
<1>1. NoEntry \notin Entry /\ None \notin Ids
  BY Zenon, SessionBlanks, SessionNumbers DEF SessionBase, SessionTypes
<1>2. SUFFICES ASSUME NEW i \in Ids
               PROVE  /\ Recorded(i) => RecordedNext(i)
                      /\ i # w /\ RecordedNext(i) => Recorded(i)
                      /\ i = w => store'[i] # NoEntry
  BY Zenon
<1>3. store'[i] = IF i = w THEN e ELSE IF i = d THEN NoEntry ELSE store[i]
  BY Zenon DEF Writes
<1>4. i \in removed' <=> i \in removed \/ (store[i] # NoEntry /\ store'[i] = NoEntry)
  BY Zenon DEF Writes
<1> QED BY Zenon, <1>1, <1>3, <1>4 DEF Recorded, RecordedNext

LEMMA IdsMove ==
    ASSUME SessionBase, NEW x \in BrowserRequest, Formed(x), NEW y \in BrowserRequest, RequestStep(x, y)
    PROVE  /\ \/ y.sess.id = nextId /\ nextId \in Ids /\ nextId' = nextId + 1
              \/ (y.sess.id = None \/ y.sess.id = x.sess.id) /\ nextId' = nextId
              \/ y.sess.id = x.sent /\ x.sent \in Ids /\ store[x.sent] # NoEntry /\ ~Owns(y) /\ nextId' = nextId
           /\ Owns(y) => y.sess.id = nextId \/ (y.sess.id = x.sess.id /\ Owns(x))
           /\ y.sess.persistedID \in {None, x.sess.persistedID} \/
                (y.sess.persistedID = x.sent /\ x.sent \in Ids /\ store[x.sent] # NoEntry)
<1>0. NoSession.id = None /\ NoSession.persistedID = None
  BY Zenon, SessionBlanks DEF SessionBase, SessionTypes
<1>1. CASE Quits(x, y)
  BY Zenon, <1>0, <1>1 DEF Quits, Owns, Engaged
<1>2. CASE Restarts(x, y)
  BY Zenon, <1>2 DEF Restarts
<1>3. CASE Reads(x, y)
  BY Zenon, <1>3 DEF Reads, Owns, Active
<1>4. CASE Judges(x, y)
  BY Zenon, <1>4 DEF Judges, SameIdentity, Owns, Active, Formed
<1>5. CASE Works(x, y)
  BY Zenon, <1>5 DEF Works, SameIdentity, Owns, Active
<1>6. CASE Renews(x, y)
  BY Zenon, <1>6 DEF Renews, SameIdentity
<1>7. CASE Ends(x, y)
  BY Zenon, <1>0, <1>7 DEF Ends, Owns, Active
<1>8. CASE Stages(x, y)
  BY Zenon, <1>8 DEF Stages, Owns, Active
<1>9. CASE Misses(x, y)
  BY Zenon, <1>9 DEF Misses, Owns, Active
<1>10. CASE \E e \in Entry : Inserts(x, y, e) \/ Replaces(x, y, e)
  BY Zenon, <1>10 DEF Inserts, Replaces, Commits, Owns, Active
<1> QED BY Zenon, <1>1, <1>2, <1>3, <1>4, <1>5, <1>6, <1>7, <1>8, <1>9, <1>10 DEF RequestStep

LEMMA IdInvMoves ==
    ASSUME SessionBase, IdInv, app' = app, NEW r \in Requests, Moves(r)
    PROVE  IdInv'
<1> DEFINE x == req[r]
           y == req'[r]
<1>0. /\ SessionTypes /\ app \in Applications /\ Ids' = Ids /\ Requests' = Requests
      /\ None \notin Ids /\ DeleteCookie \notin Ids /\ Ids \subseteq Nat /\ nextId \in Nat
  BY SessionSame, SessionNumbers DEF SessionBase, SessionTypes
<1>16. nextId \in Nat /\ nextId >= 1 /\ None = 0 /\ \A i \in Ids \cup {None} : i \in Nat
  BY <1>0 DEF SessionTypes, None
<1>1. /\ x \in BrowserRequest /\ y \in BrowserRequest /\ Formed(x) /\ Formed(y) /\ RequestStep(x, y)
      /\ OwnIds(x) /\ \A q \in Requests \ {r} : req'[q] = req[q]
  BY Zenon DEF SessionBase, SessionTypes, Moves, IdInv
<1>2. /\ x.sess.id \in Ids \cup {None} /\ x.sess.persistedID \in Ids \cup {None}
      /\ y.sess.id \in Ids \cup {None} /\ y.sess.persistedID \in Ids \cup {None}
  BY Zenon, <1>1 DEF BrowserRequest, PrivateSession
<1> HIDE DEF x, y
<1>3. PICK w \in Ids \cup {None}, d \in Ids \cup {None}, e \in Entry \cup {NoEntry} :
        /\ Writes(w, d, e)
        /\ w # None => /\ e \in Entry /\ w = x.sess.id /\ Staged(x) /\ y.pc = "respond"
                       /\ Owns(x) \/ (w = x.sess.persistedID /\ store[w] # NoEntry)
  BY Zenon, <1>1, StepWrites
<1>4. \A i \in Ids : /\ Recorded(i) => RecordedNext(i)
                     /\ i # w /\ RecordedNext(i) => Recorded(i)
                     /\ i = w => store'[i] # NoEntry
  BY Zenon, <1>3, RecordsGrow
<1>5. w # None => w \notin removed /\ w < nextId
  BY Zenon, <1>1, <1>3 DEF IdInv, RemovedStaysRemoved, OwnIds, Recorded, RecordedNext
<1>6. RemovedStaysRemoved'
  <2>1. ASSUME NEW i \in removed' PROVE store'[i] = NoEntry
    <3>1. i \in Ids
      BY <1>0, <1>3, Zenon DEF Writes, SessionTypes
    <3>2. CASE i \in removed
      BY <1>0, <1>3, <1>5, <3>1, <3>2, Zenon DEF Writes, IdInv, RemovedStaysRemoved
    <3> QED BY Zenon, <1>3, <3>2 DEF Writes
  <2> QED BY Zenon, <2>1 DEF RemovedStaysRemoved
<1>7. nextId' \in Nat /\ nextId' >= nextId
  BY <1>0, <1>1, IdsMove
<1>8. \A i \in Ids : i >= nextId' => ~RecordedNext(i)
  <2>1. ASSUME NEW i \in Ids, i >= nextId' PROVE i >= nextId /\ i # w
    BY <1>0, <1>5, <1>7, <2>1
  <2> QED BY Zenon, <1>4, <2>1 DEF IdInv
<1>9. jar' \in Ids => RecordedNext(jar')
  <2>1. jar' = jar \/ jar' = None \/ (x.pc = "respond" /\ jar' = x.cookie)
    BY Zenon, <1>1 DEF RequestStep, Quits, Restarts, Reads, Judges, Works, Renews, Ends, Stages,
       Misses, Inserts, Replaces, Commits
  <2>2. jar' \in Ids => Recorded(jar')
    BY Zenon, <1>0, <1>1, <2>1 DEF IdInv, OwnIds
  <2> QED BY Zenon, <1>4, <2>2 DEF Recorded, RecordedNext
<1>10. ASSUME NEW q \in Requests \ {r} PROVE OwnIds(req[q])'
  <2> DEFINE z == req[q]
  <2>1. z \in BrowserRequest /\ Formed(z) /\ OwnIds(z) /\ req'[q] = z
    BY Zenon, <1>0, <1>1 DEF SessionBase, SessionTypes, IdInv
  <2>2. z.sess.id \in Ids \cup {None} /\ z.sess.persistedID \in Ids \cup {None}
    BY Zenon, <2>1 DEF BrowserRequest, PrivateSession
  <2>3. Owns(z) => z.sess.id \in Ids /\ x.sess.id # z.sess.id
    BY Zenon, <2>1 DEF IdInv, x, Formed, Engaged, Owns
  <2> HIDE DEF z
  <2>4. Owns(z) => ~RecordedNext(z.sess.id)
    <3>1. Owns(z) => z.sess.id # w
      BY Zenon, <1>0, <1>3, <2>3
    <3> QED BY Zenon, <1>4, <2>1, <2>3, <3>1 DEF OwnIds
  <2>5. z.sess.id < nextId'
    <3>1. z.sess.id \in Nat /\ z.sess.id < nextId
      BY Zenon, <1>16, <2>1, <2>2 DEF OwnIds
    <3> QED BY <1>7, <1>16, <3>1
  <2>6. z.sess.persistedID # None => RecordedNext(z.sess.persistedID)
    BY Zenon, <1>4, <2>1, <2>2 DEF OwnIds, Recorded, RecordedNext
  <2>7. z.pc = "create" => z.sess.persistedID \in removed'
    BY Zenon, <1>3, <2>1 DEF OwnIds, Writes
  <2>8. z.pc = "respond" /\ z.cookie \in Ids => RecordedNext(z.cookie)
    BY Zenon, <1>4, <2>1 DEF OwnIds, Recorded, RecordedNext
  <2>9. Staged(z) => z.cookie \in {DeleteCookie, z.sess.id}
    BY Zenon, <2>1 DEF OwnIds
  <2> QED BY Zenon, <1>0, <2>1, <2>4, <2>5, <2>6, <2>7, <2>8, <2>9 DEF OwnIds, Recorded, RecordedNext, z
<1>11. OwnIds(req[r])'
  <2>1. y.sess.id < nextId'
    <3>1. x.sess.id < nextId
      BY Zenon, <1>1 DEF OwnIds
    <3>2. x.sent \in Ids /\ store[x.sent] # NoEntry => x.sent < nextId
      <4>1. ASSUME x.sent \in Ids, store[x.sent] # NoEntry PROVE x.sent \in Nat /\ ~(x.sent >= nextId)
        BY Zenon, <1>16, <4>1 DEF IdInv, Recorded
      <4> QED BY <1>16, <4>1
    <3>3. y.sess.id = nextId \/ y.sess.id = None \/ y.sess.id < nextId
      BY Zenon, <1>1, <3>1, <3>2, IdsMove
    <3>4. y.sess.id \in Nat /\ x.sess.id \in Nat
      BY Zenon, <1>2, <1>16
    <3>5. x.sess.id # nextId /\ None # nextId /\ ~(x.sent \in Ids /\ store[x.sent] # NoEntry /\ x.sent = nextId)
      BY <1>16, <3>1, <3>2, <3>4
    <3>6. y.sess.id = nextId => nextId' = nextId + 1
      BY Zenon, <1>1, <3>5, IdsMove
    <3> QED BY <1>7, <1>16, <3>3, <3>4, <3>6
  <2>2. y.sess.persistedID # None => RecordedNext(y.sess.persistedID)
    BY <1>1, <1>2, <1>4, IdsMove DEF OwnIds, Recorded, RecordedNext
  <2>3. Owns(y) => ~RecordedNext(y.sess.id)
    <3>1. ASSUME Owns(y) PROVE y.sess.id \in Ids /\ ~Recorded(y.sess.id) /\ y.sess.id # w
      <4>1. w = None
        BY Zenon, <1>3, <3>1 DEF Owns, Active
      <4>2. y.sess.id \in Ids
        BY Zenon, <1>1, <3>1 DEF Formed, Owns, Engaged
      <4>3. ~Recorded(y.sess.id)
        BY <1>0, <1>1, <3>1, <4>2, IdsMove DEF OwnIds, IdInv
      <4> QED BY Zenon, <1>0, <4>1, <4>2, <4>3
    <3> QED BY Zenon, <1>4, <3>1 DEF Recorded, RecordedNext
  <2>4. y.pc = "create" => y.sess.persistedID \in removed'
    <3>1. ASSUME y.pc = "create" PROVE Misses(x, y)
      BY Zenon, <1>1, <3>1 DEF RequestStep, Quits, Restarts, Reads, Judges, Works, Renews, Ends, Stages,
         Inserts, Replaces, Commits, Engaged, Active
    <3>2. ASSUME Misses(x, y) PROVE store'[y.sess.persistedID] = NoEntry /\ y.sess.persistedID \in Ids
      BY Zenon, <1>0, <1>2, <3>2 DEF Misses, Writes
    <3> QED BY Zenon, <1>0, <2>2, <3>1, <3>2 DEF Recorded, RecordedNext
  <2>5. Staged(y) => y.cookie \in {DeleteCookie, y.sess.id}
    BY Zenon, <1>1 DEF RequestStep, Quits, Restarts, Reads, Judges, Works, Renews, Ends, Stages,
       Misses, Inserts, Replaces, Commits, Engaged, Active, Staged, OwnIds
  <2>6. y.pc = "respond" /\ y.cookie \in Ids => RecordedNext(y.cookie)
    <3>1. ASSUME y.pc = "respond", y.cookie \in Ids
          PROVE  \E e1 \in Entry : Inserts(x, y, e1) \/ Replaces(x, y, e1)
      BY Zenon, <1>0, <1>1, <3>1 DEF RequestStep, Quits, Restarts, Reads, Judges, Works, Renews, Ends, Stages, Misses
    <3>2. ASSUME NEW e1 \in Entry, Inserts(x, y, e1) \/ Replaces(x, y, e1), y.cookie \in Ids
          PROVE  y.cookie = x.sess.id /\ store'[x.sess.id] = e1
      BY <1>0, <1>1, <3>2 DEF Inserts, Replaces, Commits, Writes, OwnIds, Staged
    <3>3. NoEntry \notin Entry
      BY Zenon, <1>0, SessionBlanks
    <3> QED BY Zenon, <3>1, <3>2, <3>3 DEF Recorded, RecordedNext
  <2> QED BY Zenon, <1>0, <2>1, <2>2, <2>3, <2>4, <2>5, <2>6 DEF OwnIds, Recorded, RecordedNext, y
<1>12. ASSUME NEW q \in Requests \ {r}
       PROVE  /\ Owns(y) => req[q].sess.id # y.sess.id
              /\ Owns(req[q]) => y.sess.id # req[q].sess.id
  <2> DEFINE z == req[q]
  <2>1. z \in BrowserRequest /\ Formed(z) /\ OwnIds(z)
    BY Zenon, <1>0 DEF SessionBase, SessionTypes, IdInv
  <2>2. z.sess.id \in Ids \cup {None}
    BY Zenon, <2>1 DEF BrowserRequest, PrivateSession
  <2>3. Owns(z) => z.sess.id \in Ids /\ x.sess.id # z.sess.id /\ ~Recorded(z.sess.id)
    BY Zenon, <2>1 DEF IdInv, x, Formed, Engaged, Owns, OwnIds
  <2>4. Owns(x) => x.sess.id # z.sess.id
    BY Zenon DEF IdInv, x
  <2>5. z.sess.id < nextId
    BY Zenon, <2>1 DEF OwnIds
  <2> HIDE DEF z
  <2>6. z.sess.id # nextId
    BY <1>16, <2>2, <2>5
  <2>7. Owns(y) => z.sess.id # y.sess.id
    BY Zenon, <1>1, <2>4, <2>6, IdsMove
  <2>8. Owns(z) => y.sess.id # z.sess.id
    <3>1. Owns(z) => z.sess.id # None
      BY Zenon, <1>0, <2>3
    <3> QED BY <1>1, <2>3, <2>6, <3>1, IdsMove DEF Recorded
  <2> QED BY Zenon, <2>7, <2>8 DEF z
<1>13. \A p, q \in Requests : p # q /\ Owns(req'[p]) => req'[q].sess.id # req'[p].sess.id
  BY <1>1, <1>12 DEF y, IdInv
<1>14. \A q \in Requests : OwnIds(req[q])'
  BY Zenon, <1>10, <1>11
<1>15. (\A p, q \in Requests : p # q /\ Owns(req[p]) => req[q].sess.id # req[p].sess.id)'
  BY Zenon, <1>0, <1>13 DEF Owns, Active
<1> QED BY Zenon, <1>0, <1>6, <1>8, <1>9, <1>14, <1>15 DEF IdInv, Recorded, RecordedNext

LEMMA IdInvInit == SessionInit => IdInv
<1>1. SUFFICES ASSUME SessionInit PROVE IdInv
  BY Zenon
<1>2. SessionBase /\ app \in Applications
  BY Zenon, <1>1, SessionBaseInit DEF SessionBase, SessionTypes
<1>3. PICK first \in {NoEntry, LegacyEntry, LoggedIn} :
        /\ store = [i \in Ids |-> IF i = 1 THEN first ELSE NoEntry]
        /\ nextId = (IF first # NoEntry THEN 2 ELSE 1)
        /\ jar = (IF first # NoEntry THEN 1 ELSE None)
  BY Zenon, <1>1 DEF SessionInit
<1>4. req = [r \in Requests |-> NoRequest] /\ removed = {}
  BY Zenon, <1>1 DEF SessionInit
<1>5. NoRequest.pc = "idle" /\ NoRequest.sess.id = None /\ NoRequest.sess.persistedID = None
  BY Zenon, <1>2, SessionBlanks
<1>6. OwnIds(NoRequest) /\ ~Owns(NoRequest)
  BY <1>3, <1>5 DEF OwnIds, Owns, Active, Staged, None
<1>7. \A i \in Ids : i >= nextId => ~Recorded(i)
  <2>1. SUFFICES ASSUME NEW i \in Ids, i >= nextId PROVE store[i] = NoEntry
    BY Zenon, <1>4 DEF Recorded
  <2>2. i \in Nat
    BY Zenon, <1>2, SessionNumbers
  <2> QED BY <1>3, <2>1, <2>2
<1>8. jar \in Ids => Recorded(jar)
  <2>1. None \notin Ids
    BY Zenon, <1>2, SessionNumbers
  <2> QED BY Zenon, <1>3, <2>1 DEF Recorded
<1> QED BY Zenon, <1>4, <1>6, <1>7, <1>8 DEF IdInv, RemovedStaysRemoved

LEMMA IdInvNext == SessionBase /\ IdInv /\ [SessionNext]_sessionVars => IdInv'
<1>1. SUFFICES ASSUME SessionBase, IdInv, [SessionNext]_sessionVars PROVE IdInv'
  BY Zenon
<1>2. app' = app
  BY Zenon, <1>1 DEF SessionNext, sessionVars
<1>3. CASE UNCHANGED <<store, removed, nextId, jar, req>>
  BY <1>1, <1>2, <1>3, SessionSame DEF IdInv, RemovedStaysRemoved, OwnIds, Recorded, Owns, Active, Staged
<1>4. UNCHANGED sessionVars \/ Tick => UNCHANGED <<store, removed, nextId, jar, req>>
  BY Zenon DEF sessionVars, Tick
<1> QED BY Zenon, <1>1, <1>2, <1>3, <1>4, SessionSteps, IdInvMoves

\* An id that was in the store and is not is removed for good; ids not yet drawn, and ids
\* drawn by a request that has not stored them, were never in the store.
THEOREM SessionInvariant == SessionSpec => [](SessionBase /\ IdInv)
<1>1. SessionInit => SessionBase /\ IdInv
  BY Zenon, SessionBaseInit, IdInvInit
<1>2. SessionBase /\ IdInv /\ [SessionNext]_sessionVars => (SessionBase /\ IdInv)'
  BY Zenon, SessionBaseNext, IdInvNext
<1> QED BY <1>1, <1>2, PTL DEF SessionSpec

\* Manager.Save and the store, every interleaving of a browser's requests: an id that
\* a rotation, a logout, an invalidation or an expiry took out of the store never comes back.
THEOREM RemovedNeverReturns == SessionSpec => []RemovedStaysRemoved
<1>1. IdInv => RemovedStaysRemoved
  BY Zenon DEF IdInv
<1> QED BY <1>1, SessionInvariant, PTL

\* The middleware commits a response after Save: the id in its cookie, and so the one in
\* the browser, is in the store or was.
THEOREM CookiesAreStored == SessionSpec => []CookieNamesStoredRow
<1>1. ASSUME SessionBase, IdInv PROVE CookieNamesStoredRow
  <2>1. None \notin Ids
    BY Zenon, <1>1, SessionNumbers DEF SessionBase, SessionTypes
  <2>2. ASSUME NEW q \in Requests, req[q].pc = "respond", req[q].cookie \in Ids PROVE Recorded(req[q].cookie)
    BY Zenon, <1>1, <2>2 DEF IdInv, OwnIds
  <2>3. jar \in Ids => Recorded(jar)
    BY Zenon, <1>1 DEF IdInv
  <2> QED BY Zenon, <2>1, <2>2, <2>3 DEF CookieNamesStoredRow, Recorded, Present
<1> QED BY <1>1, SessionInvariant, PTL

\* The type invariant of the sessions.
THEOREM SessionTyped == SessionSpec => []SessionTypeOK
<1>1. ASSUME SessionBase PROVE SessionTypeOK
  <2>1. SessionTypes
    BY Zenon, <1>1 DEF SessionBase
  <2>2. \A r \in Requests : req[r].cookie \in Cookies /\ req[r].sess.id \in Ids \cup {None}
    BY Zenon, <2>1 DEF SessionTypes, BrowserRequest, PrivateSession
  <2> QED BY Zenon, <2>1, <2>2 DEF SessionTypes, SessionTypeOK
<1> QED BY <1>1, SessionInvariant, PTL

-----------------------------------------------------------------------------
(***************************************************************************)
(* Chains.  A root enters the store once: it is claimed by one request,    *)
(* and a row's root passes to the row that replaces it.                    *)
(***************************************************************************)
LEMMA ClaimsMove ==
    ASSUME SessionBase, NEW x \in BrowserRequest, Formed(x), NEW y \in BrowserRequest, Formed(y),
           RequestStep(x, y)
    PROVE  /\ Claims(y) \subseteq Claims(x) \/ (Claims(y) \subseteq {nextId} /\ nextId' = nextId + 1)
           /\ Engaged(y) => \/ y.sess.persistedID = None
                            \/ y.sess.persistedID = x.sent /\ y.sess.root = store[x.sent].root
                            \/ Engaged(x) /\ y.sess.persistedID = x.sess.persistedID
                                          /\ y.sess.root = x.sess.root
           /\ nextId' = nextId \/ nextId' = nextId + 1
<1>0. None \notin Ids
  BY Zenon, SessionNumbers DEF SessionBase, SessionTypes
<1>1. CASE Quits(x, y)
  BY Zenon, <1>1 DEF Quits, Engaged, Claims
<1>2. CASE Restarts(x, y)
  BY Zenon, <1>2 DEF Restarts, Claims, Active
<1>3. CASE Reads(x, y)
  BY Zenon, <1>3 DEF Reads, Claims, Active
<1>4. CASE Judges(x, y)
  <2>1. y.sess.id = y.sess.persistedID /\ x.sess.id \in Ids /\ x.sess.id = x.sess.persistedID
    BY Zenon, <1>4 DEF Judges, SameIdentity, Formed, Engaged
  <2>2. Claims(y) = {}
    BY Zenon, <1>0, <1>4, <2>1 DEF Claims, Judges
  <2> QED BY Zenon, <1>4, <2>2 DEF Judges, SameIdentity, Engaged
<1>5. CASE Works(x, y)
  BY Zenon, <1>5 DEF Works, SameIdentity, Claims, Active, Engaged
<1>6. CASE Renews(x, y)
  BY Zenon, <1>6 DEF Renews, SameIdentity, Claims, Active, Engaged
<1>7. CASE Ends(x, y)
  BY Zenon, <1>7 DEF Ends, Claims, Active, Engaged
<1>8. CASE Stages(x, y)
  BY Zenon, <1>8 DEF Stages, Claims, Active, Engaged
<1>9. CASE Misses(x, y)
  BY Zenon, <1>9 DEF Misses, Claims, Active, Engaged
<1>10. CASE \E e \in Entry : Inserts(x, y, e) \/ Replaces(x, y, e)
  BY Zenon, <1>10 DEF Inserts, Replaces, Commits, Claims, Active, Engaged
<1> QED BY Zenon, <1>1, <1>2, <1>3, <1>4, <1>5, <1>6, <1>7, <1>8, <1>9, <1>10 DEF RequestStep

\* What a step writes: nothing, a claimed root, or the root of the row it replaces.
LEMMA RootWritten ==
    ASSUME SessionBase, NEW x \in BrowserRequest, Formed(x), NEW y \in BrowserRequest, RequestStep(x, y)
    PROVE  \/ \E d \in Ids \cup {None} : Writes(None, d, NoEntry)
           \/ /\ Staged(x) /\ x.sess.id \in Ids /\ ~Engaged(y) /\ Claims(y) = {} /\ nextId' = nextId
              /\ \E e \in Entry :
                   \/ Writes(x.sess.id, None, e) /\ e.root \in Claims(x) /\ Owns(x)
                   \/ /\ Writes(x.sess.id, x.sess.persistedID, e) /\ e.root = x.sess.root
                      /\ x.sess.persistedID \in Ids /\ store[x.sess.persistedID] # NoEntry
<1>1. x.sent \in Ids \cup {None} /\ x.sess.persistedID \in Ids \cup {None}
  BY Zenon DEF BrowserRequest, PrivateSession
<1>2. None \notin Ids
  BY Zenon, SessionNumbers DEF SessionBase, SessionTypes
<1>3. Quits(x, y) \/ Restarts(x, y) \/ Reads(x, y) \/ Judges(x, y) \/ Works(x, y) \/ Renews(x, y)
      \/ Ends(x, y) \/ Stages(x, y) \/ Misses(x, y) => \E d \in Ids \cup {None} : Writes(None, d, NoEntry)
  BY <1>1, Zenon DEF Quits, Restarts, Reads, Judges, Works, Renews, Ends, Stages, Misses
<1>4. ASSUME NEW e \in Entry, Inserts(x, y, e) \/ Replaces(x, y, e)
      PROVE  Staged(x) /\ x.sess.id \in Ids /\ ~Engaged(y) /\ Claims(y) = {} /\ nextId' = nextId
  BY Zenon, <1>4 DEF Inserts, Replaces, Commits, Staged, Formed, Engaged, Active, Claims
<1>5. ASSUME NEW e \in Entry, Inserts(x, y, e)
      PROVE  Writes(x.sess.id, None, e) /\ e.root \in Claims(x) /\ Owns(x)
  <2>1. x.sess.id \in Ids
    BY Zenon, <1>4, <1>5
  <2> QED BY Zenon, <1>2, <1>5, <2>1 DEF Inserts, RowOf, Claims, Owns, Active, Formed
<1>6. ASSUME NEW e \in Entry, Replaces(x, y, e)
      PROVE  /\ Writes(x.sess.id, x.sess.persistedID, e) /\ e.root = x.sess.root
             /\ x.sess.persistedID \in Ids /\ store[x.sess.persistedID] # NoEntry
  BY Zenon, <1>1, <1>6 DEF Replaces, RowOf
<1> QED BY <1>3, <1>4, <1>5, <1>6, Zenon DEF RequestStep

LEMMA ClaimsAreIds ==
    ASSUME NEW x, Formed(x)
    PROVE  Claims(x) \subseteq Ids
  BY Zenon DEF Formed, Claims, Engaged

\* A row's root is an id, and the blank row has none.
LEMMA RootsAreNumbers ==
    ASSUME SessionTypes, NEW i \in Ids
    PROVE  store[i].root \in Nat /\ (store[i] # NoEntry => store[i].root \in Ids)
<1>1. store[i] \in Entry \/ store[i] = NoEntry
  BY Zenon DEF SessionTypes
<1>2. store[i] \in Entry => store[i].root \in Ids
  BY Zenon DEF Entry
<1>3. NoEntry.root = 0 /\ (store[i].root \in Ids => store[i].root \in Nat)
  BY Zenon, SessionBlanks, SessionNumbers DEF SessionTypes
<1>4. CASE store[i] \in Entry
  BY Zenon, <1>2, <1>3, <1>4
<1>5. CASE store[i] = NoEntry
  <2>1. store[i].root = 0
    BY Zenon, <1>3, <1>5
  <2> QED BY <1>5, <2>1
<1> QED BY Zenon, <1>1, <1>4, <1>5

\* ChainInv after a step, read off the table and the requests after it.
LEMMA ChainPrimed ==
    ASSUME Ids' = Ids, Requests' = Requests,
           \A i \in Ids : store'[i].root < nextId',
           \A i, j \in Ids : i # j /\ store'[i] # NoEntry /\ store'[j] # NoEntry => store'[i].root # store'[j].root,
           \A q \in Requests : \A c \in Claims(req'[q]) : c < nextId' /\ \A i \in Ids : store'[i].root # c,
           \A p, q \in Requests : p # q => Claims(req'[p]) \cap Claims(req'[q]) = {},
           \A q \in Requests : Engaged(req'[q]) /\ req'[q].sess.persistedID # None
                                 /\ store'[req'[q].sess.persistedID] # NoEntry =>
                                 store'[req'[q].sess.persistedID].root = req'[q].sess.root
    PROVE  ChainInv'
<1>1. OneRowPerChain'
  BY Zenon DEF OneRowPerChain, Present
<1>2. (\A r \in Requests : \A c \in Claims(req[r]) : c < nextId /\ \A i \in Ids : store[i].root # c)'
  BY DEF Claims, Active
<1>3. (\A r, q \in Requests : r # q => Claims(req[r]) \cap Claims(req[q]) = {})'
  BY Zenon DEF Claims, Active
<1>4. (\A r \in Requests : Engaged(req[r]) /\ Present(req[r].sess.persistedID) =>
         store[req[r].sess.persistedID].root = req[r].sess.root)'
  BY Zenon DEF Engaged, Active, Present
<1> QED BY Zenon, <1>1, <1>2, <1>3, <1>4 DEF ChainInv

LEMMA ChainQuiet ==
    ASSUME SessionBase, ChainInv, app' = app, NEW r \in Requests, Moves(r),
           NEW d \in Ids \cup {None}, Writes(None, d, NoEntry)
    PROVE  ChainInv'
<1> DEFINE x == req[r]
           y == req'[r]
<1>0. SessionTypes /\ Ids' = Ids /\ Requests' = Requests /\ None \notin Ids /\ NoEntry.root = 0
      /\ nextId \in Nat /\ nextId >= 1 /\ (\A i \in Ids : i \in Nat /\ i # 0)
  BY SessionSame, SessionNumbers, SessionBlanks DEF SessionBase, SessionTypes, None
<1>1. /\ x \in BrowserRequest /\ y \in BrowserRequest /\ Formed(x) /\ Formed(y) /\ RequestStep(x, y)
      /\ \A q \in Requests \ {r} : req'[q] = req[q]
  BY Zenon DEF SessionBase, SessionTypes, Moves
<1>2. \A i \in Ids : store'[i] = store[i] \/ store'[i] = NoEntry
  BY Zenon, <1>0 DEF Writes
<1>3. nextId' \in Nat /\ (nextId' = nextId \/ nextId' = nextId + 1) /\ nextId' >= nextId
  BY <1>0, <1>1, ClaimsMove
<1>4. \A i \in Ids : store[i].root \in Nat /\ store[i].root < nextId /\ (store'[i].root = store[i].root \/ store'[i].root = 0)
  BY Zenon, <1>0, <1>2, RootsAreNumbers DEF ChainInv
<1>5. \A i \in Ids : store'[i].root < nextId'
  BY <1>0, <1>3, <1>4
<1>6. \A i, j \in Ids : i # j /\ store'[i] # NoEntry /\ store'[j] # NoEntry => store'[i].root # store'[j].root
  BY Zenon, <1>0, <1>2 DEF ChainInv, OneRowPerChain, Present
<1>7. ASSUME NEW q \in Requests, NEW c \in Claims(req'[q])
      PROVE  c < nextId' /\ \A i \in Ids : store'[i].root # c
  <2>1. c \in Ids
    BY Zenon, <1>1, <1>7, ClaimsAreIds DEF SessionBase
  <2>2. CASE \E p \in Requests : c \in Claims(req[p])
    <3>1. c < nextId /\ \A i \in Ids : store[i].root # c
      BY Zenon, <2>2 DEF ChainInv
    <3>2. c < nextId'
      BY <1>0, <1>3, <2>1, <3>1
    <3> QED BY Zenon, <1>0, <1>4, <2>1, <3>1, <3>2
  <2>3. CASE c = nextId /\ nextId' = nextId + 1
    <3>1. \A i \in Ids : store[i].root # c
      BY <1>0, <1>4, <2>3
    <3>2. c < nextId'
      BY <1>0, <2>3
    <3> QED BY Zenon, <1>0, <1>4, <2>1, <3>1, <3>2
  <2>4. q # r => c \in Claims(req[q])
    BY Zenon, <1>1, <1>7
  <2>5. q = r => c \in Claims(x) \/ (c = nextId /\ nextId' = nextId + 1)
    BY <1>1, <1>7, ClaimsMove
  <2> QED BY Zenon, <2>2, <2>3, <2>4, <2>5 DEF x
<1>8. ASSUME NEW q \in Requests \ {r} PROVE Claims(y) \cap Claims(req[q]) = {}
  <2>1. Claims(x) \cap Claims(req[q]) = {} /\ \A c \in Claims(req[q]) : c < nextId
    BY Zenon DEF ChainInv
  <2>2. nextId \notin Claims(req[q])
    BY <1>0, <2>1
  <2> QED BY Zenon, <1>1, <2>1, <2>2, ClaimsMove
<1>9. \A p, q \in Requests : p # q => Claims(req'[p]) \cap Claims(req'[q]) = {}
  BY <1>1, <1>8 DEF ChainInv
<1>10. ASSUME NEW q \in Requests, Engaged(req'[q]), req'[q].sess.persistedID # None,
              store'[req'[q].sess.persistedID] # NoEntry
       PROVE  store'[req'[q].sess.persistedID].root = req'[q].sess.root
  <2> DEFINE z == req'[q]
  <2>1. z \in BrowserRequest
    BY Zenon, <1>1 DEF SessionBase, SessionTypes
  <2>2. z.sess.persistedID \in Ids
    BY Zenon, <1>10, <2>1 DEF BrowserRequest, PrivateSession
  <2>3. store'[z.sess.persistedID] = store[z.sess.persistedID] /\ Present(z.sess.persistedID)
    BY Zenon, <1>2, <1>10, <2>2 DEF Present
  <2>4. CASE q # r
    BY <1>1, <1>10, <2>3, <2>4 DEF ChainInv
  <2>5. CASE q = r
    <3>1. \/ z.sess.persistedID = x.sent /\ z.sess.root = store[x.sent].root
          \/ Engaged(x) /\ z.sess.persistedID = x.sess.persistedID /\ z.sess.root = x.sess.root
      BY Zenon, <1>1, <1>10, <2>5, ClaimsMove
    <3> QED BY Zenon, <2>3, <3>1 DEF ChainInv
  <2> QED BY Zenon, <2>4, <2>5
<1> QED BY Zenon, <1>0, <1>5, <1>6, <1>7, <1>9, <1>10, ChainPrimed

LEMMA ChainWrite ==
    ASSUME SessionBase, IdInv, ChainInv, app' = app, NEW r \in Requests, Moves(r), NEW e \in Entry,
           Staged(req[r]), req[r].sess.id \in Ids, ~Engaged(req'[r]), Claims(req'[r]) = {}, nextId' = nextId,
           \/ Writes(req[r].sess.id, None, e) /\ e.root \in Claims(req[r]) /\ Owns(req[r])
           \/ /\ Writes(req[r].sess.id, req[r].sess.persistedID, e) /\ e.root = req[r].sess.root
              /\ req[r].sess.persistedID \in Ids /\ store[req[r].sess.persistedID] # NoEntry
    PROVE  ChainInv'
<1> DEFINE x == req[r]
           w == x.sess.id
           p == x.sess.persistedID
<1>0. SessionTypes /\ Ids' = Ids /\ Requests' = Requests /\ None \notin Ids /\ NoEntry.root = 0
      /\ nextId \in Nat /\ nextId >= 1 /\ (\A i \in Ids : i \in Nat /\ i # 0)
  BY SessionSame, SessionNumbers, SessionBlanks, SMTT(30) DEF SessionBase, SessionTypes, None
<1>1. OwnIds(x) /\ Formed(x) /\ \A q \in Requests \ {r} : req'[q] = req[q]
  BY Zenon DEF SessionBase, SessionTypes, Moves, IdInv
<1>2. \A i \in Ids : i # w => store'[i] = store[i] \/ store'[i] = NoEntry
  BY Zenon DEF Writes
<1>3. store'[w] = e
  BY Zenon DEF Writes
\* The written root is nobody else's: it was claimed, or it was the row's that goes.
<1>4. /\ e.root < nextId
      /\ \A i \in Ids : i # w /\ store'[i] # NoEntry => store[i].root # e.root
      /\ \A q \in Requests \ {r} : e.root \notin Claims(req[q])
  <2>1. CASE e.root \in Claims(x)
    BY Zenon, <2>1 DEF ChainInv
  <2>2. CASE /\ Writes(w, p, e) /\ e.root = x.sess.root /\ p \in Ids /\ store[p] # NoEntry
    <3>1. store[p].root = e.root
      BY Zenon, <1>0, <2>2 DEF ChainInv, Present, Engaged, Active, Staged
    <3>2. \A i \in Ids : i # w /\ store'[i] # NoEntry => i # p /\ store'[i] = store[i]
      BY Zenon, <2>2 DEF Writes
    <3>3. \A i \in Ids : i # p /\ store[i] # NoEntry => store[i].root # e.root
      BY Zenon, <1>0, <2>2, <3>1 DEF ChainInv, OneRowPerChain, Present
    <3> QED BY <2>2, <3>1, <3>2, <3>3 DEF ChainInv
  <2> QED BY Zenon, <2>1, <2>2
<1>5. \A i \in Ids : store'[i].root < nextId'
  <2>1. 0 < nextId'
    BY <1>0
  <2> QED BY Zenon, <1>0, <1>2, <1>3, <1>4, <2>1 DEF ChainInv
<1>6. \A i, j \in Ids : i # j /\ store'[i] # NoEntry /\ store'[j] # NoEntry => store'[i].root # store'[j].root
  BY <1>0, <1>2, <1>3, <1>4 DEF ChainInv, OneRowPerChain, Present
<1>7. ASSUME NEW q \in Requests, NEW c \in Claims(req'[q])
      PROVE  c < nextId' /\ \A i \in Ids : store'[i].root # c
  <2>1. q # r /\ c \in Claims(req[q])
    BY Zenon, <1>1, <1>7
  <2>2. c \in Ids /\ c # e.root /\ c < nextId /\ \A i \in Ids : store[i].root # c
    BY Zenon, <1>4, <2>1, ClaimsAreIds DEF ChainInv, SessionBase
  <2> QED BY Zenon, <1>0, <1>2, <1>3, <2>2
<1>8. \A a, b \in Requests : a # b => Claims(req'[a]) \cap Claims(req'[b]) = {}
  BY Zenon, <1>1 DEF ChainInv
<1>9. ASSUME NEW q \in Requests, Engaged(req'[q]), req'[q].sess.persistedID # None,
             store'[req'[q].sess.persistedID] # NoEntry
      PROVE  store'[req'[q].sess.persistedID].root = req'[q].sess.root
  <2> DEFINE z == req[q]
             k == z.sess.persistedID
  <2>1. q # r /\ req'[q] = z /\ z \in BrowserRequest /\ OwnIds(z)
    BY Zenon, <1>1, <1>9 DEF SessionBase, SessionTypes, IdInv
  <2>2. k \in Ids /\ Recorded(k) /\ k # None
    BY Zenon, <1>9, <2>1 DEF BrowserRequest, PrivateSession, OwnIds
  <2>3. CASE k # w
    <3>1. store'[k] = store[k] /\ Present(k)
      BY Zenon, <1>2, <1>9, <2>1, <2>2, <2>3 DEF Present
    <3> QED BY <1>9, <2>1, <3>1, Zenon DEF ChainInv
  <2>4. CASE k = w
    <3>1. ~Owns(x)
      BY Zenon, <1>1, <2>2, <2>4 DEF OwnIds
    <3>2. p = w
      BY Zenon, <3>1 DEF Owns, Active, Staged
    <3>3. Present(k) /\ store[k].root = x.sess.root /\ e.root = x.sess.root
      BY Zenon, <1>0, <2>2, <2>4, <3>1, <3>2 DEF Present, ChainInv, Engaged, Active, Staged
    <3>4. store[k].root = z.sess.root
      BY Zenon, <1>9, <2>1, <3>3 DEF ChainInv
    <3> QED BY Zenon, <1>3, <2>1, <2>4, <3>3, <3>4
  <2> QED BY Zenon, <2>3, <2>4
<1> QED BY Zenon, <1>0, <1>5, <1>6, <1>7, <1>8, <1>9, ChainPrimed

LEMMA ChainInvNext == SessionBase /\ IdInv /\ ChainInv /\ [SessionNext]_sessionVars => ChainInv'
<1>1. SUFFICES ASSUME SessionBase, IdInv, ChainInv, [SessionNext]_sessionVars PROVE ChainInv'
  BY Zenon
<1>2. app' = app
  BY Zenon, <1>1 DEF SessionNext, sessionVars
<1>3. CASE UNCHANGED <<store, nextId, req>>
  <2>1. Ids' = Ids /\ Requests' = Requests /\ None \notin Ids
    BY Zenon, <1>1, <1>2, SessionSame, SessionNumbers DEF SessionBase, SessionTypes
  <2>2. \A i, j \in Ids : i # j /\ store[i] # NoEntry /\ store[j] # NoEntry => store[i].root # store[j].root
    BY Zenon, <1>1, <2>1 DEF ChainInv, OneRowPerChain, Present
  <2>3. \A q \in Requests : Engaged(req[q]) /\ req[q].sess.persistedID # None
                            /\ store[req[q].sess.persistedID] # NoEntry =>
                            store[req[q].sess.persistedID].root = req[q].sess.root
    BY Zenon, <1>1 DEF ChainInv, Present
  <2>4. /\ \A i \in Ids : store[i].root < nextId
        /\ \A q \in Requests : \A c \in Claims(req[q]) : c < nextId /\ \A i \in Ids : store[i].root # c
        /\ \A p, q \in Requests : p # q => Claims(req[p]) \cap Claims(req[q]) = {}
    BY Zenon, <1>1 DEF ChainInv
  <2> QED BY Zenon, <1>3, <2>1, <2>2, <2>3, <2>4, ChainPrimed
<1>4. UNCHANGED sessionVars \/ Tick => UNCHANGED <<store, nextId, req>>
  BY Zenon DEF sessionVars, Tick
<1>5. ASSUME NEW r \in Requests, Moves(r) PROVE ChainInv'
  <2> DEFINE x == req[r]
             y == req'[r]
  <2>1. x \in BrowserRequest /\ y \in BrowserRequest /\ Formed(x) /\ RequestStep(x, y)
    BY Zenon, <1>1, <1>5 DEF SessionBase, SessionTypes, Moves
  <2>2. CASE \E d \in Ids \cup {None} : Writes(None, d, NoEntry)
    BY Zenon, <1>1, <1>2, <1>5, <2>2, ChainQuiet
  <2>3. CASE ~\E d \in Ids \cup {None} : Writes(None, d, NoEntry)
    BY <1>1, <1>2, <1>5, <2>1, <2>3, RootWritten, ChainWrite, Zenon
  <2> QED BY Zenon, <2>2, <2>3
<1> QED BY Zenon, <1>1, <1>3, <1>4, <1>5, SessionSteps

LEMMA ChainInvInit == SessionInit => ChainInv
<1>1. SUFFICES ASSUME SessionInit PROVE ChainInv
  BY Zenon
<1>2. SessionBase /\ app \in Applications
  BY Zenon, <1>1, SessionBaseInit DEF SessionBase, SessionTypes
<1>3. PICK first \in {NoEntry, LegacyEntry, LoggedIn} :
        /\ store = [i \in Ids |-> IF i = 1 THEN first ELSE NoEntry]
        /\ nextId = (IF first # NoEntry THEN 2 ELSE 1)
  BY Zenon, <1>1 DEF SessionInit
<1>4. NoEntry.root = 0 /\ LegacyEntry.root = 1 /\ LoggedIn.root = 1
  BY Zenon, <1>2, SessionBlanks, FirstRows
<1>5. \A i \in Ids : store[i].root < nextId
  BY <1>3, <1>4
<1>6. \A r \in Requests : ~Active(req[r]) /\ ~Engaged(req[r])
  BY Zenon, <1>1, <1>2, SessionBlanks DEF SessionInit, Active, Engaged
<1>7. OneRowPerChain
  BY Zenon, <1>3 DEF OneRowPerChain, Present
<1> QED BY Zenon, <1>5, <1>6, <1>7 DEF ChainInv, Claims

\* Store.Rotate, every interleaving: of the requests that rotate one session at most one
\* leaves a row, and a session without a row is stored once.
THEOREM ChainsKeepOneRow == SessionSpec => []OneRowPerChain
<1>1. SessionBase /\ IdInv /\ ChainInv /\ [SessionNext]_sessionVars => ChainInv'
  BY Zenon, ChainInvNext
<1>2. SessionInit => ChainInv
  BY Zenon, ChainInvInit
<1>3. ChainInv => OneRowPerChain
  BY Zenon DEF ChainInv
<1> QED BY <1>1, <1>2, <1>3, SessionInvariant, PTL DEF SessionSpec

-----------------------------------------------------------------------------
(***************************************************************************)
(* The absolute deadline.  Where it applies a session keeps the time it    *)
(* was issued at through every save, rotation and reload.                  *)
(***************************************************************************)
LEMMA RowWritten ==
    ASSUME SessionBase, NEW x \in BrowserRequest, Formed(x), NEW y \in BrowserRequest, RequestStep(x, y)
    PROVE  \/ shown' = shown /\ \E d \in Ids \cup {None} : Writes(None, d, NoEntry)
           \/ /\ Staged(x) /\ x.sess.id \in Ids /\ y.pc = "respond" /\ y.sess = x.sess /\ nextToken' = nextToken
              /\ shown' = shown \cup ({x.sess.oldFlash} \ {None})
              /\ \E e \in Entry, d \in Ids \cup {None} :
                   /\ Writes(x.sess.id, d, e) /\ e.flash = x.sess.newFlash
                   /\ e.issued = x.sess.issued /\ e.origin = x.sess.origin /\ e.expires = x.expires
                   /\ d = x.sess.persistedID \/ x.sess.persistedID = None \/ x.pc = "create"
<1>1. x.sent \in Ids \cup {None} /\ x.sess.persistedID \in Ids \cup {None}
  BY Zenon DEF BrowserRequest, PrivateSession
<1>2. Quits(x, y) \/ Restarts(x, y) \/ Reads(x, y) \/ Judges(x, y) \/ Works(x, y) \/ Renews(x, y)
      \/ Ends(x, y) \/ Stages(x, y) \/ Misses(x, y)
        => shown' = shown /\ \E d \in Ids \cup {None} : Writes(None, d, NoEntry)
  BY <1>1, Zenon DEF Quits, Restarts, Reads, Judges, Works, Renews, Ends, Stages, Misses
<1>3. ASSUME NEW e \in Entry, Inserts(x, y, e) \/ Replaces(x, y, e)
      PROVE  /\ Staged(x) /\ x.sess.id \in Ids /\ y.pc = "respond" /\ y.sess = x.sess /\ nextToken' = nextToken
             /\ shown' = shown \cup ({x.sess.oldFlash} \ {None})
             /\ e.flash = x.sess.newFlash
             /\ e.issued = x.sess.issued /\ e.origin = x.sess.origin /\ e.expires = x.expires
  BY Zenon, <1>3 DEF Inserts, Replaces, Commits, Staged, Formed, Engaged, Active, RowOf
<1>4. ASSUME NEW e \in Entry, Inserts(x, y, e) \/ Replaces(x, y, e)
      PROVE  \E d \in Ids \cup {None} :
               /\ Writes(x.sess.id, d, e)
               /\ d = x.sess.persistedID \/ x.sess.persistedID = None \/ x.pc = "create"
  BY <1>1, <1>4, Zenon DEF Inserts, Replaces
<1> QED BY <1>2, <1>3, <1>4, Zenon DEF RequestStep

LEMMA DeadlineMoves ==
    ASSUME SessionBase, NEW x \in BrowserRequest, Formed(x), NEW y \in BrowserRequest, RequestStep(x, y),
           AbsoluteLifetime > 0, x.sess.issued = x.sess.origin,
           \A i \in Ids : store[i].issued = store[i].origin,
           Staged(x) => x.expires <= x.sess.origin + AbsoluteLifetime
    PROVE  /\ y.sess.issued = y.sess.origin
           /\ Staged(y) => y.expires <= y.sess.origin + AbsoluteLifetime
<1>0. NoSession.issued = NoSession.origin
  BY Zenon, SessionBlanks DEF SessionBase, SessionTypes
<1>1. CASE Quits(x, y)
  BY Zenon, <1>0, <1>1 DEF Quits, Engaged, Active, Staged
<1>2. CASE Restarts(x, y) \/ Reads(x, y)
  BY Zenon, <1>2 DEF Restarts, Reads, Staged
<1>3. CASE Judges(x, y) \/ Works(x, y) \/ Renews(x, y)
  BY Zenon, <1>3 DEF Judges, Works, Renews, SameIdentity, Staged
<1>4. CASE Ends(x, y)
  BY Zenon, <1>0, <1>4 DEF Ends, Staged
<1>5. CASE Stages(x, y)
  BY Zenon, <1>5 DEF Stages
<1>6. CASE Misses(x, y)
  BY Zenon, <1>6 DEF Misses, Staged
<1>7. CASE \E e \in Entry : Inserts(x, y, e) \/ Replaces(x, y, e)
  BY Zenon, <1>7 DEF Inserts, Replaces, Commits, Staged
<1> QED BY Zenon, <1>1, <1>2, <1>3, <1>4, <1>5, <1>6, <1>7 DEF RequestStep

LEMMA DeadlineInvNext == SessionBase /\ DeadlineInv /\ [SessionNext]_sessionVars => DeadlineInv'
<1>1. SUFFICES ASSUME SessionBase, DeadlineInv, [SessionNext]_sessionVars, AbsoluteLifetime' > 0
               PROVE  /\ \A i \in Ids' : /\ store'[i].issued = store'[i].origin
                                         /\ store'[i].expires <= store'[i].origin + AbsoluteLifetime'
                      /\ \A r \in Requests' : req'[r].sess.issued = req'[r].sess.origin
                      /\ \A r \in Requests' : Staged(req'[r]) => req'[r].expires <= req'[r].sess.origin + AbsoluteLifetime'
  BY Zenon DEF DeadlineInv, Staged
<1>2. app' = app
  BY Zenon, <1>1 DEF SessionNext, sessionVars
<1>3. /\ Ids' = Ids /\ Requests' = Requests /\ AbsoluteLifetime' = AbsoluteLifetime /\ AbsoluteLifetime > 0
      /\ None \notin Ids /\ AbsoluteLifetime \in Nat
      /\ NoEntry.issued = 0 /\ NoEntry.origin = 0 /\ NoEntry.expires = 0
  BY Zenon, <1>1, <1>2, SessionSame, SessionNumbers, SessionBlanks DEF SessionBase, SessionTypes
<1>4. /\ \A i \in Ids : store[i].issued = store[i].origin /\ store[i].expires <= store[i].origin + AbsoluteLifetime
      /\ \A r \in Requests : req[r].sess.issued = req[r].sess.origin
      /\ \A r \in Requests : Staged(req[r]) => req[r].expires <= req[r].sess.origin + AbsoluteLifetime
  BY Zenon, <1>1, <1>3 DEF DeadlineInv
<1>5. CASE UNCHANGED <<store, req>>
  BY Zenon, <1>3, <1>4, <1>5
<1>6. UNCHANGED sessionVars \/ Tick => UNCHANGED <<store, req>>
  BY Zenon DEF sessionVars, Tick
<1>7. ASSUME NEW r \in Requests, Moves(r)
      PROVE  /\ \A i \in Ids : store'[i].issued = store'[i].origin /\ store'[i].expires <= store'[i].origin + AbsoluteLifetime
             /\ \A q \in Requests : req'[q].sess.issued = req'[q].sess.origin
             /\ \A q \in Requests : Staged(req'[q]) => req'[q].expires <= req'[q].sess.origin + AbsoluteLifetime
  <2> DEFINE x == req[r]
             y == req'[r]
  <2>1. x \in BrowserRequest /\ y \in BrowserRequest /\ Formed(x) /\ RequestStep(x, y)
        /\ \A q \in Requests \ {r} : req'[q] = req[q]
    BY Zenon, <1>1, <1>7 DEF SessionBase, SessionTypes, Moves
  <2>2. /\ y.sess.issued = y.sess.origin
        /\ Staged(y) => y.expires <= y.sess.origin + AbsoluteLifetime
    BY Zenon, <1>1, <1>3, <1>4, <2>1, DeadlineMoves
  <2>3. ASSUME NEW i \in Ids
        PROVE  \/ store'[i] = NoEntry \/ store'[i] = store[i]
               \/ /\ Staged(x) /\ store'[i].issued = x.sess.issued /\ store'[i].origin = x.sess.origin
                  /\ store'[i].expires = x.expires
    BY <1>1, <1>3, <2>1, RowWritten DEF Writes
  <2>4. \A i \in Ids : store'[i].issued = store'[i].origin /\ store'[i].expires <= store'[i].origin + AbsoluteLifetime
    <3>1. SUFFICES ASSUME NEW i \in Ids
                   PROVE  store'[i].issued = store'[i].origin /\ store'[i].expires <= store'[i].origin + AbsoluteLifetime
      BY Zenon
    <3>2. CASE store'[i] = NoEntry
      BY <1>3, <3>2
    <3>3. CASE store'[i] = store[i]
      BY Zenon, <1>4, <3>3
    <3> QED BY Zenon, <1>4, <2>3, <3>2, <3>3
  <2> QED BY Zenon, <1>4, <2>1, <2>2, <2>4
<1> QED BY Zenon, <1>1, <1>3, <1>5, <1>6, <1>7, SessionSteps

LEMMA DeadlineInvInit == SessionInit => DeadlineInv
<1>1. SUFFICES ASSUME SessionInit, AbsoluteLifetime > 0 PROVE DeadlineInv
  BY Zenon DEF DeadlineInv
<1>2. SessionBase /\ app \in Applications
  BY Zenon, <1>1, SessionBaseInit DEF SessionBase, SessionTypes
<1>3. PICK first \in {NoEntry, LegacyEntry, LoggedIn} : store = [i \in Ids |-> IF i = 1 THEN first ELSE NoEntry]
  BY Zenon, <1>1 DEF SessionInit
<1>4. /\ NoEntry.issued = 0 /\ NoEntry.origin = 0 /\ NoEntry.expires = 0
      /\ LegacyEntry.issued = 0 /\ LegacyEntry.origin = 0 /\ LegacyEntry.expires = IdleLifetime
      /\ LoggedIn.issued = 1 /\ LoggedIn.origin = 1 /\ LoggedIn.expires = 1 + IdleLifetime
  BY Zenon, <1>2, SessionBlanks, FirstRows
<1>5. IdleLifetime \in Nat /\ AbsoluteLifetime \in Nat /\ AbsoluteLifetime >= IdleLifetime
  BY <1>1, <1>2, SessionNumbers
<1>6. \A i \in Ids : store[i].issued = store[i].origin /\ store[i].expires <= store[i].origin + AbsoluteLifetime
  BY <1>3, <1>4, <1>5
<1>7. \A r \in Requests : req[r].sess.issued = req[r].sess.origin /\ ~Staged(req[r])
  BY Zenon, <1>1, <1>2, SessionBlanks DEF SessionInit, Staged
<1> QED BY Zenon, <1>6, <1>7 DEF DeadlineInv

\* Manager.Save under an absolute lifetime: no sequence of saves, rotations and reloads,
\* by any number of requests, moves a row's expiry past the deadline of its chain.
THEOREM DeadlineHolds == SessionSpec => []AbsoluteDeadline
<1>1. SessionBase /\ DeadlineInv /\ [SessionNext]_sessionVars => DeadlineInv'
  BY Zenon, DeadlineInvNext
<1>2. SessionInit => DeadlineInv
  BY Zenon, DeadlineInvInit
<1>3. DeadlineInv => AbsoluteDeadline
  BY Zenon DEF DeadlineInv, AbsoluteDeadline
<1> QED BY <1>1, <1>2, <1>3, SessionInvariant, PTL DEF SessionSpec

-----------------------------------------------------------------------------
(***************************************************************************)
(* Notices.  A notice that is not stored yet is known to one request; one  *)
(* that is stored is in one row, and whoever displays it loaded that row.  *)
(***************************************************************************)
LEMMA NoticesMove ==
    ASSUME SessionBase, NEW x \in BrowserRequest, Formed(x), NEW y \in BrowserRequest, RequestStep(x, y),
           x.pc \in {"loaded", "purge"} => x.sess.newFlash = None
    PROVE  /\ Pending(y) => \/ Pending(x) /\ y.sess.newFlash = x.sess.newFlash
                            \/ y.sess.newFlash = nextToken /\ nextToken' = nextToken + 1
           /\ Displays(y) => \/ /\ Displays(x) /\ y.sess.oldFlash = x.sess.oldFlash
                                /\ y.sess.persistedID = x.sess.persistedID
                             \/ /\ x.sent \in Ids /\ y.sess.oldFlash = store[x.sent].flash
                                /\ y.sess.persistedID = x.sent /\ y.pc = "loaded"
           /\ y.pc \in {"loaded", "purge"} => y.sess.newFlash = None
           /\ nextToken' = nextToken \/ nextToken' = nextToken + 1
<1>1. CASE Quits(x, y)
  BY Zenon, <1>1 DEF Quits, Engaged, Pending, Displays
<1>2. CASE Restarts(x, y)
  BY Zenon, <1>2 DEF Restarts, Pending, Displays
<1>3. CASE Reads(x, y)
  BY Zenon, <1>3 DEF Reads, Pending
<1>4. CASE Judges(x, y)
  BY Zenon, <1>4 DEF Judges, SameIdentity, Pending, Displays, Engaged, Active
<1>5. CASE Works(x, y)
  BY Zenon, <1>5 DEF Works, SameIdentity, Pending, Displays, Engaged, Active
<1>6. CASE Renews(x, y)
  BY Zenon, <1>6 DEF Renews, SameIdentity, Displays, Engaged, Active
<1>7. CASE Ends(x, y)
  BY Zenon, <1>7 DEF Ends, Pending, Displays, Engaged, Active
<1>8. CASE Stages(x, y)
  BY Zenon, <1>8 DEF Stages, Pending, Displays, Engaged, Active
<1>9. CASE Misses(x, y)
  BY Zenon, <1>9 DEF Misses, Pending, Displays, Engaged, Active
<1>10. CASE \E e \in Entry : Inserts(x, y, e) \/ Replaces(x, y, e)
  BY Zenon, <1>10 DEF Inserts, Replaces, Commits, Pending, Displays, Engaged, Active
<1> QED BY Zenon, <1>1, <1>2, <1>3, <1>4, <1>5, <1>6, <1>7, <1>8, <1>9, <1>10 DEF RequestStep

\* NoticeInv after a step, read off the table, the history and the requests after it.
LEMMA NoticePrimed ==
    ASSUME Ids' = Ids, Requests' = Requests,
           \A i \in Ids : store'[i].flash \notin shown' /\ store'[i].flash < nextToken',
           \A t \in shown' : t < nextToken',
           \A q \in Requests : req'[q].pc \in {"loaded", "purge"} => req'[q].sess.newFlash = None,
           \A i, j \in Ids : i # j /\ store'[i].flash # None => store'[i].flash # store'[j].flash,
           \A q \in Requests : Pending(req'[q]) =>
             /\ req'[q].sess.newFlash < nextToken' /\ req'[q].sess.newFlash \notin shown'
             /\ \A i \in Ids : store'[i].flash # req'[q].sess.newFlash,
           \A p, q \in Requests : Pending(req'[q]) /\ Displays(req'[p]) => req'[p].sess.oldFlash # req'[q].sess.newFlash,
           \A p, q \in Requests : p # q /\ Pending(req'[q]) /\ Pending(req'[p]) =>
                                    req'[p].sess.newFlash # req'[q].sess.newFlash,
           \A q \in Requests : Displays(req'[q]) =>
             /\ req'[q].sess.oldFlash < nextToken' /\ req'[q].sess.persistedID # None
             /\ \A i \in Ids : store'[i].flash = req'[q].sess.oldFlash => i = req'[q].sess.persistedID
    PROVE  NoticeInv'
<1>1. NoticeShownOnce'
  BY Zenon DEF NoticeShownOnce
<1>2. (\A r \in Requests : Pending(req[r]) =>
         /\ req[r].sess.newFlash < nextToken /\ req[r].sess.newFlash \notin shown
         /\ \A i \in Ids : store[i].flash # req[r].sess.newFlash
         /\ \A q \in Requests : Displays(req[q]) => req[q].sess.oldFlash # req[r].sess.newFlash
         /\ \A q \in Requests : q # r /\ Pending(req[q]) => req[q].sess.newFlash # req[r].sess.newFlash)'
  BY DEF Pending, Displays, Engaged, Active
<1>3. (\A r \in Requests : Displays(req[r]) =>
         /\ req[r].sess.oldFlash < nextToken /\ req[r].sess.persistedID # None
         /\ \A i \in Ids : store[i].flash = req[r].sess.oldFlash => i = req[r].sess.persistedID)'
  BY Zenon DEF Displays, Engaged, Active
<1> QED BY Zenon, <1>1, <1>2, <1>3 DEF NoticeInv

\* Notices in rows, and pending ones, are pairwise different.
LEMMA NoticesApart ==
    ASSUME NoticeInv
    PROVE  /\ \A i, j \in Ids : i # j /\ store[i].flash # None => store[i].flash # store[j].flash
           /\ \A r \in Requests : req[r].pc \in {"loaded", "purge"} => req[r].sess.newFlash = None
           /\ \A r, q \in Requests : r # q /\ Pending(req[r]) /\ Pending(req[q]) =>
                                          req[q].sess.newFlash # req[r].sess.newFlash
           /\ \A r \in Requests, i \in Ids : Pending(req[r]) => store[i].flash # req[r].sess.newFlash
<1>1. \A i, j \in Ids : i # j /\ store[i].flash # None => store[i].flash # store[j].flash
  BY Zenon DEF NoticeInv
<1>2. \A r \in Requests : req[r].pc \in {"loaded", "purge"} => req[r].sess.newFlash = None
  BY Zenon DEF NoticeInv
<1>3. \A r, q \in Requests : r # q /\ Pending(req[r]) /\ Pending(req[q]) => req[q].sess.newFlash # req[r].sess.newFlash
  BY Zenon DEF NoticeInv
<1>4. \A r \in Requests, i \in Ids : Pending(req[r]) => store[i].flash # req[r].sess.newFlash
  BY Zenon DEF NoticeInv
<1> QED BY Zenon, <1>1, <1>2, <1>3, <1>4

LEMMA NoticeQuiet ==
    ASSUME SessionBase, NoticeInv, app' = app, NEW r \in Requests, Moves(r),
           NEW d \in Ids \cup {None}, Writes(None, d, NoEntry), shown' = shown
    PROVE  NoticeInv'
<1> DEFINE x == req[r]
           y == req'[r]
<1>0. SessionTypes /\ Ids' = Ids /\ Requests' = Requests /\ None \notin Ids /\ NoEntry.flash = None
      /\ nextToken \in Nat /\ nextToken >= 1 /\ None = 0 /\ None \notin shown
      /\ (\A t \in Tokens \cup {None} : t \in Nat)
  BY SessionSame, SessionNumbers, SessionBlanks, SMTT(30) DEF SessionBase, SessionTypes, None
<1>1. /\ x \in BrowserRequest /\ y \in BrowserRequest /\ Formed(x) /\ RequestStep(x, y)
      /\ \A q \in Requests \ {r} : req'[q] = req[q]
  BY Zenon DEF SessionBase, SessionTypes, Moves
<1>2. \A i \in Ids : store'[i].flash = store[i].flash \/ store'[i].flash = None
  BY Zenon, <1>0 DEF Writes
<1>3. \A i \in Ids : store[i].flash \in Nat
  <2>1. \A i \in Ids : store[i].flash \in Tokens \cup {None}
    BY Zenon, <1>0 DEF SessionTypes, Entry
  <2> QED BY Zenon, <1>0, <2>1
<1>4. /\ Pending(y) => \/ Pending(x) /\ y.sess.newFlash = x.sess.newFlash
                       \/ y.sess.newFlash = nextToken /\ nextToken' = nextToken + 1
      /\ Displays(y) => \/ /\ Displays(x) /\ y.sess.oldFlash = x.sess.oldFlash
                           /\ y.sess.persistedID = x.sess.persistedID
                        \/ /\ x.sent \in Ids /\ y.sess.oldFlash = store[x.sent].flash
                           /\ y.sess.persistedID = x.sent /\ y.pc = "loaded"
      /\ y.pc \in {"loaded", "purge"} => y.sess.newFlash = None
      /\ nextToken' = nextToken \/ nextToken' = nextToken + 1
  BY Zenon, <1>1, NoticesMove DEF NoticeInv
<1>5. nextToken' \in Nat /\ nextToken' >= nextToken
  BY SMTT(30), <1>0, <1>4
<1>6. \A n \in Nat : n < nextToken => n < nextToken' /\ n # nextToken
  BY <1>0, <1>5
<1> HIDE DEF x, y
<1>7. \A i \in Ids : store'[i].flash \notin shown' /\ store'[i].flash < nextToken'
  <2>1. None \in Nat /\ None < nextToken
    BY <1>0
  <2> QED BY Zenon, <1>0, <1>2, <1>3, <1>6, <2>1 DEF NoticeInv, NoticeShownOnce
<1>8. \A t \in shown' : t < nextToken'
  BY Zenon, <1>0, <1>6 DEF NoticeInv, SessionTypes
<1>9. \A i, j \in Ids : i # j /\ store'[i].flash # None => store'[i].flash # store'[j].flash
  BY Zenon, <1>2, NoticesApart
\* A pending notice was pending before, or is the next token.
<1>10. ASSUME NEW q \in Requests, Pending(req'[q])
       PROVE  /\ \/ Pending(req[q]) /\ req'[q].sess.newFlash = req[q].sess.newFlash
                 \/ req'[q].sess.newFlash = nextToken /\ nextToken' = nextToken + 1 /\ q = r
              /\ req'[q].sess.newFlash # None
  BY Zenon, <1>1, <1>4, <1>10 DEF Pending, x, y
\* A displayed one was displayed before, or is in the row that was read.
<1>11. ASSUME NEW q \in Requests, Displays(req'[q])
       PROVE  /\ \/ /\ Displays(req[q]) /\ req'[q].sess.oldFlash = req[q].sess.oldFlash
                    /\ req'[q].sess.persistedID = req[q].sess.persistedID
                 \/ \E i \in Ids : req'[q].sess.oldFlash = store[i].flash /\ req'[q].sess.persistedID = i
              /\ req'[q].sess.oldFlash # None
  BY Zenon, <1>1, <1>4, <1>11 DEF Displays, x, y
<1>12. \A q \in Requests : req[q].sess.newFlash \in Nat /\ req[q].sess.oldFlash \in Nat
  <2>1. \A q \in Requests : req[q].sess.newFlash \in Tokens \cup {None} /\ req[q].sess.oldFlash \in Tokens \cup {None}
    BY Zenon, <1>0 DEF SessionTypes, BrowserRequest, PrivateSession
  <2> QED BY Zenon, <1>0, <2>1
<1>13. ASSUME NEW q \in Requests, Pending(req'[q])
       PROVE  /\ req'[q].sess.newFlash < nextToken' /\ req'[q].sess.newFlash \notin shown'
              /\ \A i \in Ids : store'[i].flash # req'[q].sess.newFlash
  <2>1. CASE Pending(req[q]) /\ req'[q].sess.newFlash = req[q].sess.newFlash
    <3>1. /\ req[q].sess.newFlash < nextToken /\ req[q].sess.newFlash \notin shown
          /\ \A i \in Ids : store[i].flash # req[q].sess.newFlash
      BY Zenon, <2>1 DEF NoticeInv
    <3> QED BY Zenon, <1>2, <1>6, <1>10, <1>12, <1>13, <2>1, <3>1
  <2>2. CASE req'[q].sess.newFlash = nextToken /\ nextToken' = nextToken + 1
    <3>1. nextToken \notin shown
      BY Zenon, <1>0, <1>6 DEF NoticeInv, SessionTypes
    <3>2. \A i \in Ids : store[i].flash # nextToken
      BY Zenon, <1>3, <1>6 DEF NoticeInv
    <3>3. nextToken < nextToken' /\ nextToken # None
      BY <1>0, <2>2
    <3> QED BY Zenon, <1>2, <2>2, <3>1, <3>2, <3>3
  <2> QED BY Zenon, <1>10, <1>13, <2>1, <2>2
<1>14. ASSUME NEW p \in Requests, NEW q \in Requests, Pending(req'[q]), Displays(req'[p])
       PROVE  req'[p].sess.oldFlash # req'[q].sess.newFlash
  <2>1. CASE Displays(req[p]) /\ req'[p].sess.oldFlash = req[p].sess.oldFlash
    <3>1. req[p].sess.oldFlash # nextToken
      BY Zenon, <1>6, <1>12, <2>1 DEF NoticeInv
    <3>2. Pending(req[q]) => req[p].sess.oldFlash # req[q].sess.newFlash
      BY Zenon, <2>1 DEF NoticeInv
    <3> QED BY Zenon, <1>10, <1>14, <2>1, <3>1, <3>2
  <2>2. ASSUME NEW i \in Ids, req'[p].sess.oldFlash = store[i].flash PROVE req'[p].sess.oldFlash # req'[q].sess.newFlash
    <3>1. store[i].flash # nextToken
      BY Zenon, <1>3, <1>6 DEF NoticeInv
    <3>2. Pending(req[q]) => store[i].flash # req[q].sess.newFlash
      BY Zenon DEF NoticeInv
    <3> QED BY Zenon, <1>10, <1>14, <2>2, <3>1, <3>2
  <2> QED BY Zenon, <1>11, <1>14, <2>1, <2>2
<1>15. ASSUME NEW p \in Requests, NEW q \in Requests, p # q, Pending(req'[q]), Pending(req'[p])
       PROVE  req'[p].sess.newFlash # req'[q].sess.newFlash
  <2>1. \A k \in Requests : Pending(req[k]) => req[k].sess.newFlash # nextToken
    BY Zenon, <1>6, <1>12 DEF NoticeInv
  <2>2. Pending(req[p]) /\ Pending(req[q]) => req[p].sess.newFlash # req[q].sess.newFlash
    BY Zenon, <1>15 DEF NoticeInv
  <2> QED BY Zenon, <1>10, <1>15, <2>1, <2>2
<1>16. ASSUME NEW q \in Requests, Displays(req'[q])
       PROVE  /\ req'[q].sess.oldFlash < nextToken' /\ req'[q].sess.persistedID # None
              /\ \A i \in Ids : store'[i].flash = req'[q].sess.oldFlash => i = req'[q].sess.persistedID
  <2>1. CASE /\ Displays(req[q]) /\ req'[q].sess.oldFlash = req[q].sess.oldFlash
             /\ req'[q].sess.persistedID = req[q].sess.persistedID
    <3>1. /\ req[q].sess.oldFlash < nextToken /\ req[q].sess.persistedID # None
          /\ \A i \in Ids : store[i].flash = req[q].sess.oldFlash => i = req[q].sess.persistedID
      BY Zenon, <2>1 DEF NoticeInv
    <3> QED BY Zenon, <1>2, <1>6, <1>11, <1>12, <1>16, <2>1, <3>1
  <2>2. ASSUME NEW i \in Ids, req'[q].sess.oldFlash = store[i].flash, req'[q].sess.persistedID = i
        PROVE  /\ req'[q].sess.oldFlash < nextToken' /\ req'[q].sess.persistedID # None
               /\ \A j \in Ids : store'[j].flash = req'[q].sess.oldFlash => j = req'[q].sess.persistedID
    <3>1. store[i].flash < nextToken' /\ i # None
      BY Zenon, <1>0, <1>3, <1>6 DEF NoticeInv
    <3>2. \A j \in Ids : store'[j].flash = store[i].flash => j = i
      <4>1. store[i].flash # None
        BY Zenon, <1>11, <1>16, <2>2
      <4> QED BY Zenon, <1>2, <4>1 DEF NoticeInv
    <3> QED BY Zenon, <2>2, <3>1, <3>2
  <2> QED BY Zenon, <1>11, <1>16, <2>1, <2>2
<1>17. \A q \in Requests : req'[q].pc \in {"loaded", "purge"} => req'[q].sess.newFlash = None
  BY Zenon, <1>1, <1>4, NoticesApart DEF y
<1> QED BY Zenon, <1>0, <1>7, <1>8, <1>9, <1>13, <1>14, <1>15, <1>16, <1>17, NoticePrimed

LEMMA NoticeWrite ==
    ASSUME SessionBase, IdInv, NoticeInv, app' = app, NEW r \in Requests, Moves(r),
           NEW e \in Entry, NEW d \in Ids \cup {None},
           Staged(req[r]), req[r].sess.id \in Ids, req'[r].pc = "respond", nextToken' = nextToken,
           shown' = shown \cup ({req[r].sess.oldFlash} \ {None}),
           Writes(req[r].sess.id, d, e), e.flash = req[r].sess.newFlash,
           d = req[r].sess.persistedID \/ req[r].sess.persistedID = None \/ req[r].pc = "create"
    PROVE  NoticeInv'
<1> DEFINE x == req[r]
           w == x.sess.id
           p == x.sess.persistedID
<1>0. SessionTypes /\ Ids' = Ids /\ Requests' = Requests /\ None \notin Ids /\ NoEntry.flash = None
      /\ nextToken \in Nat /\ nextToken >= 1 /\ None = 0 /\ None \notin shown
      /\ (\A t \in Tokens \cup {None} : t \in Nat)
  BY SessionSame, SessionNumbers, SessionBlanks, SMTT(30) DEF SessionBase, SessionTypes, None
<1>1. OwnIds(x) /\ Formed(x) /\ (\A q \in Requests \ {r} : req'[q] = req[q]) /\ Active(x) /\ Engaged(x)
  BY Zenon DEF SessionBase, SessionTypes, Moves, IdInv, Staged, Active, Engaged
<1>2. ~Pending(req'[r]) /\ ~Displays(req'[r])
  BY Zenon DEF Pending, Displays, Engaged, Active
<1>3. /\ \A i \in Ids : i # w => store'[i].flash = store[i].flash \/ store'[i].flash = None
      /\ store'[w].flash = x.sess.newFlash
  BY Zenon, <1>0 DEF Writes
<1>4. e.flash # None => Pending(x)
  BY Zenon, <1>1 DEF Pending
\* The row the displayed notice was loaded from is gone or overwritten.
<1>5. x.sess.oldFlash # None => \A i \in Ids : i # w => store'[i].flash # x.sess.oldFlash
  <2>1. SUFFICES ASSUME x.sess.oldFlash # None, NEW i \in Ids, i # w, store'[i].flash = x.sess.oldFlash PROVE FALSE
    BY Zenon
  <2>2. Displays(x)
    BY Zenon, <1>1, <2>1 DEF Displays
  <2>3. store[i].flash = x.sess.oldFlash /\ i = p /\ p # None
    BY Zenon, <1>3, <2>1, <2>2 DEF NoticeInv
  <2>4. CASE d = p
    BY Zenon, <1>0, <2>1, <2>3, <2>4 DEF Writes
  <2>5. CASE x.pc = "create"
    BY <1>0, <1>1, <2>1, <2>3, <2>5, Zenon DEF OwnIds, IdInv, RemovedStaysRemoved
  <2> QED BY Zenon, <2>3, <2>4, <2>5
<1>16. Pending(x) => /\ e.flash < nextToken /\ e.flash \notin shown
                     /\ Displays(x) => x.sess.oldFlash # e.flash
  BY Zenon DEF NoticeInv
<1>6. e.flash # x.sess.oldFlash \/ e.flash = None
  BY Zenon, <1>1, <1>4, <1>16 DEF Displays
<1>7. \A i \in Ids : store'[i].flash \notin shown' /\ store'[i].flash < nextToken'
  <2>1. e.flash \notin shown' /\ e.flash < nextToken
    <3>1. CASE e.flash = None
      BY <1>0, <3>1
    <3>2. CASE e.flash # None
      BY Zenon, <1>4, <1>6, <1>16, <3>2
    <3> QED BY Zenon, <3>1, <3>2
  <2>2. ASSUME NEW i \in Ids, i # w PROVE store'[i].flash \notin shown' /\ store'[i].flash < nextToken
    <3>1. CASE store'[i].flash = None
      BY SMTT(30), <1>0, <3>1
    <3>2. CASE store'[i].flash = store[i].flash
      <4>1. store[i].flash \notin shown /\ store[i].flash < nextToken
        BY Zenon DEF NoticeInv, NoticeShownOnce
      <4>2. store'[i].flash # x.sess.oldFlash \/ x.sess.oldFlash = None
        BY Zenon, <1>5, <2>2
      <4> QED BY Zenon, <3>2, <4>1, <4>2
    <3> QED BY Zenon, <1>3, <2>2, <3>1, <3>2
  <2> QED BY Zenon, <1>3, <2>1, <2>2
<1>8. \A t \in shown' : t < nextToken'
  <2>1. x.sess.oldFlash # None => x.sess.oldFlash < nextToken
    BY Zenon, <1>1 DEF NoticeInv, Displays
  <2> QED BY Zenon, <2>1 DEF NoticeInv
<1>9. \A i, j \in Ids : i # j /\ store'[i].flash # None => store'[i].flash # store'[j].flash
  <2>1. \A i \in Ids : i # w /\ e.flash # None => store'[i].flash # e.flash
    BY Zenon, <1>3, <1>4, NoticesApart
  <2>2. ASSUME NEW i \in Ids, NEW j \in Ids, i # j, store'[i].flash # None, i # w, j # w
        PROVE  store'[i].flash # store'[j].flash
    BY Zenon, <1>3, <2>2, NoticesApart
  <2> QED BY Zenon, <1>3, <2>1, <2>2
<1>10. \A q \in Requests : Pending(req'[q]) \/ Displays(req'[q]) => q # r /\ req'[q] = req[q]
  BY Zenon, <1>1, <1>2
<1>11. ASSUME NEW q \in Requests, Pending(req'[q])
       PROVE  /\ req'[q].sess.newFlash < nextToken' /\ req'[q].sess.newFlash \notin shown'
              /\ \A i \in Ids : store'[i].flash # req'[q].sess.newFlash
  <2>1. q # r /\ req'[q] = req[q] /\ Pending(req[q]) /\ req[q].sess.newFlash # None
    BY Zenon, <1>10, <1>11 DEF Pending
  <2>2. req[q].sess.newFlash \notin shown'
    BY Zenon, <1>1, <2>1 DEF NoticeInv, Displays
  <2>3. e.flash # req[q].sess.newFlash
    BY Zenon, <1>4, <2>1 DEF NoticeInv
  <2>4. \A i \in Ids : store'[i].flash # req[q].sess.newFlash
    BY Zenon, <1>3, <2>1, <2>3, NoticesApart
  <2> QED BY <2>1, <2>2, <2>4, Zenon DEF NoticeInv
<1>12. ASSUME NEW a \in Requests, NEW q \in Requests, Pending(req'[q]), Displays(req'[a])
       PROVE  req'[a].sess.oldFlash # req'[q].sess.newFlash
  <2>1. req'[q] = req[q] /\ req'[a] = req[a]
    BY Zenon, <1>10, <1>12
  <2>2. Pending(req[q]) /\ Displays(req[a])
    BY Zenon, <1>12, <2>1
  <2>3. req[a].sess.oldFlash # req[q].sess.newFlash
    BY Zenon, <2>2 DEF NoticeInv
  <2> QED BY Zenon, <2>1, <2>3
<1>13. \A a, q \in Requests : a # q /\ Pending(req'[q]) /\ Pending(req'[a]) =>
                                req'[a].sess.newFlash # req'[q].sess.newFlash
  <2> SUFFICES ASSUME NEW a \in Requests, NEW q \in Requests, a # q, Pending(req'[q]), Pending(req'[a])
               PROVE  req'[a].sess.newFlash # req'[q].sess.newFlash
    BY Zenon
  <2>1. req'[q] = req[q] /\ req'[a] = req[a]
    BY Zenon, <1>10
  <2> QED BY Zenon, <2>1, NoticesApart
<1>14. ASSUME NEW q \in Requests, Displays(req'[q])
       PROVE  /\ req'[q].sess.oldFlash < nextToken' /\ req'[q].sess.persistedID # None
              /\ \A i \in Ids : store'[i].flash = req'[q].sess.oldFlash => i = req'[q].sess.persistedID
  <2>1. q # r /\ req'[q] = req[q] /\ Displays(req[q]) /\ req[q].sess.oldFlash # None
    BY Zenon, <1>10, <1>14 DEF Displays
  <2>2. e.flash # req[q].sess.oldFlash
    BY Zenon, <1>4, <2>1 DEF NoticeInv
  <2>3. /\ req[q].sess.oldFlash < nextToken /\ req[q].sess.persistedID # None
        /\ \A i \in Ids : store[i].flash = req[q].sess.oldFlash => i = req[q].sess.persistedID
    BY Zenon, <2>1 DEF NoticeInv
  <2> QED BY Zenon, <1>3, <2>1, <2>2, <2>3
<1>15. \A q \in Requests : req'[q].pc \in {"loaded", "purge"} => req'[q].sess.newFlash = None
  BY Zenon, <1>1, NoticesApart
<1> QED BY <1>0, <1>7, <1>8, <1>9, <1>11, <1>12, <1>13, <1>14, <1>15, NoticePrimed, Zenon

LEMMA NoticeInvNext == SessionBase /\ IdInv /\ NoticeInv /\ [SessionNext]_sessionVars => NoticeInv'
<1>1. SUFFICES ASSUME SessionBase, IdInv, NoticeInv, [SessionNext]_sessionVars PROVE NoticeInv'
  BY Zenon
<1>2. app' = app
  BY Zenon, <1>1 DEF SessionNext, sessionVars
<1>3. CASE UNCHANGED <<store, nextToken, shown, req>>
  <2>1. Ids' = Ids /\ Requests' = Requests
    BY Zenon, <1>2, SessionSame
  <2>2. /\ \A i \in Ids : store[i].flash \notin shown /\ store[i].flash < nextToken
        /\ \A t \in shown : t < nextToken
        /\ \A q \in Requests : req[q].pc \in {"loaded", "purge"} => req[q].sess.newFlash = None
        /\ \A i, j \in Ids : i # j /\ store[i].flash # None => store[i].flash # store[j].flash
    BY Zenon, <1>1 DEF NoticeInv, NoticeShownOnce
  <2>3. /\ \A q \in Requests : Pending(req[q]) =>
             /\ req[q].sess.newFlash < nextToken /\ req[q].sess.newFlash \notin shown
             /\ \A i \in Ids : store[i].flash # req[q].sess.newFlash
        /\ \A p, q \in Requests : Pending(req[q]) /\ Displays(req[p]) => req[p].sess.oldFlash # req[q].sess.newFlash
        /\ \A p, q \in Requests : p # q /\ Pending(req[q]) /\ Pending(req[p]) =>
                                    req[p].sess.newFlash # req[q].sess.newFlash
        /\ \A q \in Requests : Displays(req[q]) =>
             /\ req[q].sess.oldFlash < nextToken /\ req[q].sess.persistedID # None
             /\ \A i \in Ids : store[i].flash = req[q].sess.oldFlash => i = req[q].sess.persistedID
    BY Zenon, <1>1 DEF NoticeInv
  <2> QED BY Zenon, <1>3, <2>1, <2>2, <2>3, NoticePrimed
<1>4. UNCHANGED sessionVars \/ Tick => UNCHANGED <<store, nextToken, shown, req>>
  BY Zenon DEF sessionVars, Tick
<1>5. ASSUME NEW r \in Requests, Moves(r) PROVE NoticeInv'
  <2> DEFINE x == req[r]
             y == req'[r]
  <2>1. x \in BrowserRequest /\ y \in BrowserRequest /\ Formed(x) /\ RequestStep(x, y)
    BY Zenon, <1>1, <1>5 DEF SessionBase, SessionTypes, Moves
  <2>2. CASE shown' = shown /\ \E d \in Ids \cup {None} : Writes(None, d, NoEntry)
    BY Zenon, <1>1, <1>2, <1>5, <2>2, NoticeQuiet
  <2>3. CASE ~(shown' = shown /\ \E d \in Ids \cup {None} : Writes(None, d, NoEntry))
    BY <1>1, <1>2, <1>5, <2>1, <2>3, RowWritten, NoticeWrite, Zenon
  <2> QED BY Zenon, <2>2, <2>3
<1> QED BY Zenon, <1>1, <1>3, <1>4, <1>5, SessionSteps

LEMMA NoticeInvInit == SessionInit => NoticeInv
<1>1. SUFFICES ASSUME SessionInit PROVE NoticeInv
  BY Zenon
<1>2. SessionBase /\ app \in Applications
  BY Zenon, <1>1, SessionBaseInit DEF SessionBase, SessionTypes
<1>3. PICK first \in {NoEntry, LegacyEntry, LoggedIn} :
        /\ store = [i \in Ids |-> IF i = 1 THEN first ELSE NoEntry]
        /\ nextToken = (IF first # NoEntry THEN 2 ELSE 1)
  BY Zenon, <1>1 DEF SessionInit
<1>4. NoEntry.flash = None /\ LegacyEntry.flash = None /\ LoggedIn.flash = None
  BY Zenon, <1>2, SessionBlanks, FirstRows
<1>5. \A i \in Ids : store[i].flash = None
  BY Zenon, <1>3, <1>4
<1>6. \A r \in Requests : ~Pending(req[r]) /\ ~Displays(req[r]) /\ req[r].pc = "idle"
  BY Zenon, <1>1, <1>2, SessionBlanks DEF SessionInit, Active, Engaged, Pending, Displays
<1>7. shown = {} /\ None = 0
  BY Zenon, <1>1 DEF SessionInit, None
<1> QED BY <1>3, <1>5, <1>6, <1>7 DEF NoticeInv, NoticeShownOnce

\* Manager.Save drops the flash it loaded: once a request that displayed a notice has saved,
\* no row holds that notice, so no later request displays it.
THEOREM NoticesAreShownOnce == SessionSpec => []NoticeShownOnce
<1>1. SessionBase /\ IdInv /\ NoticeInv /\ [SessionNext]_sessionVars => NoticeInv'
  BY Zenon, NoticeInvNext
<1>2. SessionInit => NoticeInv
  BY Zenon, NoticeInvInit
<1>3. NoticeInv => NoticeShownOnce
  BY Zenon DEF NoticeInv
<1> QED BY <1>1, <1>2, <1>3, SessionInvariant, PTL DEF SessionSpec

=============================================================================
