-------------------------------- MODULE CORS --------------------------------
(* The CORS middleware of httpx: NewCORS validates and snapshots a policy, the
   application goes on using (and changing) the slices it passed, and requests
   are answered under the snapshot while a shared cache keeps the answers by
   the request headers their Vary names.  An origin, method or header name is
   a pair <<identity, spelling>>; TrimSpace, ToUpper and CanonicalMIMEHeaderKey
   map every spelling that differs only in space or case to "canonical".    *)
EXTENDS Integers, Sequences, FiniteSets

CONSTANTS
  Configs,   \* the policies the application may pass
  CORSRequests,  \* the requests to try
  MaxServed  \* bound on the answers a cache keeps

VARIABLES
  config,    \* the caller's CORSConfig; its slices are the caller's memory
  passed,    \* the policy as it was when NewCORS ran
  shares,    \* the fields whose backing array the middleware shares
  state,     \* "new", "rejected" or "serving"
  prepared,  \* the middleware's policy
  served     \* the requests answered, with their response headers

corsVars == <<config, passed, shares, state, prepared, served>>

Wildcard == <<"*", "canonical">>
Folded(name) == <<name[1], "canonical">>
Blank == <<"", "canonical">>
Fields == {"origins", "methods", "headers", "exposes"}

\* Spellings: "canonical", "variant" (other case or spaces), "invalid".
validHTTPToken(name) == name[1] # "" /\ name[2] # "invalid"

(* url.Parse of an origin: a bare http(s) scheme and host. Unlike the names,
   an origin's case is kept, and compared exactly. *)
ValidOrigin(origin) == origin[2] # "invalid"

DefaultMethods ==
  LET names == <<"GET", "HEAD", "POST", "PUT", "PATCH", "DELETE", "OPTIONS">>
  IN [i \in 1..7 |-> <<names[i], "canonical">>]

TrimmedOrigin(origin) == IF origin[2] = "spaced" THEN <<origin[1], "canonical">> ELSE origin

Rejected(c) ==
  \/ c.maxAge < 0
  \/ \E i \in 1..Len(c.origins) : LET o == TrimmedOrigin(c.origins[i]) IN
       IF o = Wildcard THEN c.credentials ELSE ~ValidOrigin(o)
  \/ \E i \in 1..Len(c.methods) : ~validHTTPToken(c.methods[i])
  \/ \E i \in 1..Len(c.headers) : ~validHTTPToken(c.headers[i])
  \/ \E i \in 1..Len(c.exposes) : ~validHTTPToken(c.exposes[i])

Normalised(c) ==
  [c EXCEPT !.origins = [i \in 1..Len(@) |-> TrimmedOrigin(@[i])],
            !.methods = IF @ = <<>> THEN DefaultMethods
                        ELSE [i \in 1..Len(@) |-> Folded(@[i])],
            !.headers = [i \in 1..Len(@) |-> Folded(@[i])],
            !.exposes = [i \in 1..Len(@) |-> Folded(@[i])]]

(* Every slice of the prepared policy is a copy: append([]string(nil), ...). *)
Shares == {}

Accepts(c) == ~Rejected(c)

NewCORS ==
  /\ state = "new"
  /\ state' = IF Accepts(config) THEN "serving" ELSE "rejected"
  /\ prepared' = Normalised(config)
  /\ passed' = config
  /\ shares' = Shares
  /\ UNCHANGED <<config, served>>

(* The application reuses its slices. *)
CallerWrites ==
  /\ state = "serving"
  /\ \E other \in Configs, field \in Fields :
       /\ Len(other[field]) = Len(config[field])
       /\ config' = [config EXCEPT ![field] = other[field]]
       /\ prepared' = IF field \in shares THEN [prepared EXCEPT ![field] = other[field]]
                      ELSE prepared
  /\ UNCHANGED <<passed, shares, state, served>>

----------------------------------------------------------------------------
Preflight(r) == r.method = "OPTIONS" /\ r.wants # Blank

Among(list) == {list[i] : i \in 1..Len(list)}

originAllowed(p, origin) == Wildcard \in Among(p.origins) \/ origin \in Among(p.origins)

(* The method is upper-cased, the headers canonicalised and compared folded. *)
PreflightAllowed(p, r) ==
  /\ Folded(r.wants) \in Among(p.methods)
  /\ \A i \in 1..Len(r.adds) : r.adds[i][1] # "" /\ Folded(r.adds[i]) \in Among(p.headers)

(* The Vary of a policy that only varies for listed origins. *)
MutantVary(p, r) == IF originAllowed(p, r.origin) THEN {"origin"} ELSE {}

(* addVary, called before any decision is taken. *)
Vary(p, r) == {"origin"} \cup (IF Preflight(r) THEN {"wants", "adds"} ELSE {})

NoCORS == [allow |-> Blank, methods |-> <<>>, headers |-> <<>>, exposes |-> <<>>,
           credentials |-> FALSE, age |-> 0]

(* The CORS response headers, and who answers: the next handler, the
   middleware (204) or an error (403). *)
AnswerCORS(p, r) ==
  IF r.origin = Blank \/ ~originAllowed(p, r.origin) THEN [by |-> "next", set |-> NoCORS]
  ELSE IF Preflight(r) /\ ~PreflightAllowed(p, r) THEN [by |-> "forbidden", set |-> NoCORS]
  ELSE [by  |-> IF Preflight(r) THEN "preflight" ELSE "next",
        set |-> [allow |-> IF Wildcard \in Among(p.origins) THEN Wildcard ELSE r.origin,
                 methods |-> p.methods, headers |-> p.headers, exposes |-> p.exposes,
                 credentials |-> p.credentials, age |-> p.maxAge]]

Serve ==
  /\ state = "serving" /\ Cardinality(served) < MaxServed
  /\ \E r \in CORSRequests :
       served' = served \cup {[request |-> r, answer |-> AnswerCORS(prepared, r),
                               vary |-> Vary(prepared, r)]}
  /\ UNCHANGED <<config, passed, shares, state, prepared>>

Rejection == state = "rejected" /\ UNCHANGED corsVars

CORSInit ==
  /\ config \in Configs /\ passed = config
  /\ shares = {} /\ state = "new" /\ prepared = config /\ served = {}

CORSNext == NewCORS \/ CallerWrites \/ Serve \/ Rejection

CORSSpec == CORSInit /\ [][CORSNext]_corsVars

----------------------------------------------------------------------------
(* The early addVary calls (middleware.go:255-263) make the answers safe to
   cache: a request that agrees with an earlier one on the method and on every
   header the stored answer varies on gets the very same answer, so a cache
   never hands one origin the answer made for another, or an answer without
   CORS headers to an origin that should have them. A plain OPTIONS request is
   left out: its answer is not cacheable. *)
CacheSafe ==
  \A s, t \in served :
    (/\ s.request.method = t.request.method
     /\ s.request.method # "OPTIONS" \/ Preflight(s.request)
     /\ \A h \in s.vary : s.request[h] = t.request[h])
    => s.answer = t.answer
=============================================================================
