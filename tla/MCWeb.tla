------------------------------- MODULE MCWeb -------------------------------
(* The parts of goforge that a request meets, for TLC: sessions, the two rate limiters,
   the cache, CORS, the body, and the middleware pipeline.  They
   share no state, so what one does is independent of the others: a behaviour of this
   module is a behaviour of one part, with the others where they start.              *)
EXTENDS Session, RateLimit, RateLimitPostgres, Cache, CORS, RequestBody,
        RequestPipeline, TLC

CONSTANTS Parts,   \* the parts this run explores
          r1, r2, r3

VARIABLE part

\* Two browsers' requests race in an application with logins and notices; three in one
\* whose handlers change or check credentials.
MCApplications == {
  [requests |-> {r1, r2}, handlers |-> {"page", "login", "logout", "storefail"}, clean |-> TRUE,
   idle |-> 2, absolute |-> 2, second |-> 2, time |-> 3, ids |-> 2, tokens |-> 2, versions |-> 1],
  [requests |-> {r1, r2, r3}, handlers |-> {"change", "reject", "skip", "fail"}, clean |-> FALSE,
   idle |-> 3, absolute |-> 0, second |-> 1, time |-> 1, ids |-> 4, tokens |-> 3, versions |-> 3]}
MCSymmetry == Permutations({r1, r2})

Canon(n) == <<n, "canonical">>
MCConfigs ==
  [origins : {<<Canon("a")>>, <<<<"*", "spaced">>>>, <<<<"c", "invalid">>>>},
   methods : {<<>>, <<<<"PUT", "variant">>>>, <<<<"P UT", "invalid">>>>},
   headers : {<<>>, <<<<"X-A", "variant">>>>},
   exposes : {<<<<"X-B", "variant">>>>}, credentials : BOOLEAN, maxAge : {-1, 60}]
  \cup
  [origins : {<<Canon("a")>>}, methods : {<<>>}, headers : {<<>>}, exposes : {<<<<"X B", "invalid">>>>},
   credentials : {FALSE}, maxAge : {60}]
MCCORSRequests ==
  [method : {"GET"}, origin : {Blank, Canon("a"), Canon("b")}, wants : {Blank}, adds : {<<>>}]
  \cup
  [method : {"OPTIONS"}, origin : {Canon("a")}, wants : {Blank, Canon("PUT"), Canon("TRACE")},
   adds : {<<>>, <<<<"X-A", "variant">>>>}]

MCBodies ==
  [type : {"form", "json", "other"}, size : {1, 2, 3}, valid : BOOLEAN, broken : BOOLEAN,
   values : {<<"a">>, <<"a", "b">>}]

\* The stack a generated application installs.
MCStack == <<"recover", "requestID", "logger", "security", "override", "timeout">>
Plain(method, ids) ==
  [method |-> method, ids |-> ids, form |-> FALSE, prefixed |-> TRUE, override |-> ""]
Form(prefixed, override) ==
  [method |-> "POST", ids |-> <<>>, form |-> TRUE, prefixed |-> prefixed, override |-> override]
MCPipelineRequests ==
  {Plain("GET", <<"valid">>), Plain("GET", <<"valid", "other">>), Plain("POST", <<"bad">>)}
    \cup {Form(TRUE, o) : o \in {"", "DELETE", "GET", "unreadable"}}
    \cup {Form(FALSE, "DELETE")}

\* A part that is not explored has one initial state.
Init ==
  /\ part \in Parts
  /\ SessionInit /\ (part = "session" \/ (app.clean /\ nextId = 1))
  /\ LimiterInit /\ DurableInit /\ CacheInit
  /\ CORSInit /\ (part = "cors" \/ config = CHOOSE c \in Configs : TRUE)
  /\ BodyInit /\ (part = "body" \/ body = CHOOSE b \in Bodies : TRUE)
  /\ PipelineInit /\ (part = "pipeline" \/ (caps = {} /\ pipelineReq = Plain("GET", <<"valid">>)))

allVars == <<part, sessionVars, limiterVars, durableVars, cacheVars, corsVars,
             bodyVars, pipelineVars>>

Next ==
  /\ UNCHANGED part
  /\ \/ /\ part = "session" /\ SessionNext
        /\ UNCHANGED <<limiterVars, durableVars, cacheVars, corsVars, bodyVars, pipelineVars>>
     \/ /\ part = "limiter" /\ LimiterNext
        /\ UNCHANGED <<sessionVars, durableVars, cacheVars, corsVars, bodyVars, pipelineVars>>
     \/ /\ part = "durable" /\ DurableNext
        /\ UNCHANGED <<sessionVars, limiterVars, cacheVars, corsVars, bodyVars, pipelineVars>>
     \/ /\ part = "cache" /\ CacheNext
        /\ UNCHANGED <<sessionVars, limiterVars, durableVars, corsVars, bodyVars, pipelineVars>>
     \/ /\ part = "cors" /\ CORSNext
        /\ UNCHANGED <<sessionVars, limiterVars, durableVars, cacheVars, bodyVars, pipelineVars>>
     \/ /\ part = "body" /\ BodyNext
        /\ UNCHANGED <<sessionVars, limiterVars, durableVars, cacheVars, corsVars, pipelineVars>>
     \/ /\ part = "pipeline" /\ PipelineNext
        /\ UNCHANGED <<sessionVars, limiterVars, durableVars, cacheVars, corsVars, bodyVars>>

Spec == Init /\ [][Next]_allVars
=============================================================================
