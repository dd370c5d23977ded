------------------------- MODULE LiveReloadInject -------------------------
(***************************************************************************)
(* internal/cli/serve_livereload.go: which responses of the application    *)
(* gain the live-reload client, and where.  A body is a sequence of the    *)
(* pieces the search tells apart; "script" is the client's own tag.  The   *)
(* bytes "I1" and "I2" are, one after the other, a letter whose lower case *)
(* takes one byte, and else no UTF-8, which lower-casing replaces by three *)
(* bytes.                                                                  *)
(***************************************************************************)
EXTENDS Integers, Sequences, SequencesExt, FiniteSetsExt

CONSTANT MaxDocument     \* serveLiveReloadMaxDocumentBytes, in pieces

ASSUME InjectAssumption == MaxDocument \in Nat \ {0}

Space == " "
OpenTags == {"</body", "</html"}
Pieces == OpenTags \cup {">", Space, "x", "script"}
Letters == {"</body", ">", "I1", "I2"}

VARIABLES request, response, done,
          original,   \* the body the application sent
          breaks      \* reading it fails after so many pieces; -1 if it does not
injectVars == <<request, response, done, original, breaks>>

eligible(req, res) ==
    /\ req.method = "GET" /\ res.status = 200 /\ ~res.uncompressed
    /\ res.length \in 0..MaxDocument
    /\ ~res.chunked /\ ~res.trailer
    /\ req.dest = <<"document">>
    /\ ~req.range /\ ~res.range
    /\ ~req.upgrade /\ ~res.upgrade /\ ~req.noTransform /\ ~res.noTransform
    /\ res.type \in {<<"html", "no charset">>, <<"html", "utf-8">>}
    /\ res.encoding \in {<<>>, <<"identity">>}
    /\ res.disposition \in {<<>>, <<"">>, <<"inline">>}

\* serveLiveReloadClosingTagEnd: the piece after the tag's ">", or -1.
closingTagEnd(body, position) ==
    LET ends == {q \in position..Len(body) : body[q] = ">" /\ \A i \in position..(q - 1) : body[i] = Space}
    IN IF ends = {} THEN -1 ELSE Min(ends) + 1

Blank(body) == \A i \in DOMAIN body : body[i] = Space
TrimSpace(body) ==
    LET solid == {i \in DOMAIN body : body[i] # Space}
    IN IF solid = {} THEN <<>> ELSE SubSeq(body, Min(solid), Max(solid))
From(body, position) == SubSeq(body, position, Len(body))

\* lastServeLiveReloadClosingTag: the start of the last complete tag, or -1.
lastClosingTag(body, tag) ==
    LET starts == {i \in DOMAIN body : body[i] = tag /\ closingTagEnd(body, i + 1) # -1}
    IN IF starts = {} THEN -1 ELSE Max(starts)

\* bytes.ToLower.
LowerAt(body, i) ==
    CASE body[i] = "I1" /\ i < Len(body) /\ body[i + 1] = "I2" -> <<"x">>
      [] body[i] = "I2" /\ i > 1 /\ body[i - 1] = "I1" -> <<>>
      [] OTHER -> IF body[i] \in {"I1", "I2"} THEN <<"x", "x", "x">> ELSE <<body[i]>>
ToLower(body) == FlattenSeq([i \in DOMAIN body |-> LowerAt(body, i)])

\* The place in the lower-cased page, used as a place in the page.
\* firstServeLiveReloadClosingTag is asked for a tag at the very start of the tail.
findClosingTag(page) ==
    LET body == ToLower(page)
        b == lastClosingTag(body, "</body")
        h == lastClosingTag(body, "</html")
        rest == TrimSpace(From(body, closingTagEnd(body, b + 1)))
    IN IF b # -1 /\ (\/ rest = <<>>
                     \/ /\ rest[1] = "</html"
                        /\ closingTagEnd(rest, 2) # -1
                        /\ Blank(From(rest, closingTagEnd(rest, 2)))) THEN b
       ELSE IF h # -1 /\ Blank(From(body, closingTagEnd(body, h + 1))) THEN h
       ELSE -1

\* io.ReadAll behind a LimitReader; what was read is put back in front of the rest.
ReadBody(body) == SubSeq(body, 1, IF breaks # -1 /\ breaks <= MaxDocument THEN breaks
                              ELSE Min({Len(body), MaxDocument + 1}))
Prepend(read, body) == read \o SubSeq(body, Len(read) + 1, Len(body))

\* A place beyond the end of the page is a panic, and the response is lost.
Rewritten(body) ==
    LET p == findClosingTag(body)
    IN IF p > Len(body) + 1 THEN [response EXCEPT !.body = <<>>, !.failed = TRUE]
       ELSE [response EXCEPT !.body = SubSeq(body, 1, p - 1) \o <<"script">> \o From(body, p),
                             !.length = Len(body) + 1, !.noStore = TRUE, !.validators = FALSE,
                             !.range = FALSE]

MutantInject ==
    LET read == ReadBody(original)
        kept == [response EXCEPT !.body = read]
    IN response' = IF ~eligible(request, response) THEN response
                   ELSE IF breaks # -1 /\ breaks <= MaxDocument THEN [kept EXCEPT !.failed = TRUE]
                   ELSE IF \/ Len(read) > MaxDocument
                           \/ Contains(read, "script") \/ findClosingTag(read) = -1 THEN kept
                   ELSE Rewritten(read)
Inject ==
    LET read == ReadBody(original)
        kept == [response EXCEPT !.body = Prepend(read, original)]
    IN response' = IF ~eligible(request, response) THEN response
                   ELSE IF breaks # -1 /\ breaks <= MaxDocument THEN [kept EXCEPT !.failed = TRUE]
                   ELSE IF \/ Len(read) > MaxDocument
                           \/ Contains(read, "script") \/ findClosingTag(read) = -1 THEN kept
                   ELSE Rewritten(read)
-----------------------------------------------------------------------------
(* Responses: a plain document, and each way to differ from it. *)

InjectedPage == [method |-> "GET", dest |-> <<"document">>, range |-> FALSE, upgrade |-> FALSE, noTransform |-> FALSE]
Requests == {[InjectedPage EXCEPT !.method = "HEAD"]}
       \cup {[InjectedPage EXCEPT !.dest = d] : d \in {<<>>, <<"empty">>, <<"document", "document">>}}
       \cup {[InjectedPage EXCEPT ![f] = TRUE] : f \in {"range", "upgrade", "noTransform"}}
Document(body) ==
    [status |-> 200, length |-> Len(body), uncompressed |-> FALSE, chunked |-> FALSE, trailer |-> FALSE,
     range |-> FALSE, upgrade |-> FALSE, noTransform |-> FALSE, type |-> <<"html", "no charset">>,
     encoding |-> <<>>, disposition |-> <<>>, body |-> body, noStore |-> FALSE, validators |-> TRUE,
     failed |-> FALSE]
Variants(doc) ==
    {[doc EXCEPT ![f] = TRUE] : f \in {"uncompressed", "chunked", "trailer", "range", "upgrade", "noTransform"}}
    \cup {[doc EXCEPT !.status = 404], [doc EXCEPT !.length = -1], [doc EXCEPT !.encoding = <<"gzip">>]}
    \cup {[doc EXCEPT !.type = t] : t \in {<<"html", "utf-8">>, <<"html", "latin1">>, <<"json", "no charset">>}}
    \cup {[doc EXCEPT !.disposition = d] : d \in {<<"inline">>, <<"attachment">>, <<"inline", "inline">>}}

Sample == <<"x", "</body", ">", "</html", ">">>
InjectInputs ==
       \/ /\ original \in UNION {[1..n -> Pieces] \cup [1..n -> Letters] : n \in 0..(MaxDocument + 1)}
          /\ breaks \in {-1} \cup {k \in 0..MaxDocument : k = Len(original) - 1}
          /\ request = InjectedPage /\ response = Document(original)
       \/ /\ original = Sample /\ breaks = -1
          /\ \/ request \in Requests /\ response = Document(original)
             \/ request = InjectedPage /\ response \in Variants(Document(original))
InjectInit == InjectInputs /\ done = FALSE
Modify == ~done /\ done' = TRUE /\ Inject /\ UNCHANGED <<request, original, breaks>>
InjectNext == Modify
InjectSpec == InjectInit /\ [][InjectNext]_injectVars
-----------------------------------------------------------------------------
Changed == response.body # original
\* No byte of the application's response is lost, also when reading it fails or it is too
\* long: the body is the original one, or the original one with one script more, which is
\* right before a closing tag if lower-casing keeps every byte in its place.  Excepted are
\* pages that lower-casing makes longer, with bytes that are not UTF-8: Inject may panic.
BodyPreserved ==
    done => \/ ~Changed
            \/ Len(ToLower(original)) > Len(original)
            \/ \E p \in DOMAIN response.body :
                  /\ response.body[p] = "script" /\ RemoveAt(response.body, p) = original
                  /\ ToLower(original) = original => response.body[p + 1] \in OpenTags
=============================================================================
