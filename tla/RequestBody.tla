---------------------------- MODULE RequestBody ----------------------------
(* The body of one request as httpx.Context reads it: FormLimit parses a URL
   form once and answers every later call from its cache; BindJSONLimit decodes
   one JSON value and consumes the body.  Middleware and handler may call both,
   with different limits, and may change what they were given.  The form is one
   field with a list of values.                                              *)
EXTENDS Integers, Sequences, FiniteSets

CONSTANTS
  Bodies,   \* the requests' bodies
  Limits,   \* the limits callers pass, in the units of a body's size
  Forged,   \* a value an application writes over what it was given
  MaxCalls  \* bound on the calls made for one request

ASSUME BodyAssumption == Limits \subseteq Nat \ {0} /\ \A b \in Bodies : b.size \in Nat

VARIABLES
  body,       \* the body: media type, size, contents
  stream,     \* "fresh", "drained", "tooLarge" or "broken"; reader errors stick
  formParsed, formErr, formBytes,
  form,       \* ctx.form
  postForm,   \* Request.PostForm
  given,      \* the slice Form.Values returned
  answers     \* the answers so far

bodyVars == <<body, stream, formParsed, formErr, formBytes, form, postForm, given, answers>>

Ok == 0

(* Reading all of the stream through a MaxBytesReader of max bytes. *)
ReadAll(max) ==
  IF stream = "broken" \/ (stream = "fresh" /\ body.broken) THEN "broken"
  ELSE IF stream = "tooLarge" \/ (stream = "fresh" /\ body.size > max) THEN "tooLarge"
  ELSE "drained"

Answered(call, max, status, values) ==
  answers' = Append(answers, [call |-> call, max |-> max, status |-> status, values |-> values])

CanCall == Len(answers) < MaxCalls

(* The cache answered without comparing what was read with the new limit. *)
MutantCachedStatus(max) == formErr

CachedStatus(max) == IF formErr = Ok /\ formBytes > max THEN 413 ELSE formErr

SharesForm == FALSE

(* Either call refuses a limit that is not positive before it looks at anything. *)
LimitNotPositive ==
  /\ CanCall /\ \E call \in {"form", "json"} : Answered(call, 0, 500, <<>>)
  /\ UNCHANGED <<body, stream, formParsed, formErr, formBytes, form, postForm, given>>

(* FormLimit with the cache filled. *)
FormCached ==
  /\ CanCall /\ formParsed
  /\ \E max \in Limits :
       Answered("form", max, CachedStatus(max), IF CachedStatus(max) = Ok THEN form ELSE <<>>)
  /\ given' = answers'[Len(answers')].values
  /\ UNCHANGED <<body, stream, formParsed, formErr, formBytes, form, postForm>>

(* What parsing answers when read is the outcome of ReadAll. *)
ParseStatus(read) ==
  IF read = "tooLarge" THEN 413
  ELSE IF read = "broken" \/ ~body.valid THEN 400 ELSE Ok

FormParse ==
  /\ CanCall /\ ~formParsed /\ formParsed' = TRUE
  /\ \E max \in Limits :
       IF body.type # "form"
       THEN /\ formErr' = 415 /\ Answered("form", max, 415, <<>>)
            /\ UNCHANGED <<stream, formBytes, form, postForm, given>>
       ELSE LET status == ParseStatus(ReadAll(max))
                values == IF status # Ok THEN <<>>
                          ELSE IF stream = "fresh" THEN body.values ELSE <<>>
            IN /\ stream' = ReadAll(max)
               /\ formErr' = status
               /\ formBytes' = IF status = Ok /\ stream = "fresh" THEN body.size ELSE formBytes
               /\ form' = values /\ postForm' = values /\ given' = values
               /\ Answered("form", max, status, values)
  /\ UNCHANGED body

(* A body that is not one JSON value may be refused before its end is read. *)
OneValue == body.valid /\ Len(body.values) = 1

JSONStatuses(read) ==
  CASE read = "broken" -> {400}
    [] read = "tooLarge" -> IF OneValue THEN {413} ELSE {400, 413}
    [] OTHER -> {IF stream = "fresh" /\ OneValue THEN Ok ELSE 400}

BindJSONLimit ==
  /\ CanCall
  /\ \E max \in Limits :
       IF body.type # "json"
       THEN Answered("json", max, 415, <<>>) /\ UNCHANGED stream
       ELSE \E status \in JSONStatuses(ReadAll(max)) :
              /\ stream' = ReadAll(max)
              /\ Answered("json", max, status, IF status = Ok THEN body.values ELSE <<>>)
  /\ UNCHANGED <<body, formParsed, formErr, formBytes, form, postForm, given>>

(* The application overwrites an entry of PostForm, or of a slice Form.Values
   returned. *)
AppWrites ==
  /\ \/ /\ postForm # <<>> /\ postForm' = [postForm EXCEPT ![1] = Forged]
        /\ UNCHANGED given
     \/ /\ given # <<>> /\ given' = [given EXCEPT ![1] = Forged]
        /\ UNCHANGED postForm
  /\ form' = IF SharesForm THEN [form EXCEPT ![1] = Forged] ELSE form
  /\ UNCHANGED <<body, stream, formParsed, formErr, formBytes, answers>>

BodyFinished == Len(answers) = MaxCalls /\ UNCHANGED bodyVars

BodyInit ==
  /\ body \in Bodies
  /\ stream = "fresh" /\ formParsed = FALSE /\ formErr = Ok /\ formBytes = 0
  /\ form = <<>> /\ postForm = <<>> /\ given = <<>> /\ answers = <<>>

BodyNext == LimitNotPositive \/ FormCached \/ FormParse \/ BindJSONLimit \/ AppWrites \/ BodyFinished

BodySpec == BodyInit /\ [][BodyNext]_bodyVars

----------------------------------------------------------------------------
(* FormLimit and BindJSONLimit (form.go:53-62, context.go:121-131): a call that
   succeeds saw a body within its own limit, even when the form was parsed
   earlier under a larger one. *)
LimitHolds ==
  \A i \in 1..Len(answers) :
    (answers[i].status = Ok /\ answers[i].values # <<>>) => body.size <= answers[i].max

=============================================================================
