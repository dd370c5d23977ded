---------------------------- MODULE MailMessage ----------------------------
(* An outbound mail.Message: NewMessage validates and snapshots the options,
   the application keeps using the memory it passed and the slices it is given,
   and a sender later asks for the envelope (To) and the RFC 5322 text
   (WriteRFC5322), possibly several times.  An address is a model value with
   the length it is rendered to; a body is a sequence over "CR", "LF" and other
   characters.  quotedprintable.Writer keeps CRLF and is otherwise invertible,
   so encoded bodies are shown as the text they encode.                      *)
EXTENDS Integers, Sequences, FiniteSets, SequencesExt

CONSTANTS
  Addresses,          \* the valid addresses
  BadAddress,         \* one validateAddress refuses
  AddressLength,      \* len(address.String())
  SubjectLengths,     \* len(encodeSubject(subject)); 0 is the empty subject
  MailTexts, HTMLs,       \* the bodies to try
  Recipients,         \* the recipient lists to try
  MaximumRecipients, MaximumHeaderBytes, MaximumBodyBytes,
  MaxRenders          \* bound on the deliveries of one message

VARIABLES
  options,   \* MessageOptions: the caller's memory
  message,   \* the Message; valid is FALSE for the zero value
  made,      \* the options NewMessage accepted
  given,     \* the slice To() returned last
  rendered   \* what was sent: envelope and text, in order

messageVars == <<options, message, made, given, rendered>>

AnyAddress == Addresses \cup {BadAddress}
NoReply == "none"

ZeroMessage == [from |-> BadAddress, to |-> <<>>, reply |-> NoReply, subject |-> 0,
         text |-> <<>>, html |-> <<>>, valid |-> FALSE]

validateAddress(address) == address \in Addresses

RECURSIVE JoinedHeader(_)
\* len(strings.Join(to, ", "))
JoinedHeader(to) ==
  IF to = <<>> THEN 0
  ELSE AddressLength[Head(to)] + (IF Len(to) > 1 THEN 2 + JoinedHeader(Tail(to)) ELSE 0)

HeaderLength(m, name) ==
  CASE name = "From" -> 6 + AddressLength[m.from]
    [] name = "To" -> 4 + JoinedHeader(m.to)
    [] name = "Reply-To" -> 10 + AddressLength[m.reply]
    [] name = "Subject" -> 9 + m.subject
    [] OTHER -> 0

validateRenderedHeaders(m) ==
  /\ HeaderLength(m, "From") <= MaximumHeaderBytes
  /\ HeaderLength(m, "To") <= MaximumHeaderBytes
  /\ m.reply # NoReply => HeaderLength(m, "Reply-To") <= MaximumHeaderBytes
  /\ HeaderLength(m, "Subject") <= MaximumHeaderBytes

Accepts(o) ==
  /\ validateAddress(o.from)
  /\ Len(o.to) \in 1..MaximumRecipients
  /\ \A i \in 1..Len(o.to) : validateAddress(o.to[i])
  /\ o.reply # NoReply => validateAddress(o.reply)
  /\ o.subject # 0
  /\ Len(o.text) <= MaximumBodyBytes - Len(o.html)
  /\ ~(o.text = <<>> /\ o.html = <<>>)
  /\ validateRenderedHeaders(o)

NewMessage ==
  /\ ~message.valid /\ rendered = <<>>
  /\ Accepts(options)
  /\ message' = [options EXCEPT !.valid = TRUE]
  /\ made' = options
  /\ UNCHANGED <<options, given, rendered>>

NewMessageFails ==
  /\ ~message.valid /\ ~Accepts(options)
  /\ UNCHANGED messageVars

To ==
  /\ message.valid
  /\ given' = message.to
  /\ UNCHANGED <<options, message, made, rendered>>

(* The application writes to what it passed and to what it was given, a copy. *)
CallerWrites ==
  /\ message.valid
  /\ \E address \in AnyAddress :
       \/ /\ options' = [options EXCEPT !.to[1] = address]
          /\ UNCHANGED given
       \/ /\ options.reply # NoReply /\ options' = [options EXCEPT !.reply = address]
          /\ UNCHANGED given
       \/ /\ given # <<>> /\ given' = [given EXCEPT ![1] = address]
          /\ UNCHANGED options
  /\ UNCHANGED <<message, made, rendered>>

----------------------------------------------------------------------------
CRLF == <<"CR", "LF">>

\* strings.ReplaceAll(value, "\r\n", "\n")
MergeCRLF(value) ==
  FoldLeft(LAMBDA out, c : IF c = "LF" /\ out # <<>> /\ Last(out) = "CR"
                           THEN Append(Front(out), "LF") ELSE Append(out, c), <<>>, value)

\* strings.ReplaceAll(value, "\r", "\n")
LoneCR(value) == [i \in 1..Len(value) |-> IF value[i] = "CR" THEN "LF" ELSE value[i]]

\* strings.ReplaceAll(value, "\n", "\r\n")
ExpandLF(value) ==
  FoldLeft(LAMBDA out, c : IF c = "LF" THEN out \o CRLF ELSE Append(out, c), <<>>, value)

(* Lone carriage returns forgotten. *)
MutantNormalizeCRLF(value) == ExpandLF(MergeCRLF(value))

normalizeCRLF(value) == ExpandLF(LoneCR(MergeCRLF(value)))

writeQuotedPrintable(body) ==
  LET text == normalizeCRLF(body)
  IN IF Len(text) >= 2 /\ SubSeq(text, Len(text) - 1, Len(text)) = CRLF
     THEN text ELSE text \o CRLF

(* A delimiter line, the part's two headers, an empty line, the body. *)
writePart(kind, body) ==
  <<"--b">> \o CRLF \o <<kind>> \o CRLF \o <<"qp">> \o CRLF \o CRLF \o writeQuotedPrintable(body)

HeaderNames(m) ==
  <<"Date", "From", "To">> \o (IF m.reply # NoReply THEN <<"Reply-To">> ELSE <<>>)
    \o <<"Subject", "MIME-Version">>

Content(m) ==
  CASE m.text # <<>> /\ m.html # <<>> ->
         <<"mixed">> \o CRLF \o CRLF \o writePart("plain", m.text)
           \o writePart("html", m.html) \o <<"--b--">> \o CRLF
    [] m.text # <<>> /\ m.html = <<>> ->
         <<"plain">> \o CRLF \o <<"qp">> \o CRLF \o CRLF \o writeQuotedPrintable(m.text)
    [] OTHER -> <<"html">> \o CRLF \o <<"qp">> \o CRLF \o CRLF \o writeQuotedPrintable(m.html)

(* A delivery: the envelope from To(), the data from WriteRFC5322. *)
WriteRFC5322 ==
  /\ message.valid /\ Len(rendered) < MaxRenders
  /\ rendered' = Append(rendered,
       [envelope |-> message.to, from |-> message.from, to |-> message.to,
        reply |-> message.reply,
        lengths |-> {HeaderLength(message, HeaderNames(message)[i]) :
                       i \in 1..Len(HeaderNames(message))},
        content |-> Content(message)])
  /\ UNCHANGED <<options, message, made, given>>

MessageInputs ==
  options \in [from : AnyAddress, to : Recipients, reply : AnyAddress \cup {NoReply},
               subject : SubjectLengths, text : MailTexts, html : HTMLs, valid : {FALSE}]

MessageStart ==
  /\ message = ZeroMessage /\ made = options /\ given = <<>> /\ rendered = <<>>

MessageInit == MessageInputs /\ MessageStart

MessageNext == NewMessage \/ NewMessageFails \/ To \/ CallerWrites \/ WriteRFC5322

MessageSpec == MessageInit /\ [][MessageNext]_messageVars

----------------------------------------------------------------------------
\* The lines an author wrote: CRLF, CR and LF each end one.
AuthorView(b) ==
  LET keep == {i \in 1..Len(b) : ~(b[i] = "CR" /\ i < Len(b) /\ b[i + 1] = "LF")}
      kept == SetToSortSeq(keep, <)
  IN [j \in 1..Len(kept) |-> IF b[kept[j]] \in {"CR", "LF"} THEN "NL" ELSE b[kept[j]]]

\* A reader's view of s, in which only CRLF ends a line.
ReaderView(s) ==
  LET kept == SetToSortSeq({i \in 1..Len(s) : s[i] # "CR"}, <)
  IN [j \in 1..Len(kept) |-> IF s[kept[j]] = "LF" THEN "NL" ELSE s[kept[j]]]

Complete(view) == IF view # <<>> /\ Last(view) = "NL" THEN view ELSE Append(view, "NL")

\* The tokens of s between the first empty line after index i and index j.
BodyBetween(s, i, j) ==
  LET blank == CHOOSE k \in i..j : SubSeq(s, k, k + 3) = CRLF \o CRLF
                                   /\ \A l \in i..(k - 1) : SubSeq(s, l, l + 3) # CRLF \o CRLF
  IN SubSeq(s, blank + 4, j)

(* writeQuotedPrintable, writePart and normalizeCRLF (message.go:259-287): the
   text uses CRLF and nothing else to end lines, every delimiter stands at the
   start of a line, and a reader who splits it at the empty lines and at the
   delimiters gets back the lines of each body, up to one final line break. *)
BodiesSurvive ==
  \A i \in 1..Len(rendered) :
    LET s == rendered[i].content
        marks == {k \in 1..Len(s) : s[k] \in {"--b", "--b--"}}
        order == SetToSortSeq(marks, <)
    IN /\ \A k \in 1..Len(s) : /\ s[k] = "CR" => k < Len(s) /\ s[k + 1] = "LF"
                              /\ s[k] = "LF" => k > 1 /\ s[k - 1] = "CR"
       /\ \A k \in marks : s[k - 1] = "LF"
       /\ IF marks = {}
          THEN Complete(AuthorView(IF made.text # <<>> THEN made.text ELSE made.html))
                 = ReaderView(BodyBetween(s, 1, Len(s)))
          ELSE /\ Complete(AuthorView(made.text))
                    = ReaderView(BodyBetween(s, order[1], order[2] - 1))
               /\ Complete(AuthorView(made.html))
                    = ReaderView(BodyBetween(s, order[2], order[3] - 1))
=============================================================================
