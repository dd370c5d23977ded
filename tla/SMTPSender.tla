---------------------------- MODULE SMTPSender ----------------------------
(***************************************************************************)
(* mail/smtp/sender.go: Sender.Send is a chain of commands on one          *)
(* connection.  Each command sets a deadline, is sent, and is answered,    *)
(* refused or never answered; the server may act on a command whose        *)
(* answer is lost.  Cancelling the context has the socket closed, later.   *)
(***************************************************************************)
EXTENDS Naturals

CONSTANT Recipients   \* how many the message has

ASSUME SenderAssumption == Recipients \in Nat \ {0}

VARIABLES config, valid,    \* the sender's configuration; the message came from NewMessage
          advertised,       \* the server offers STARTTLS
          stage, waiting,   \* the operation, and whether its command is on the wire
          reply,            \* the server's answer to it
          next,             \* the next recipient
          tls, canceled, broken, result,
          envelope,         \* recipients the server has for this transaction
          acceptedFor       \* recipients the server has taken responsibility for
smtpVars == <<config, valid, advertised, stage, waiting, reply, next, tls, canceled, broken, result,
          envelope, acceptedFor>>

\* New: TLS is mandatory except on a local host, where there is no authentication.
Configs == {c \in [mode : {"starttls", "implicit"}, plaintext : BOOLEAN, auth : BOOLEAN, local : BOOLEAN] :
              c.plaintext => c.mode = "starttls" /\ c.local /\ ~c.auth}

SMTPInit ==
    /\ config \in Configs /\ valid \in BOOLEAN /\ advertised \in BOOLEAN
    /\ stage = "begin" /\ waiting = FALSE /\ reply = "none" /\ next = 1
    /\ tls = FALSE /\ canceled = FALSE /\ broken = FALSE /\ result = "none"
    /\ envelope = 0 /\ acceptedFor = 0

here == <<config, valid, advertised>>
there == <<broken, canceled, envelope, acceptedFor>>

\* The operation after this one has succeeded.
AfterTLS == IF config.auth THEN "authentication" ELSE "sender"
NextStage ==
    CASE stage = "dial" -> IF config.mode = "implicit" THEN "tls" ELSE "greeting"
      [] stage = "tls" -> IF config.mode = "implicit" THEN "greeting" ELSE AfterTLS
      [] stage = "greeting" -> "hello"
      [] stage = "hello" -> IF ~config.plaintext /\ config.mode = "starttls" THEN "tls" ELSE AfterTLS
      [] stage = "authentication" -> "sender"
      [] stage = "sender" -> "recipient"
      [] stage = "recipient" -> IF next < Recipients THEN "recipient" ELSE "data"
      [] stage = "data" -> "body"
      [] stage = "body" -> "quit"
      [] OTHER -> "end"

Failed ==
    /\ stage' = IF stage = "recipient" THEN "reset" ELSE "end"
    /\ result' = IF stage = "quit" THEN "sent" ELSE "error"

Begin ==
    /\ stage = "begin"
    /\ IF canceled \/ ~valid THEN stage' = "end" /\ result' = "error"
       ELSE stage' = "dial" /\ UNCHANGED result
    /\ UNCHANGED <<here, waiting, reply, next, tls, there>>

\* setDeadline refuses a finished context.  STARTTLS must be offered, and credentials
\* are sent only under TLS.
Call ==
    /\ stage \notin {"begin", "end"} /\ ~waiting
    /\ IF \/ canceled
          \/ stage = "tls" /\ config.mode = "starttls" /\ ~advertised
          \/ stage = "authentication" /\ ~tls
       THEN Failed /\ UNCHANGED waiting
       ELSE /\ waiting' = TRUE
            /\ UNCHANGED <<stage, result>>
    /\ reply' = "none"
    /\ UNCHANGED <<here, next, tls, canceled, broken, envelope, acceptedFor>>

Succeed ==
    /\ waiting /\ reply = "yes"
    /\ waiting' = FALSE /\ stage' = NextStage
    /\ next' = IF stage = "recipient" THEN next + 1 ELSE next
    /\ tls' = (tls \/ stage = "tls")
    /\ result' = IF stage = "quit" THEN "sent" ELSE result
    /\ UNCHANGED <<here, reply, there>>

\* Refused, timed out, cancelled or cut off.
MutantFail ==
    /\ waiting /\ (reply = "no" \/ broken)
    /\ waiting' = FALSE /\ Failed
    /\ UNCHANGED <<here, reply, next, tls, there>>
Fail ==
    /\ waiting
    /\ waiting' = FALSE /\ Failed
    /\ UNCHANGED <<here, reply, next, tls, there>>
-----------------------------------------------------------------------------
(* The server, the network and the caller. *)

Server ==
    /\ waiting /\ ~broken /\ reply = "none"
    /\ \/ /\ reply' = "yes"
          /\ envelope' = IF stage = "recipient" THEN envelope + 1 ELSE IF stage = "reset" THEN 0 ELSE envelope
          /\ acceptedFor' = IF stage = "body" THEN envelope ELSE acceptedFor
       \/ reply' = "no" /\ UNCHANGED <<envelope, acceptedFor>>
    /\ UNCHANGED <<here, stage, waiting, next, tls, canceled, broken, result>>

\* The network fails; or, once the context has ended, the callback closes the socket.
Break == ~broken /\ broken' = TRUE
         /\ UNCHANGED <<here, stage, waiting, reply, next, tls, canceled, result, envelope, acceptedFor>>
CancelSend == ~canceled /\ stage # "end" /\ canceled' = TRUE
          /\ UNCHANGED <<here, stage, waiting, reply, next, tls, broken, result, envelope, acceptedFor>>

Send == Begin \/ Call \/ Succeed \/ Fail
SMTPNext == Send \/ Server \/ Break \/ CancelSend
SMTPFairness == WF_smtpVars(Call \/ Succeed \/ Fail)
SMTPSpec == SMTPInit /\ [][SMTPNext]_smtpVars /\ SMTPFairness
-----------------------------------------------------------------------------
\* Send reports success only if the server has taken the message for every recipient.
NilMeansAccepted == result = "sent" => acceptedFor = Recipients

\* Once Send has seen the server accept the message, no failure of the farewell turns it
\* into an error that would have the caller send it again.
AcceptedIsNotAnError == [][stage = "quit" => result' # "error"]_smtpVars

\* The server never takes a message for some of the recipients only.
AllRecipientsOrNone == acceptedFor \in {0, Recipients}

\* A Send that has begun returns though the server never answers: every operation has a
\* deadline.
SendReturns == (stage # "begin") ~> (stage = "end" /\ result # "none")
=============================================================================
