----------------------------- MODULE MailSession -----------------------------
(***************************************************************************)
(* The alarm mails of the gateway (applications/send_mail.c): one SMTP       *)
(* dialogue per alarm over a blocking socket, with a global text buffer      *)
(* Context that each mail appends to, and a server outside the code.         *)
(*                                                                           *)
(* Mails are numbered; the text of mail m is m.  Of a reply only its first    *)
(* digit matters, and of that whether it is a "5", since getResponse looks   *)
(* at nothing else; the stream may hand a reply to recv in pieces.            *)
(***************************************************************************)
EXTENDS Naturals, Sequences, FiniteSets

CONSTANTS
  MaxMails,    \* bound: alarms to be mailed
  MaxSockets,  \* sockets of the network device left to the mails
  MaxCuts      \* bound: replies of a dialogue that are cut in two

ASSUME MailAssumption == MaxMails \in Nat /\ MaxSockets \in Nat /\ MaxCuts \in Nat

VARIABLES
  mail,       \* the number of the mail in progress or sent last
  step,       \* the command of the dialogue the client is at
  said,       \* the command is sent and its reply not yet read
  context,    \* Context: the texts in it, each with its "." line
  sockets,    \* sockets the mails hold
  replies,    \* replies, or the rest of one, on their way to the client
  closed,     \* the server has closed the connection
  expects,    \* the command the server is ready for
  outcome,    \* what send_mail returned for each mail
  delivered,  \* history: mails accepted by the server, with their text
  refused,    \* history: the command the server refused for good, or "none"
  cuts        \* history: replies of the dialogue of which a recv has returned a part

server == <<replies, closed, expects>>
vars == <<mail, step, said, context, sockets, server, outcome, delivered, refused,
          cuts>>

Mails == 1 .. MaxMails
Dialogue == <<"greeting", "helo", "auth", "user", "pass",
              "from", "rcpt", "data", "body", "quit">>
Steps == {Dialogue[i] : i \in DOMAIN Dialogue}
Pos(c) == CHOOSE i \in DOMAIN Dialogue : Dialogue[i] = c
After(c) == Dialogue[Pos(c) + 1]
LoginSteps == {"greeting", "helo", "auth", "user", "pass"}

-----------------------------------------------------------------------------
(* The client *)

\* Each dialogue has a connection of its own: what the server says on one that
\* send_mail has left is never read.
NewConnection == /\ replies' = <<>> /\ closed' = FALSE /\ expects' = "greeting"
                 /\ refused' = "none" /\ cuts' = 0

\* A variant of Finish: the result of sendmail is returned.
FinishStrict(ok) ==
  /\ outcome' = [outcome EXCEPT ![mail] = IF ok THEN "ok" ELSE "failed"]
  /\ step' = "idle" /\ said' = FALSE
  /\ NewConnection

\* send_mail returns: -1 if connectHost or login has failed, 0 in any case
\* once sendmail has been called.
Finish(ok) ==
  /\ outcome' = [outcome EXCEPT ![mail] =
                  IF ok \/ step \notin LoginSteps THEN "ok" ELSE "failed"]
  /\ step' = "idle" /\ said' = FALSE
  /\ NewConnection

\* connectHost; without a free socket, or when the connection is refused,
\* nothing is sent, and the socket of a refused connection stays open.
Connect ==
  /\ step = "idle" /\ mail < MaxMails
  /\ mail' = mail + 1
  /\ \/ /\ sockets < MaxSockets
        /\ sockets' = sockets + 1
        /\ step' = "greeting" /\ said' = TRUE
        /\ UNCHANGED outcome
     \/ /\ outcome' = [outcome EXCEPT ![mail'] = "failed"]
        /\ sockets' \in {sockets, sockets + 1} \cap 0 .. MaxSockets
        /\ UNCHANGED <<step, said>>
  /\ NewConnection
  /\ UNCHANGED <<context, delivered>>

\* The server's half of a command: it accepts it, refuses it for now or for good.
\* A text that is not expected, or follows the first "." line, is read as commands
\* it does not know.
Reply(digit, next) == replies' = Append(replies, digit) /\ expects' = next
Refused(c) == refused' = IF refused = "none" THEN c ELSE refused
Serve(c, text) ==
  IF c = expects
  THEN \/ /\ Reply("other", IF c = "quit" THEN c ELSE After(c))
          /\ delivered' = IF c = "body"
                          THEN delivered \cup {[mail |-> mail, text |-> Head(text)]}
                          ELSE delivered
          /\ UNCHANGED refused
       \/ /\ \/ Reply("other", IF c = "body" THEN "from" ELSE c) /\ UNCHANGED refused
             \/ Reply("5", IF c = "body" THEN "from" ELSE c) /\ Refused(c)
          /\ UNCHANGED delivered
  ELSE /\ IF c = "quit" THEN Reply("other", expects) /\ UNCHANGED refused
                        ELSE Reply("5", expects) /\ Refused(c)
       /\ UNCHANGED delivered

ClosedTwice == sockets - 2  \* a variant of SocketClosed
SocketClosed == sockets - 1

\* A command is sent; the body is the whole of Context with the new text.  A
\* failed send is the only place where the socket is closed.
SendStep ==
  /\ step \in Steps \ {"greeting"} /\ ~ said
  /\ context' = IF step = "body" THEN Append(context, mail) ELSE context
  /\ \/ /\ said' = TRUE
        /\ IF closed THEN UNCHANGED <<server, delivered, refused>>
                     ELSE Serve(step, context') /\ UNCHANGED closed
        /\ UNCHANGED <<step, sockets, outcome, cuts>>
     \/ /\ Finish(FALSE)
        /\ sockets' = SocketClosed
        /\ UNCHANGED delivered
  /\ UNCHANGED mail

\* A recv returns replies up to the n-th, or only the beginning of that one: what
\* is left to read, and the replies cut so far.
Rest == "rest"
Left(n, part) == (IF part THEN <<Rest>> ELSE <<>>) \o SubSeq(replies, n + 1, Len(replies))
Cut(part) == IF part THEN cuts + 1 ELSE cuts

\* getResponse fails if what it has read begins with a "5", be it a code or the
\* rest of a reply that was cut in front of one.
AcceptsAny(reply) == TRUE  \* a variant of Accepts
Accepts(reply) == reply # "5"
Refuses(reply) == reply = Rest \/ ~ Accepts(reply)
ContinueQuit(left, count) ==  \* a variant of Continue: QUIT is repeated
  /\ step' = IF step = "quit" THEN step ELSE After(step)
  /\ said' = FALSE /\ replies' = left /\ cuts' = count
  /\ UNCHANGED <<outcome, closed, expects, refused>>
Continue(left, count) ==
  IF step = "quit" THEN Finish(TRUE)
  ELSE /\ step' = After(step) /\ said' = FALSE
       /\ replies' = left /\ cuts' = count
       /\ UNCHANGED <<outcome, closed, expects, refused>>

\* The reply to a command is read.  That of the greeting is not looked at, and the
\* empty one of a connection that is closed is as good as any.
ReadReply ==
  /\ said
  /\ \/ \E n \in DOMAIN replies, part \in BOOLEAN :
          /\ Cut(part) <= MaxCuts
          /\ step = "greeting" \/ Accepts(Head(replies))
          /\ Continue(Left(n, part), Cut(part))
     \/ replies # <<>> /\ step # "greeting" /\ Refuses(Head(replies)) /\ Finish(FALSE)
     \/ replies = <<>> /\ closed /\ (Continue(<<>>, cuts) \/ Finish(FALSE))
  /\ UNCHANGED <<mail, context, sockets, delivered>>

-----------------------------------------------------------------------------
(* The server *)

Greet ==
  /\ expects = "greeting" /\ step = "greeting" /\ ~ closed
  /\ \E digit \in {"other", "5"} : Reply(digit, "helo")
  /\ UNCHANGED <<mail, step, said, context, sockets, closed, outcome, delivered, refused,
                 cuts>>

\* What follows the first "." line of a body is answered line by line.
Grumble ==
  /\ ~ closed /\ step = "quit" /\ Len(context) > 1 /\ Len(replies) < 2
  /\ replies' = Append(replies, "5")
  /\ UNCHANGED <<mail, step, said, context, sockets, closed, expects, outcome,
                 delivered, refused, cuts>>

Close ==
  /\ step # "idle" /\ ~ closed
  /\ closed' = TRUE
  /\ UNCHANGED <<mail, step, said, context, sockets, replies, expects, outcome,
                 delivered, refused, cuts>>

Init ==
  /\ mail = 0 /\ step = "idle" /\ said = FALSE
  /\ context = <<>> /\ sockets = 0
  /\ replies = <<>> /\ closed = FALSE /\ expects = "greeting"
  /\ outcome = [m \in Mails |-> "none"]
  /\ delivered = {} /\ refused = "none" /\ cuts = 0

Client == SendStep \/ ReadReply
Next == Connect \/ Client \/ Greet \/ Grumble \/ Close

\* The alarm thread goes on with its dialogue, and the server greets a client
\* or closes the connection: the socket has no receive timeout.
Spec == Init /\ [][Next]_vars /\ WF_vars(Client) /\ WF_vars(Greet \/ Close)

-----------------------------------------------------------------------------
(* Properties *)

TypeOK ==
  /\ mail \in 0 .. MaxMails /\ step \in Steps \cup {"idle"} /\ said \in BOOLEAN
  /\ context \in Seq(Mails) /\ sockets \in 0 .. MaxSockets
  /\ replies \in Seq({"other", "5", Rest}) /\ closed \in BOOLEAN /\ cuts \in 0 .. MaxCuts
  /\ expects \in Steps /\ refused \in Steps \cup {"none"}
  /\ outcome \in [Mails -> {"none", "ok", "failed"}]
  /\ delivered \in SUBSET [mail : Mails, text : Mails]

\* An alarm whose mail send_mail reports as failed was not delivered: the caller
\* that tried again would not send it twice.
FailedMeansUndelivered ==
  \A m \in Mails : outcome[m] = "failed" => ~ \E d \in delivered : d.mail = m

\* What the server refuses for good ends the dialogue: the client goes past a
\* command that was answered with "5" only if a recv has cut a reply in two, however
\* many replies a recv returns at once (getResponse reads once per command and keeps
\* nothing of what comes after the first digit).
RefusedMeansStopped ==
  refused \in Steps \ {"body", "quit"} /\ step \notin {"idle", refused} => cuts > 0

\* A mail has the text of the alarm it is sent for.
MailCarriesOwnAlarm == \A d \in delivered : d.text = d.mail
=============================================================================
