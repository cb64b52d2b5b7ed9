------------------------ MODULE GatewayNotify_proofs ------------------------
(***************************************************************************)
(* Theorems about the alarm mails, by themselves (MailSession) and inside   *)
(* the scan of the alarm thread (GatewayNotify), for any number of mails,   *)
(* sockets and devices and any tick counter.                                *)
(***************************************************************************)
EXTENDS GatewayNotify, SequenceTheorems, TLAPS

\* What may be on its way to the client.
Digits == {"other", "5", Rest}

\* What the type invariant needs besides: a dialogue has its number and its socket,
\* and has not returned yet; without one no reply is waited for.
Running ==
  /\ step # "idle" => mail \in Mails /\ sockets \in 1 .. MaxSockets /\ outcome[mail] = "none"
  /\ step = "idle" => said = FALSE

\* Mails are delivered in the order of their numbers, and not before the login is over.
Unsent == step \in LoginSteps => \A d \in delivered : d.mail # mail
InOrder == \A d \in delivered : d.mail \in 1 .. mail
NotYet == \A m \in Mails : m > mail => outcome[m] = "none"

MailInv == TypeOK /\ Running /\ Unsent /\ InOrder /\ NotYet /\ FailedMeansUndelivered

\* As long as replies come whole, a command and its reply alternate until QUIT:
\* before a command no reply is left, and after it there is at most the one.
OneReply == cuts = 0 =>
  /\ step \in Steps \ {"quit"} => Len(replies) <= 1
  /\ step \in Steps \ {"quit"} /\ ~ said => replies = <<>>
  /\ step = "greeting" =>
       said /\ refused = "none" /\ (expects = "greeting" => replies = <<>>)

\* The reply to the command that was refused is still to be read.
RefusalPending ==
  cuts = 0 /\ refused \in Steps \ {"body", "quit"} /\ step # "idle" =>
    step = refused /\ said /\ replies = <<"5">>

-----------------------------------------------------------------------------
(* The order of the commands *)

\* What follows a command is the next one of the dialogue; once past the login it
\* never comes back to it.
LEMMA Successor ==
  ASSUME NEW c \in Steps, c # "quit"
  PROVE  /\ After(c) \in Steps \ {"greeting"}
         /\ c \notin LoginSteps => After(c) \notin LoginSteps
<1>1. DOMAIN Dialogue = 1 .. 10
  BY DEF Dialogue
<1>2. PICK i \in 1 .. 10 : c = Dialogue[i]
  BY <1>1 DEF Steps
<1>3. \A j \in 1 .. 10 : Dialogue[j] = c => j = i
  BY <1>2 DEF Dialogue
<1>4. Pos(c) = i
  BY <1>1, <1>2, <1>3 DEF Pos
<1>5. i # 10
  BY <1>2 DEF Dialogue
<1>6. After(c) = Dialogue[i + 1] /\ i + 1 \in 1 .. 10
  BY <1>4, <1>5 DEF After
<1>7. After(c) \in Steps
  BY <1>1, <1>6 DEF Steps
<1>8. After(c) # "greeting"
  BY <1>5, <1>6 DEF Dialogue
<1>9. c \notin LoginSteps => After(c) \notin LoginSteps
  BY <1>2, <1>5, <1>6 DEF Dialogue, LoginSteps
<1> QED  BY <1>7, <1>8, <1>9

\* The commands by name.
LEMMA StepNames ==
  /\ {"greeting", "helo", "from", "body", "quit"} \subseteq Steps
  /\ "idle" \notin Steps /\ "none" \notin Steps
  /\ LoginSteps \subseteq Steps \ {"body", "quit"}
<1>1. DOMAIN Dialogue = 1 .. 10
  BY DEF Dialogue
<1>2. Steps = {Dialogue[i] : i \in 1 .. 10}
  BY <1>1 DEF Steps
<1>3. \A i \in 1 .. 10 : Dialogue[i] # "idle" /\ Dialogue[i] # "none"
  BY DEF Dialogue
<1>4. /\ Dialogue[1] = "greeting" /\ Dialogue[2] = "helo" /\ Dialogue[3] = "auth"
      /\ Dialogue[4] = "user" /\ Dialogue[5] = "pass" /\ Dialogue[6] = "from"
      /\ Dialogue[9] = "body" /\ Dialogue[10] = "quit"
  BY DEF Dialogue
<1> QED  BY <1>2, <1>3, <1>4 DEF LoginSteps

-----------------------------------------------------------------------------
(* Type correctness and FailedMeansUndelivered *)

LEMMA ConnectionTypes ==
  ASSUME NewConnection
  PROVE  /\ replies' \in Seq(Digits) /\ closed' \in BOOLEAN /\ expects' \in Steps
         /\ refused' \in Steps \cup {"none"} /\ cuts' \in 0 .. MaxCuts
<1>1. /\ replies' = <<>> /\ expects' = "greeting" /\ refused' = "none" /\ cuts' = 0
      /\ closed' \in BOOLEAN
  BY DEF NewConnection
<1>2. 0 \in 0 .. MaxCuts /\ <<>> \in Seq(Digits)
  BY MailAssumption
<1> QED  BY <1>1, <1>2, StepNames

LEMMA MailInit ==
  ASSUME Init
  PROVE  MailInv
<1>1. context \in Seq(Mails) /\ replies \in Seq(Digits)
  BY DEF Init
<1>2. outcome \in [Mails -> {"none", "ok", "failed"}] /\ \A m \in Mails : outcome[m] = "none"
  BY DEF Init
<1>3. said \in BOOLEAN /\ closed \in BOOLEAN
  BY DEF Init
<1>7. cuts \in 0 .. MaxCuts
  BY MailAssumption DEF Init
<1>4. TypeOK
  BY <1>1, <1>2, <1>3, <1>7, MailAssumption, StepNames DEF Init, TypeOK, Digits
<1>5. Running /\ InOrder /\ NotYet /\ FailedMeansUndelivered
  BY <1>2 DEF Init, Running, InOrder, NotYet, FailedMeansUndelivered
<1>6. Unsent
  BY DEF Init, Unsent
<1> QED
  BY <1>4, <1>5, <1>6 DEF MailInv

LEMMA MailConnect ==
  ASSUME MailInv, Connect
  PROVE  MailInv'
<1> USE DEF MailInv
<1>1. mail + 1 \in Mails /\ mail' = mail + 1 /\ mail \in Nat
  BY MailAssumption DEF Connect, TypeOK, Mails
<1>2. /\ sockets' \in 0 .. MaxSockets
      /\ step' # "idle" => step' = "greeting" /\ sockets' \in 1 .. MaxSockets
                           /\ outcome' = outcome
  BY MailAssumption DEF Connect, TypeOK
<1>3. NewConnection
  BY DEF Connect
<1>4. outcome' \in [Mails -> {"none", "ok", "failed"}]
  BY <1>1 DEF Connect, TypeOK
<1>5. step' \in Steps \cup {"idle"} /\ said' \in BOOLEAN
  BY StepNames DEF Connect, TypeOK
<1>6. TypeOK'
  <2>1. mail' \in 0 .. MaxMails
    BY <1>1, MailAssumption DEF Mails
  <2>2. UNCHANGED <<context, delivered>>
    BY DEF Connect
  <2> QED  BY <1>2, <1>3, <1>4, <1>5, <2>1, <2>2, ConnectionTypes DEF TypeOK, Digits
<1>7. \A d \in delivered' : d.mail \in 1 .. mail /\ d.mail # mail'
  BY <1>1 DEF Connect, InOrder
<1>8. Unsent' /\ InOrder'
  BY <1>1, <1>7 DEF Unsent, InOrder
<1>9. \A m \in Mails : m # mail' => outcome'[m] = outcome[m]
  BY <1>1 DEF Connect, TypeOK
<1>10. FailedMeansUndelivered'
  <2> SUFFICES ASSUME NEW m \in Mails, outcome'[m] = "failed",
                      NEW d \in delivered', d.mail = m
               PROVE  FALSE
    BY DEF FailedMeansUndelivered
  <2>1. m # mail' /\ d \in delivered
    BY <1>7 DEF Connect
  <2> QED  BY <1>9, <2>1 DEF FailedMeansUndelivered
<1>11. Running'
  <2>1. step = "idle" /\ said = FALSE
    BY DEF Connect, Running
  <2>2. step' = "idle" => said' = said
    BY DEF Connect
  <2>3. step' = "idle" => said' = FALSE
    BY <2>1, <2>2
  <2>4. step' # "idle" =>
          mail' \in Mails /\ sockets' \in 1 .. MaxSockets /\ outcome'[mail'] = "none"
    BY <1>1, <1>2 DEF NotYet
  <2> QED  BY <2>3, <2>4 DEF Running
<1>12. NotYet'
  BY <1>1, <1>9 DEF NotYet, Mails
<1> QED  BY <1>6, <1>8, <1>10, <1>11, <1>12

\* send_mail returns: the outcome of a mail that has failed before its text was sent.
LEMMA MailReturns ==
  ASSUME MailInv, step \in Steps, NEW ok \in BOOLEAN, Finish(ok),
         UNCHANGED <<mail, delivered>>, context' \in Seq(Mails),
         sockets' \in 0 .. MaxSockets
  PROVE  MailInv'
<1> USE DEF MailInv
<1>1. step' = "idle" /\ said' \in BOOLEAN /\ mail \in Mails
  BY StepNames DEF Finish, Running
<1>0. said' = FALSE /\ NewConnection
  BY DEF Finish
<1>2. outcome' \in [Mails -> {"none", "ok", "failed"}]
  BY <1>1 DEF Finish, TypeOK
<1>3. TypeOK'
  BY <1>0, <1>1, <1>2, ConnectionTypes DEF TypeOK, Digits
<1>4. \A m \in Mails : m # mail => outcome'[m] = outcome[m]
  BY DEF Finish, TypeOK
<1>5. step \notin LoginSteps => outcome'[mail] = "ok"
  BY <1>1 DEF Finish, TypeOK
<1>6. FailedMeansUndelivered'
  <2> SUFFICES ASSUME NEW m \in Mails, outcome'[m] = "failed",
                      NEW d \in delivered, d.mail = m
               PROVE  FALSE
    BY DEF FailedMeansUndelivered
  <2>1. CASE m = mail
    BY <1>5, <2>1 DEF Unsent
  <2>2. CASE m # mail
    BY <1>4, <2>2 DEF FailedMeansUndelivered
  <2> QED  BY <2>1, <2>2
<1>7. NotYet'
  BY <1>1, <1>4 DEF NotYet, Mails
<1>8. Unsent' /\ InOrder'
  BY <1>1, StepNames DEF Unsent, InOrder
<1>9. Running'
  BY <1>0, <1>1 DEF Running
<1> QED  BY <1>3, <1>6, <1>7, <1>8, <1>9

\* A step within the dialogue: at most the command moves on.
LEMMA MailGoesOn ==
  ASSUME MailInv, step \in Steps, UNCHANGED <<mail, sockets, outcome>>,
         TypeOK', step' \in Steps,
         step \notin LoginSteps => step' \notin LoginSteps,
         \A d \in delivered' \ delivered : d.mail = mail /\ step' \notin LoginSteps
  PROVE  MailInv'
<1> USE DEF MailInv
<1>1. mail \in Mails /\ mail \in 1 .. mail /\ outcome[mail] = "none"
  BY StepNames, MailAssumption DEF Running, Mails
<1>2. Running' /\ NotYet'
  BY <1>1, StepNames DEF Running, NotYet
<1>3. InOrder'
  BY <1>1 DEF InOrder
<1>4. Unsent'
  BY DEF Unsent
<1>5. FailedMeansUndelivered'
  BY <1>1 DEF FailedMeansUndelivered
<1> QED  BY <1>2, <1>3, <1>4, <1>5

\* The server's half of a command keeps the types, and a mail it accepts is the one
\* in progress, whose body it was sent.
LEMMA Served ==
  ASSUME TypeOK, step \in Steps, mail \in Mails, NEW text \in Seq(Mails),
         step = "body" => text # <<>>, Serve(step, text)
  PROVE  /\ replies' \in Seq(Digits) /\ expects' \in Steps
         /\ refused' \in Steps \cup {"none"}
         /\ delivered' \in SUBSET [mail : Mails, text : Mails]
         /\ \A d \in delivered' \ delivered : d.mail = mail /\ step = "body"
<1>1. \A digit \in Digits : \A next : Reply(digit, next) => replies' \in Seq(Digits) /\ expects' = next
  BY DEF Reply, TypeOK, Digits
<1>2. CASE step = expects
  <2>1. CASE /\ Reply("other", IF step = "quit" THEN step ELSE After(step))
             /\ delivered' = IF step = "body"
                             THEN delivered \cup {[mail |-> mail, text |-> Head(text)]}
                             ELSE delivered
             /\ UNCHANGED refused
    <3>1. replies' \in Seq(Digits) /\ expects' = IF step = "quit" THEN step ELSE After(step)
      BY <1>1, <2>1 DEF Digits
    <3>2. expects' \in Steps
      BY <3>1, Successor
    <3>3. CASE step = "body"
      <4>1. [mail |-> mail, text |-> Head(text)] \in [mail : Mails, text : Mails]
        BY <3>3
      <4> QED  BY <2>1, <3>1, <3>2, <3>3, <4>1 DEF TypeOK
    <3>4. CASE step # "body"
      BY <2>1, <3>1, <3>2, <3>4 DEF TypeOK
    <3> QED  BY <3>3, <3>4
  <2>2. CASE /\ \/ /\ Reply("other", IF step = "body" THEN "from" ELSE step)
                   /\ UNCHANGED refused
                \/ Reply("5", IF step = "body" THEN "from" ELSE step) /\ Refused(step)
             /\ UNCHANGED delivered
    <3>1. "from" \in Steps
      BY StepNames
    <3>2. replies' \in Seq(Digits) /\ expects' \in Steps
      BY <1>1, <2>2, <3>1 DEF Digits
    <3> QED  BY <2>2, <3>2 DEF Refused, TypeOK
  <2> QED  BY <1>2, <2>1, <2>2 DEF Serve
<1>3. CASE step # expects
  <2>1. /\ \/ Reply("other", expects) /\ UNCHANGED refused
           \/ Reply("5", expects) /\ Refused(step)
        /\ UNCHANGED delivered
    BY <1>3 DEF Serve
  <2>2. replies' \in Seq(Digits) /\ expects' = expects
    BY <1>1, <2>1 DEF Digits
  <2> QED  BY <2>1, <2>2 DEF Refused, TypeOK
<1> QED  BY <1>2, <1>3

LEMMA MailSend ==
  ASSUME MailInv, SendStep
  PROVE  MailInv'
<1> USE DEF MailInv, Digits
<1>1. step \in Steps /\ step \notin {"greeting"} /\ UNCHANGED mail
  BY DEF SendStep
<1>2. mail \in Mails /\ sockets \in 1 .. MaxSockets
  BY <1>1, StepNames DEF Running
<1>3. context' \in Seq(Mails) /\ (step = "body" => context' # <<>>)
  BY <1>1, <1>2 DEF SendStep, TypeOK
<1>4. CASE /\ said' = TRUE
           /\ IF closed THEN UNCHANGED <<server, delivered, refused>>
                        ELSE Serve(step, context') /\ UNCHANGED closed
           /\ UNCHANGED <<step, sockets, outcome, cuts>>
  <2>1. /\ replies' \in Seq(Digits) /\ expects' \in Steps
        /\ refused' \in Steps \cup {"none"}
        /\ delivered' \in SUBSET [mail : Mails, text : Mails]
        /\ \A d \in delivered' \ delivered : d.mail = mail /\ step = "body"
    <3>1. CASE closed
      BY <1>4, <3>1 DEF server, TypeOK
    <3>2. CASE ~ closed
      BY <1>1, <1>2, <1>3, <1>4, <3>2, Served
    <3> QED  BY <3>1, <3>2
  <2>2. closed' \in BOOLEAN /\ said' \in BOOLEAN
    BY <1>4 DEF server, TypeOK
  <2>3. TypeOK'
    BY <1>1, <1>3, <1>4, <2>1, <2>2 DEF TypeOK
  <2> QED  BY <1>1, <1>4, <2>1, <2>3, StepNames, MailGoesOn
<1>5. CASE /\ Finish(FALSE)
           /\ sockets' = SocketClosed
           /\ UNCHANGED delivered
  <2>1. sockets' \in 0 .. MaxSockets
    BY <1>2, <1>5, MailAssumption DEF SocketClosed
  <2> QED  BY <1>1, <1>3, <1>5, <2>1, MailReturns
<1> QED  BY <1>4, <1>5 DEF SendStep

\* What a recv leaves.
LEMMA LeftTypes ==
  ASSUME TypeOK, NEW n \in DOMAIN replies, NEW part \in BOOLEAN, Cut(part) <= MaxCuts
  PROVE  Left(n, part) \in Seq(Digits) /\ Cut(part) \in 0 .. MaxCuts
<1> DEFINE rest == SubSeq(replies, n + 1, Len(replies))
<1>1. n \in 1 .. Len(replies) /\ replies \in Seq(Digits)
  BY DEF TypeOK, Digits
<1>2. \A i \in n + 1 .. Len(replies) : replies[i] \in Digits
  BY <1>1
<1>3. rest \in Seq(Digits)
  BY <1>1, <1>2
<1>4. <<Rest>> \in Seq(Digits) /\ <<>> \in Seq(Digits)
  BY DEF Digits
<1> HIDE DEF rest
<1>5. <<Rest>> \o rest \in Seq(Digits) /\ <<>> \o rest \in Seq(Digits)
  BY <1>3, <1>4
<1>6. Left(n, part) = (IF part THEN <<Rest>> ELSE <<>>) \o rest
  BY DEF Left, rest
<1>7. Cut(part) \in 0 .. MaxCuts
  BY MailAssumption DEF Cut, TypeOK
<1> QED  BY <1>5, <1>6, <1>7

\* What ReadReply does: the dialogue goes on, with what is left to read, or ends.
LEMMA ReadCases ==
  ASSUME TypeOK, ReadReply
  PROVE  \/ \E left \in Seq(Digits), count \in 0 .. MaxCuts : Continue(left, count)
         \/ Finish(FALSE)
<1>1. ASSUME NEW n \in DOMAIN replies, NEW part \in BOOLEAN, Cut(part) <= MaxCuts,
             Continue(Left(n, part), Cut(part))
      PROVE  \E left \in Seq(Digits), count \in 0 .. MaxCuts : Continue(left, count)
  BY <1>1, LeftTypes
<1>2. <<>> \in Seq(Digits) /\ cuts \in 0 .. MaxCuts
  BY DEF TypeOK
<1> QED  BY <1>1, <1>2 DEF ReadReply

LEMMA MailRead ==
  ASSUME MailInv, ReadReply
  PROVE  MailInv'
<1> USE DEF MailInv
<1>1. said = TRUE /\ step \in Steps
  BY DEF ReadReply, TypeOK, Running
<1>2. UNCHANGED <<mail, context, sockets, delivered>>
  BY DEF ReadReply
<1>3. CASE \E ok \in BOOLEAN : Finish(ok)
  <2>1. sockets' \in 0 .. MaxSockets /\ context' \in Seq(Mails)
    BY <1>2 DEF TypeOK
  <2> QED  BY <1>1, <1>2, <1>3, <2>1, MailReturns
<1>4. ASSUME NEW left \in Seq(Digits), NEW count \in 0 .. MaxCuts, step # "quit",
             Continue(left, count)
      PROVE  MailInv'
  <2>1. /\ step' = After(step) /\ said' = FALSE
        /\ replies' = left /\ cuts' = count
        /\ UNCHANGED <<outcome, closed, expects, refused>>
    BY <1>4 DEF Continue
  <2>2. step' \in Steps /\ (step \notin LoginSteps => step' \notin LoginSteps)
    BY <1>1, <1>4, <2>1, Successor
  <2>3. closed' \in BOOLEAN /\ said' \in BOOLEAN
    BY <2>1 DEF TypeOK
  <2>4. TypeOK'
    BY <1>2, <2>1, <2>2, <2>3 DEF TypeOK, Digits
  <2> QED  BY <1>1, <1>2, <2>1, <2>2, <2>4, MailGoesOn
<1>5. (\E left \in Seq(Digits), count \in 0 .. MaxCuts : Continue(left, count)) \/ Finish(FALSE)
  BY ReadCases
<1> QED  BY <1>3, <1>4, <1>5 DEF Continue

\* The server greets, answers a line of text, or closes.
LEMMA MailAnswers ==
  ASSUME MailInv, Greet \/ Grumble \/ Close
  PROVE  MailInv'
<1> USE DEF MailInv
<1>1. /\ step \in Steps
      /\ UNCHANGED <<mail, step, said, context, sockets, outcome, delivered, refused, cuts>>
  BY StepNames DEF Greet, Grumble, Close, TypeOK
<1>2. replies' \in Seq(Digits) /\ expects' \in Steps
  <2>1. CASE Greet
    BY <2>1, StepNames DEF Greet, Reply, TypeOK, Digits
  <2>2. CASE Grumble
    BY <2>2 DEF Grumble, TypeOK, Digits
  <2>3. CASE Close
    BY <2>3 DEF Close, TypeOK, Digits
  <2> QED  BY <2>1, <2>2, <2>3
<1>3. closed' \in BOOLEAN /\ said' \in BOOLEAN
  BY <1>1 DEF Greet, Grumble, Close, TypeOK
<1>4. TypeOK'
  BY <1>1, <1>2, <1>3 DEF TypeOK, Digits
<1> QED  BY <1>1, <1>4, MailGoesOn

LEMMA MailInvariant == Spec => []MailInv
<1>1. Init => MailInv
  BY MailInit
<1>2. MailInv /\ [Next]_vars => MailInv'
  <2> SUFFICES ASSUME MailInv, [Next]_vars
               PROVE  MailInv'
    OBVIOUS
  <2>1. CASE UNCHANGED vars
    BY <2>1 DEF vars, server, MailInv, TypeOK, Running, Unsent, InOrder, NotYet,
       FailedMeansUndelivered
  <2> QED
    BY <2>1, MailConnect, MailSend, MailRead, MailAnswers DEF Next, Client
<1> QED  BY <1>1, <1>2, PTL DEF Spec

\* The state of the dialogue keeps its types: sockets are not given back more often than
\* they were taken, whatever the server refuses and whenever a send fails.
THEOREM TypeCorrect == Spec => []TypeOK
<1>1. MailInv => TypeOK
  BY DEF MailInv
<1> QED  BY <1>1, MailInvariant, PTL

\* send_mail reports a failure only for a mail that was not delivered.
THEOREM FailureIsUndelivered == Spec => []FailedMeansUndelivered
<1>1. MailInv => FailedMeansUndelivered
  BY DEF MailInv
<1> QED  BY <1>1, MailInvariant, PTL

-----------------------------------------------------------------------------
(* RefusedMeansStopped *)

LEMMA DialogueInit ==
  ASSUME Init
  PROVE  OneReply /\ RefusalPending
BY StepNames DEF Init, OneReply, RefusalPending

LEMMA DialogueConnect ==
  ASSUME MailInv, OneReply, RefusalPending, Connect
  PROVE  OneReply' /\ RefusalPending'
<1>1. replies' = <<>> /\ refused' = "none" /\ Len(<<>>) = 0
  BY DEF Connect, NewConnection
<1>2. step' = "greeting" => said' = TRUE
  BY DEF Connect
<1>3. OneReply'
  BY <1>1, <1>2 DEF OneReply
<1> QED  BY <1>1, <1>3, StepNames DEF RefusalPending

\* A command is sent when there is no reply left to read, so nothing was refused
\* yet, and the answer to it is the only one, except to QUIT.
LEMMA DialogueSend ==
  ASSUME MailInv, OneReply, RefusalPending, SendStep
  PROVE  OneReply' /\ RefusalPending'
<1> SUFFICES ASSUME cuts' = 0 PROVE OneReply' /\ RefusalPending'
  BY DEF OneReply, RefusalPending
<1>4. CASE Finish(FALSE)
  <2>1. step' = "idle"
    BY <1>4 DEF Finish
  <2> QED  BY <2>1, StepNames DEF OneReply, RefusalPending
<1> SUFFICES ASSUME UNCHANGED cuts PROVE OneReply' /\ RefusalPending'
  BY <1>4 DEF SendStep
<1>1. step \in Steps /\ step # "greeting" /\ said = FALSE /\ cuts = 0
  BY DEF SendStep, MailInv, TypeOK
<1>2. refused \notin Steps \ {"body", "quit"}
  BY <1>1, StepNames DEF RefusalPending
<1>3. step # "quit" => replies = <<>>
  BY <1>1 DEF OneReply
<1>5. CASE said' = TRUE /\ UNCHANGED step /\ UNCHANGED <<replies, refused>>
  <2>1. OneReply'
    BY <1>1, <1>3, <1>5 DEF OneReply
  <2>2. RefusalPending'
    BY <1>2, <1>5 DEF RefusalPending
  <2> QED  BY <2>1, <2>2
<1>6. CASE said' = TRUE /\ UNCHANGED step /\ Serve(step, context')
  <2>1. \E digit \in Digits :
          /\ replies' = Append(replies, digit)
          /\ refused' \in {refused} \cup (IF digit = "5" THEN {step} ELSE {})
    BY <1>6, Zenon DEF Serve, Reply, Refused, Digits
  <2>2. step # "quit" => Len(replies') = 1
    BY <1>3, <2>1
  <2>3. OneReply'
    <3>1. step' = step /\ step # "greeting"
      BY <1>1, <1>6
    <3>2. ASSUME step' # "quit"
          PROVE  Len(replies') <= 1
      <4>1. Len(replies') = 1
        BY <2>2, <3>1, <3>2
      <4> QED  BY <4>1
    <3>3. said' = TRUE
      BY <1>6
    <3> QED  BY <3>1, <3>2, <3>3 DEF OneReply
  <2>4. refused' \in Steps \ {"body", "quit"} =>
          refused' = step' /\ replies' = <<"5">>
    <3> SUFFICES ASSUME refused' \in Steps \ {"body", "quit"}
                 PROVE  refused' = step' /\ replies' = <<"5">>
      OBVIOUS
    <3>1. refused' = step /\ replies' = Append(replies, "5")
      BY <1>2, <2>1
    <3>2. replies = <<>>
      BY <1>3, <3>1
    <3>3. Append(<<>>, "5") = <<"5">>
      OBVIOUS
    <3> QED  BY <1>6, <3>1, <3>2, <3>3
  <2>5. RefusalPending'
    BY <1>6, <2>4 DEF RefusalPending
  <2> QED  BY <2>3, <2>5
<1> QED  BY <1>4, <1>5, <1>6 DEF SendStep, server

\* The reply is read, and with it the refusal: the dialogue ends.
LEMMA DialogueRead ==
  ASSUME MailInv, OneReply, RefusalPending, ReadReply
  PROVE  OneReply' /\ RefusalPending'
<1>1. said = TRUE /\ step \in Steps
  BY DEF ReadReply, MailInv, TypeOK, Running
<1>2. CASE Finish(FALSE) \/ Finish(TRUE)
  <2>1. step' = "idle"
    BY <1>2 DEF Finish
  <2> QED  BY <2>1, StepNames DEF OneReply, RefusalPending
\* The dialogue goes on after a whole reply, or after none.
<1>3. ASSUME NEW left, NEW count, step # "quit", Continue(left, count),
             count = 0 => cuts = 0 /\ left = <<>>,
             cuts = 0 => step = "greeting" \/ replies # <<"5">>
      PROVE  OneReply' /\ RefusalPending'
  <2>1. /\ step' \in Steps \ {"greeting"} /\ said' = FALSE
        /\ replies' = left /\ cuts' = count /\ UNCHANGED refused
    BY <1>1, <1>3, Successor DEF Continue
  <2>2. OneReply'
    <3>1. cuts' = 0 => replies' = <<>> /\ Len(<<>>) = 0
      BY <1>3, <2>1
    <3> QED  BY <2>1, <3>1 DEF OneReply
  <2>3. cuts' = 0 => refused \notin Steps \ {"body", "quit"}
    <3> SUFFICES ASSUME cuts' = 0, refused \in Steps \ {"body", "quit"}
                 PROVE  FALSE
      OBVIOUS
    <3>1. cuts = 0
      BY <1>3, <2>1
    <3>2. step = refused /\ replies = <<"5">>
      BY <1>1, <3>1, StepNames DEF RefusalPending
    <3>3. step # "greeting"
      BY <3>1, <3>2, StepNames DEF OneReply
    <3> QED  BY <1>3, <3>1, <3>2, <3>3
  <2> QED  BY <2>1, <2>2, <2>3 DEF RefusalPending
<1>4. ASSUME NEW n \in DOMAIN replies, NEW part \in BOOLEAN, step # "quit",
             step = "greeting" \/ Accepts(Head(replies)),
             Continue(Left(n, part), Cut(part))
      PROVE  OneReply' /\ RefusalPending'
  <2>1. replies \in Seq(Digits) /\ cuts \in Nat
    BY MailAssumption DEF MailInv, TypeOK, Digits
  <2>2. Cut(part) = 0 => cuts = 0 /\ part = FALSE
    BY <2>1 DEF Cut
  <2>3. ASSUME cuts = 0, part = FALSE
        PROVE  Left(n, part) = <<>>
    <3>1. Len(replies) <= 1 /\ n \in 1 .. Len(replies) /\ Len(replies) \in Nat
      BY <1>1, <1>4, <2>1, <2>3 DEF OneReply
    <3>2. Len(replies) = 1 /\ n = 1
      BY <3>1
    <3>3. SubSeq(replies, n + 1, Len(replies)) = <<>>
      BY <2>1, <3>2
    <3> QED  BY <2>3, <3>3 DEF Left
  <2>4. step = "greeting" \/ replies # <<"5">>
    <3>1. Head(<<"5">>) = "5"
      OBVIOUS
    <3> QED  BY <1>4, <3>1 DEF Accepts
  <2> QED  BY <1>3, <1>4, <2>2, <2>3, <2>4
<1>5. ASSUME replies = <<>>, step # "quit", Continue(<<>>, cuts)
      PROVE  OneReply' /\ RefusalPending'
  <2>1. replies # <<"5">>
    BY <1>5
  <2> QED  BY <1>3, <1>5, <2>1
<1>6. CASE step = "quit"
  <2>1. Finish(FALSE) \/ Finish(TRUE)
    BY <1>6 DEF ReadReply, Continue
  <2> QED  BY <1>2, <2>1
<1> QED  BY <1>2, <1>4, <1>5, <1>6 DEF ReadReply

LEMMA DialogueServer ==
  ASSUME MailInv, OneReply, RefusalPending, Greet \/ Grumble \/ Close
  PROVE  OneReply' /\ RefusalPending'
<1> SUFFICES ASSUME cuts' = 0 PROVE OneReply' /\ RefusalPending'
  BY DEF OneReply, RefusalPending
<1>4. cuts = 0
  BY DEF Greet, Grumble, Close
<1>1. CASE Greet
  <2>1. /\ step = "greeting" /\ refused = "none" /\ replies = <<>>
        /\ UNCHANGED <<step, said, refused>> /\ expects' = "helo" /\ Len(replies') = 1
    BY <1>1, <1>4 DEF Greet, Reply, OneReply
  <2>2. said' = said
    BY <1>1 DEF Greet
  <2> QED  BY <1>4, <2>1, <2>2, StepNames DEF OneReply, RefusalPending
<1>2. CASE Grumble
  <2>1. step = "quit" /\ UNCHANGED step /\ refused' = refused
    BY <1>2 DEF Grumble
  <2> QED  BY <1>4, <2>1, StepNames DEF OneReply, RefusalPending
<1>3. CASE Close
  <2>1. UNCHANGED <<step, said, replies, expects, refused>>
    BY <1>3 DEF Close
  <2> QED  BY <1>4, <2>1 DEF OneReply, RefusalPending
<1> QED  BY <1>1, <1>2, <1>3

\* The dialogue keeps its invariant under the steps of MailSession alone: neither the
\* other threads nor fairness matter.
DialogueInv == MailInv /\ OneReply /\ RefusalPending

LEMMA DialogueStarts == Init => DialogueInv
BY MailInit, DialogueInit DEF DialogueInv

LEMMA DialogueKept == DialogueInv /\ [Next]_vars => DialogueInv'
<1> SUFFICES ASSUME MailInv, OneReply, RefusalPending, [Next]_vars
             PROVE  MailInv' /\ OneReply' /\ RefusalPending'
  BY DEF DialogueInv
<1>1. CASE UNCHANGED vars
  BY <1>1 DEF vars, server, OneReply, RefusalPending, MailInv, TypeOK, Running, Unsent, InOrder,
              NotYet, FailedMeansUndelivered
<1>2. CASE Next
  <2>1. OneReply' /\ RefusalPending'
    BY <1>2, DialogueConnect, DialogueSend, DialogueRead, DialogueServer DEF Next, Client
  <2>2. MailInv'
    BY <1>2, MailConnect, MailSend, MailRead, MailAnswers DEF Next, Client
  <2> QED  BY <2>1, <2>2
<1> QED  BY <1>1, <1>2

\* A command that the server refuses for good is the last of its dialogue unless a
\* reply was cut in two, in whatever order replies, refusals and the end of the
\* connection come and however many replies a recv returns.
THEOREM RefusalStops == Spec => []RefusedMeansStopped
<1>1. DialogueInv => RefusedMeansStopped
  BY MailAssumption DEF DialogueInv, MailInv, TypeOK, RefusalPending, RefusedMeansStopped
<1> QED  BY <1>1, DialogueStarts, DialogueKept, PTL DEF Spec

-----------------------------------------------------------------------------
(* The mails inside the scan *)

\* A dialogue belongs to the notification it was started for.
WithinMail == step # "idle" => pc = "mail"

\* Every step of the composition is one of the mails, or none of theirs.
LEMMA NotifyStepMails == [NotifyNext]_notifyVars => [Next]_vars
BY DEF NotifyNext, notifyVars, InMail, CallMail, ScanStep, MailServer, Time, OtherThreads,
       Next, Client

LEMMA NotifyStepWithin ==
  DialogueInv /\ WithinMail /\ [NotifyNext]_notifyVars => WithinMail'
<1> SUFFICES ASSUME DialogueInv, WithinMail, [NotifyNext]_notifyVars, step' # "idle"
             PROVE  pc' = "mail"
  BY DEF WithinMail
<1>1. CASE InMail
  <2>1. pc' = pc
    BY <1>1 DEF InMail, alarmVars
  <2>2. CASE CallMail
    BY <2>1, <2>2 DEF CallMail
  <2>3. CASE Client
    <3>1. step # "idle"
      BY <2>3, StepNames DEF Client, SendStep, ReadReply, DialogueInv, MailInv, Running
    <3> QED  BY <2>1, <3>1 DEF WithinMail
  <2> QED  BY <1>1, <2>2, <2>3 DEF InMail
<1>2. CASE ScanStep
  BY <1>2 DEF ScanStep, vars, WithinMail
<1>3. CASE MailServer
  BY <1>3 DEF MailServer, alarmVars, WithinMail, Greet, Grumble, Close
<1>4. CASE Time
  BY <1>4 DEF Time, Alarm!Tick, Alarm!thread, vars, WithinMail
<1>5. CASE OtherThreads
  BY <1>5 DEF OtherThreads, Alarm!Others, Alarm!Register, Alarm!Arm, Alarm!Cross, Alarm!thread,
              vars, WithinMail
<1>6. CASE UNCHANGED notifyVars
  BY <1>6 DEF notifyVars, alarmVars, vars, WithinMail
<1> QED  BY <1>1, <1>2, <1>3, <1>4, <1>5, <1>6 DEF NotifyNext

\* Every step of the composition is one of the alarm thread and its surroundings, or
\* none of theirs: a command of the dialogue changes nothing of the scan before
\* send_mail returns.
LEMMA NotifyStepAlarm == [NotifyNext]_notifyVars => [Alarm!Next]_(Alarm!vars)
<1> SUFFICES ASSUME [NotifyNext]_notifyVars PROVE [Alarm!Next]_(Alarm!vars)
  OBVIOUS
<1>1. UNCHANGED alarmVars => UNCHANGED Alarm!vars
  BY DEF alarmVars, Alarm!vars, Alarm!thread, Alarm!devices
<1>2. CASE InMail
  BY <1>1, <1>2 DEF InMail, Alarm!Next, Alarm!AlarmThread
<1>3. CASE ScanStep \/ Time \/ OtherThreads
  BY <1>3 DEF ScanStep, Time, OtherThreads, Alarm!Next
<1>4. CASE MailServer
  BY <1>1, <1>4 DEF MailServer
<1>5. CASE UNCHANGED notifyVars
  BY <1>1, <1>5 DEF notifyVars
<1> QED  BY <1>2, <1>3, <1>4, <1>5 DEF NotifyNext

\* Inside the scan, while time passes and the other threads go on, the mails keep
\* what they promise: a failed mail is not delivered, a refused command is the last.
THEOREM MailsInScan ==
  NotifySpec => [](TypeOK /\ FailedMeansUndelivered /\ RefusedMeansStopped)
<1>1. DialogueInv => TypeOK /\ FailedMeansUndelivered /\ RefusedMeansStopped
  BY MailAssumption DEF DialogueInv, MailInv, TypeOK, RefusalPending, RefusedMeansStopped
<1> QED  BY <1>1, DialogueStarts, DialogueKept, NotifyStepMails, PTL DEF NotifySpec, NotifyInit

\* mail_alarm_up is over when the scan goes on: no command is sent and no reply read
\* while alram_timer_cb is anywhere else.
THEOREM DialogueWithinNotification == NotifySpec => []WithinMail
<1>1. NotifyInit => DialogueInv /\ WithinMail
  BY DialogueStarts DEF NotifyInit, Init, WithinMail
<1>2. DialogueInv /\ WithinMail /\ [NotifyNext]_notifyVars => (DialogueInv /\ WithinMail)'
  BY DialogueKept, NotifyStepMails, NotifyStepWithin
<1> QED  BY <1>1, <1>2, PTL DEF NotifySpec

\* With its mails the alarm thread takes the steps of GatewayAlarm and no others, so
\* that its safety properties (RateLimit, InRegistry) hold with a dialogue of a dozen
\* blocking steps in each notification.  AlarmAsSpecified has fairness besides.
THEOREM AlarmImplemented == NotifySpec => Alarm!Init /\ [][Alarm!Next]_(Alarm!vars)
BY NotifyStepAlarm, PTL DEF NotifySpec, NotifyInit
=============================================================================
