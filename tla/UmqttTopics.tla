----------------------------- MODULE UmqttTopics -----------------------------
(***************************************************************************)
(* Topic names and topic filters of the MQTT client, as the sequences of     *)
(* characters that umqtt.c compares: topicname_is_matched for delivery, a    *)
(* comparison of prefixes for the list of subscriptions; and the rules of    *)
(* MQTT that the broker goes by.                                             *)
(***************************************************************************)
EXTENDS Naturals, Sequences, FiniteSets, FiniteSetsExt, SequencesExt

\* The end of the level that t[j] is in: the position after its last character.
LevelEnd(t, j) == Min({k \in j + 1 .. Len(t) : t[k] = "/"} \cup {Len(t) + 1})

\* A variant of Matched: "+" stands for one character and not for a level.
MatchedByCharacter(f, t) ==
  Len(f) = Len(t) /\ \A k \in DOMAIN f : f[k] \in {"+", t[k]}

\* topicname_is_matched: the places of the name from which its rest matches the rest
\* of the filter from i on.
Matched(f, t) ==
  LET from[i \in 1 .. Len(f) + 1] ==
        IF i > Len(f) THEN {Len(t) + 1}
        ELSE {j \in 1 .. Len(t) :
                /\ t[j] = "/" => f[i] = "/"
                /\ \/ f[i] = "+" /\ LevelEnd(t, j) \in from[i + 1]
                   \/ f[i] = "#" /\ Len(t) + 1 \in from[i + 1]
                   \/ f[i] \notin {"+", "#"} /\ f[i] = t[j] /\ j + 1 \in from[i + 1]}
  IN  1 \in from[1]

\* strncmp(filter, topic, strlen(topic)) == 0, by which subscribe and unsubscribe
\* look for an entry.
Begins(filter, topic) == IsPrefix(topic, filter)

-----------------------------------------------------------------------------
(* The rules of MQTT *)

\* A filter that MQTT knows: a wildcard is a level of its own, and "#" the last one.
WellFormed(f) ==
  \A i \in DOMAIN f : f[i] \in {"+", "#"} =>
    /\ i = 1 \/ f[i - 1] = "/"
    /\ i = Len(f) \/ (f[i] = "+" /\ f[i + 1] = "/")

\* The levels between the slashes; a level may be empty.
Levels(s) ==
  LET from[i \in 1 .. Len(s) + 1] ==
        LET end == LevelEnd(s, i - 1)
        IN  <<SubSeq(s, i, end - 1)>> \o (IF end > Len(s) THEN <<>> ELSE from[end + 1])
  IN  from[1]

\* "#" stands for any number of levels, also none; "+" for one.
ByTheRules(f, t) ==
  LET F == Levels(f)
      T == Levels(t)
      open == Last(F) = <<"#">>
      n == IF open THEN Len(F) - 1 ELSE Len(F)
  IN  /\ IF open THEN Len(T) >= n ELSE Len(T) = n
      /\ \A k \in 1 .. n : F[k] \in {<<"+">>, T[k]}

\* The cases in which the client gives up too early: a wildcard that would have to
\* stand for an empty level, or "#" for no level.
Missed(f, t) ==
  LET F == Levels(f)
      T == Levels(t)
  IN  \E k \in DOMAIN F : /\ F[k] \in {<<"+">>, <<"#">>}
                          /\ k > Len(T) \/ T[k] = <<>>
=============================================================================
