---------------------------- MODULE TopicFilters ----------------------------
(***************************************************************************)
(* Which handlers a message is for.  The client walks filter and topic     *)
(* character by character; MQTT compares them level by level.  A string is *)
(* a sequence of characters.                                               *)
(***************************************************************************)
EXTENDS Integers, Sequences, FiniteSetsExt

\* The last character of the level that topic[n] is in, or n.
LevelEnd(topic, n) == Min({m \in n..Len(topic) : m = Len(topic) \/ topic[m + 1] = "/"})

\* A mutant of IsTopicMatched: a plus goes on to the end of the topic.
IsTopicMatchedGreedy(filter, topic) ==
    LET walk[f, n \in Nat] ==
          IF f > Len(filter) \/ n > Len(topic) THEN f > Len(filter) /\ n > Len(topic)
          ELSE CASE filter[f] \in {"+", "#"} -> walk[f + 1, Len(topic) + 1]
                 [] OTHER -> filter[f] = topic[n] /\ walk[f + 1, n + 1]
    IN walk[1, 1]

\* _aws_iot_mqtt_internal_is_topic_matched: both strings have to be used up.
IsTopicMatched(filter, topic) ==
    LET walk[f, n \in Nat] ==
          IF f > Len(filter) \/ n > Len(topic) THEN f > Len(filter) /\ n > Len(topic)
          ELSE /\ topic[n] = "/" => filter[f] = "/"
               /\ CASE filter[f] = "+" -> walk[f + 1, LevelEnd(topic, n) + 1]
                    [] filter[f] = "#" -> walk[f + 1, Len(topic) + 1]
                    [] OTHER -> filter[f] = topic[n] /\ walk[f + 1, n + 1]
    IN walk[1, 1]

----------------------------------------------------------------------------
\* The levels of a string, by its separators.
Levels(s) ==
    LET cuts == {0, Len(s) + 1} \cup {i \in 1..Len(s) : s[i] = "/"}
        level(c) == SubSeq(s, c + 1, Min({d \in cuts : d > c}) - 1)
        kth(k) == CHOOSE c \in cuts : Quantify(cuts, LAMBDA d : d < c) = k - 1
    IN [k \in 1..Quantify(cuts, LAMBDA d : d <= Len(s)) |-> level(kth(k))]

\* A filter that MQTT allows: a wildcard is a level of its own, # the last one.
WellFormed(filter) ==
    LET levels == Levels(filter)
    IN /\ filter # <<>>
       /\ \A k \in DOMAIN levels, c \in {"+", "#"} :
             (\E i \in DOMAIN levels[k] : levels[k][i] = c) => levels[k] = <<c>> /\ (c = "#" => k = Len(levels))

IsWildcard(level) == level \in {<<"+">>, <<"#">>}

\* Topics that begin with a dollar sign, such as those of the shadow.
IsReserved(topic) == topic[1] = "$"

\* MQTT 3.1.1, 4.7: # stands for any number of levels, none included, and no
\* wildcard stands for the first level of a reserved topic.
Matches(filter, topic) ==
    LET f == Levels(filter)
        t == Levels(topic)
        open == f[Len(f)] = <<"#">>
        fixed == IF open THEN Len(f) - 1 ELSE Len(f)
    IN /\ IF open THEN Len(t) >= fixed ELSE Len(t) = fixed
       /\ \A k \in 1..fixed : f[k] \in {<<"+">>, t[k]}
       /\ IsReserved(topic) => ~IsWildcard(f[1])

\* The client hands a message to no handler whose filter does not match it, but
\* for one whose filter begins with a wildcard when the topic is reserved, and to
\* every one whose filter does match, but for two cases that the walk misses: a
\* level that is empty where the filter has a wildcard, and the level above a #.
MatchesAsMqtt(filter, topic) ==
    LET f == Levels(filter)
        t == Levels(topic)
        emptyAtWildcard == \E k \in DOMAIN f \cap DOMAIN t : IsWildcard(f[k]) /\ t[k] = <<>>
    IN /\ IsTopicMatched(filter, topic) =>
             Matches(filter, topic) \/ (IsReserved(topic) /\ IsWildcard(f[1]))
       /\ Matches(filter, topic) /\ ~emptyAtWildcard /\ Len(t) >= Len(f) =>
             IsTopicMatched(filter, topic)
=============================================================================
