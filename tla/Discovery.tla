----------------------------- MODULE Discovery ------------------------------
(***************************************************************************)
(* Theme discovery: documents are grouped into topics, each topic's          *)
(* trajectory is read, the faint ones are dropped and the others are         *)
(* assessed. A document is a record [id, as_of, source, words]; words are    *)
(* integers in the order of their spelling. Fractions are in percent.        *)
(***************************************************************************)
EXTENDS Integers, Sequences, FiniteSets, SequencesExt

CONSTANTS
    Adoption, Profit, Fad, Lead,    \* the cue words of each judgment
    StopWords                       \* _STOPWORDS, the cues among them

ASSUME DiscoveryAssumption ==
    /\ Adoption \cup Profit \cup Fad \cup Lead \subseteq StopWords
    /\ StopWords \subseteq Int

NoiseMaxTotal == 2
StrongMinTotal == 5
BaseSaturation == 12
TopicMinDocs == 2

\* round(n / d, 2) in percent, a half going to the even neighbour.
Percent(n, d) ==
    LET q == (100 * n) \div d  r == (100 * n) % d
    IN  IF 2 * r > d \/ (2 * r = d /\ q % 2 = 1) THEN q + 1 ELSE q

\* classify_trajectory
Signal(total) ==
    IF total =< NoiseMaxTotal THEN "noise"
    ELSE IF total >= StrongMinTotal THEN "strong" ELSE "weak"

\* _trajectory: how recent, how loud, how broad and how crowded the topic's mentions are.
Trajectory(label, docs) ==
    LET total   == Cardinality(docs)
        dates   == SetToSortSeq({d.as_of : d \in docs}, <)
        recent  == {d \in docs : d.as_of >= dates[Len(dates) \div 2 + 1]}
        sources == Cardinality({d.source : d \in docs})
    IN  [label |-> label, docs |-> docs, signal |-> Signal(total),
         acceleration |-> IF Len(dates) < 2 THEN 50 ELSE Percent(Cardinality(recent), total),
         base_level |-> IF total >= BaseSaturation THEN 100
                        ELSE Percent(total, BaseSaturation),
         breadth |-> sources,
         crowding |-> Percent(total - sources, total),
         constituents |-> UNION {d.words : d \in docs} \ (StopWords \cup {label})]

Frequency(docs, w) == Cardinality({d \in docs : w \in d.words})

\* The recurring words; the most frequent is the first label, then the first in spelling.
Labels(docs) ==
    {w \in UNION {d.words : d \in docs} \ StopWords : Frequency(docs, w) >= TopicMinDocs}
Precedes(docs, v, w) ==
    \/ Frequency(docs, v) > Frequency(docs, w)
    \/ Frequency(docs, v) = Frequency(docs, w) /\ v < w

\* Each label claims the documents it occurs in that no label before it has claimed: those
\* in which none of them occurs.
Claimed(docs, w) ==
    {d \in docs : w \in d.words /\ \A v \in Labels(docs) \cap d.words : ~Precedes(docs, v, w)}

\* FakeTopicModel.discover
Topics(docs) ==
    {Trajectory(w, Claimed(docs, w)) : w \in {w \in Labels(docs) : Claimed(docs, w) # {}}}

\* _cite: some document of the topic carries a cue.
Cited(docs, cues) == \E d \in docs : d.words \cap cues # {}

\* FakeAssessor.assess: resilient to being a fad unless a hype marker is cited.
Assess(topic) ==
    [broad_adoption |-> Cited(topic.docs, Adoption),
     path_to_profit |-> Cited(topic.docs, Profit),
     fad_resistant  |-> ~Cited(topic.docs, Fad),
     lead_chain     |-> Cited(topic.docs, Lead)]

\* The payload of a themes row: the wrapper is taken to exist, the mapping will tell.
ThemePayload(topic, verdict) ==
    [acceleration |-> topic.acceleration, base_level |-> topic.base_level,
     breadth |-> topic.breadth, crowding |-> topic.crowding,
     constituents |-> topic.constituents, wrapper_exists |-> TRUE,
     broad_adoption |-> verdict.broad_adoption, path_to_profit |-> verdict.path_to_profit,
     fad_resistant |-> verdict.fad_resistant, lead_chain |-> verdict.lead_chain]

\* discover_themes: the topics louder than noise, in the order of their labels, up to where
\* the budget stopped them.
DiscoverThemes(docs, assessed, asOf, stamp) ==
    LET loud     == {t \in Topics(docs) : t.signal # "noise"}
        Ahead(t) == {o \in loud : Precedes(docs, o.label, t.label)}
    IN  {[key |-> t.label, as_of |-> asOf, fetched_at |-> stamp,
          payload |-> ThemePayload(t, Assess(t))] :
            t \in {t \in loud : Cardinality(Ahead(t)) < assessed}}
=============================================================================
