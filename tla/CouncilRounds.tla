--------------------------- MODULE CouncilRounds ---------------------------
(***************************************************************************)
(* What the rounds of the council make of the seats' answers.  A round     *)
(* takes whatever answers the collection brought (SeatCollection), in the  *)
(* order they arrived, reads what earlier rounds carried forward, and      *)
(* returns events with their idempotency keys, unfilled slots and new      *)
(* values to carry.                                                        *)
(*                                                                         *)
(* A round that raises while it makes them has failed: it leaves a slot,   *)
(* nothing of it is written or carried, and the council goes on.  Outside  *)
(* that protection the orchestrator appends the events in one go: two of   *)
(* them under one key with different payloads are an EventConflict, which  *)
(* ends the pass, rolls the round back and leaves the task FAILED.  A pass *)
(* that ends for a reason outside the round's answers (a lost session, a   *)
(* row the database refuses) leaves the round unheld, which changes        *)
(* nothing here.                                                           *)
(*                                                                         *)
(* Texts are reduced to what the rounds distinguish: a judgment agrees or  *)
(* dissents, a challenge is fatal or not, a request to revive a node has   *)
(* evidence, has none or names a malformed id.                             *)
(***************************************************************************)
EXTENDS Naturals, Sequences, FiniteSets, SequencesExt

CONSTANTS
    Bench,      \* the seats in the order of their names
    Claims,     \* claims the researcher may have confirmed
    Sources,    \* sources the acquisition may bring
    Stranger,   \* an id no source has
    Quarantine, \* quarantined nodes of the task
    Malformed   \* a string that is no UUID

ASSUME RoundsAssumption ==
    /\ Bench \in Seq({Bench[i] : i \in DOMAIN Bench})
    /\ IsFiniteSet(Claims) /\ IsFiniteSet(Quarantine)

VARIABLES
    confirmed, \* the confirmed claims of the task
    round,     \* number of the next round
    carried,   \* what was handed on and a later round reads: the sealed
               \* judgments and the acquired sources with their levels
    minutes    \* the last round: the answers, how it ended (kept, failed or in
               \* a conflict), its events, slots and hand-over
roundVars == <<confirmed, round, carried, minutes>>

Seats == {Bench[i] : i \in DOMAIN Bench}

RoundNames == <<"precommitment", "acquisition", "exchange", "cross",
                "bounty", "joint", "final">>

Event(key, payload) == [key |-> key, payload |-> payload]

Outcome(events, slots, carry) == [events |-> events, slots |-> slots, carry |-> carry]

Occurs(events, e) == \E i \in DOMAIN events : events[i] = e

HasKey(events, key) == \E i \in DOMAIN events : events[i].key = key

\* Seats in the order of their names, and what each of those that answered contributes.
InOrder(answers, Contribution(_)) ==
    FlattenSeq([i \in DOMAIN Bench |->
        IF Bench[i] \in DOMAIN answers THEN Contribution(Bench[i]) ELSE <<>>])

\* One event per absent seat, with the reason its collection recorded.
UnavailableEvents(answers) ==
    FlattenSeq([i \in DOMAIN Bench |->
        IF Bench[i] \in DOMAIN answers THEN <<>>
        ELSE <<Event(<<"unavailable", Bench[i]>>, <<>>)>>])

UnavailableSlots(answers) ==
    {<<"unavailable", s>> : s \in Seats \ DOMAIN answers}

ConfidenceMarkers(claims, note) ==
    LET listed == SetToSeq(claims)
    IN  [i \in DOMAIN listed |-> Event(<<"confidence", listed[i]>>, note)]

-----------------------------------------------------------------------------
(* PRECOMMITMENT: every answer is sealed before any of them is read.        *)
Judgment == {"agree", "dissent"}

Precommitment(answers) ==
    Outcome(<<Event(<<"question">>, <<>>)>>
              \o InOrder(answers, LAMBDA s : <<Event(<<"sealed", s>>, <<answers[s]>>)>>)
              \o UnavailableEvents(answers),
            UnavailableSlots(answers),
            [initial |-> answers])

(* ACQUISITION, as far as the later rounds see it (module Acquisition).     *)
(* Retrieved metadata is Level B; MetadataAsFullText promotes it.           *)
MetadataAsFullText == "A"

MetadataLevel == "B"

AcquisitionRound(answers, got) ==
    Outcome(InOrder(answers, LAMBDA s : <<Event(<<"request", s>>, <<>>)>>)
              \o UnavailableEvents(answers),
            UnavailableSlots(answers),
            [available |-> [x \in got |-> MetadataLevel]])

(* EVIDENCE_EXCHANGE: a seat publishes sources it cites, at the level the   *)
(* acquisition gave them; whatever level the seat claims is ignored.        *)
PublishedLevel(x, available) == available[x]

\* The evidence a request names: some of it, some other, or none.
Evidence == {"this", "that"}

\* CitesFreely is a check that lets ids of unknown sources pass.
CitesFreely(answers, available, s) == answers[s].items

Cited(answers, available, s) == answers[s].items \cap DOMAIN available

Published(answers, available, s) ==
    {<<x, IF x \in DOMAIN available THEN PublishedLevel(x, available) ELSE "D">> :
        x \in Cited(answers, available, s)}

\* check_resurrection_conditions: still quarantined, and some new evidence.
Granted(answers, s) ==
    {q \in answers[s].revive : q[1] \in Quarantine /\ q[2] \in Evidence}

ReviveSlots(answers, s) ==
    {<<"revive", q[1], IF q[1] \in Quarantine THEN "condition" ELSE "unknown">> :
        q \in {q \in answers[s].revive : q[1] \notin Quarantine \/ q[2] = "none"}}

\* A malformed reference raises while the round is built.
Unparsable(answers) ==
    \E s \in DOMAIN answers : \E r \in answers[s].revive :
        r[1] \in Quarantine /\ r[2] = Malformed

Exchange(answers, available, claims) ==
    LET Contribution(s) ==
          LET items == Published(answers, available, s)
              nodes == SetToSeq(Granted(answers, s))
          IN  (IF items = {} THEN <<>> ELSE <<Event(<<"published", s>>, <<items>>)>>)
              \o [i \in DOMAIN nodes |->
                     Event(<<"resurrection", nodes[i][1]>>, <<s, nodes[i][2]>>)]
        published == UNION {{<<s, x[1], x[2]>> : x \in Published(answers, available, s)} :
                              s \in DOMAIN answers}
    IN  Outcome(InOrder(answers, Contribution)
                  \o UnavailableEvents(answers)
                  \o (IF published = {} THEN <<>>
                      ELSE ConfidenceMarkers(claims, <<Cardinality(published)>>)),
                UnavailableSlots(answers)
                  \cup (UNION {{<<"unknown_source", s, x>> :
                                  x \in answers[s].items \ Cited(answers, available, s)} :
                                s \in DOMAIN answers})
                  \cup (UNION {ReviveSlots(answers, s) : s \in DOMAIN answers}),
                [published |-> published])

-----------------------------------------------------------------------------
(* CROSS_EXAMINATION: a challenge names a claim; a fatal one blocks it and  *)
(* may fork it.  The fork's claim contradicts the challenged one, which is  *)
(* anchored first so that the edge has a node to point at.                  *)
Challenge == [claim : Claims, strength : {"fatal", "fork", "mild"}]

\* ForkFirst draws the edge before its target.
ForkFirst(s, i, c) ==
    IF c.strength # "fork" THEN <<>>
    ELSE << Event(<<"fork", s, i>>, <<c.claim>>),
            Event(<<"claim_anchor", c.claim>>, <<>>),
            Event(<<"confidence_fork", s, i>>, <<>>) >>

ForkEvents(s, i, c) ==
    IF c.strength # "fork" THEN <<>>
    ELSE << Event(<<"claim_anchor", c.claim>>, <<>>),
            Event(<<"fork", s, i>>, <<c.claim>>),
            Event(<<"confidence_fork", s, i>>, <<>>) >>

\* SeatKey would give all the challenges of a seat one key.
SeatKey(s, i) == <<"challenge", s, 1>>

ChallengeKey(s, i) == <<"challenge", s, i>>

CrossExamination(answers) ==
    LET OfSeat(s) ==
          FlattenSeq([i \in DOMAIN answers[s] |->
              << Event(ChallengeKey(s, i), <<answers[s][i].claim, answers[s][i].strength>>),
                 Event(<<"confidence_challenge", s, i>>, <<answers[s][i].claim>>) >>
              \o ForkEvents(s, i, answers[s][i])])
    IN  Outcome(InOrder(answers, OfSeat) \o UnavailableEvents(answers),
                UnavailableSlots(answers),
                [blocked |-> {c \in Claims :
                    \E s \in DOMAIN answers : \E i \in DOMAIN answers[s] :
                        answers[s][i].claim = c /\ answers[s][i].strength # "mild"}])

-----------------------------------------------------------------------------
(* BLINDSPOT_BOUNTY: models reuse ids, so an id seen before is replaced by  *)
(* one made from the statement.  The replacement is not looked up again.    *)
Blindspot ==
    [id : {"i"}, text : {"x", "y"}, score : {"high", "low"}]
        \cup [id : {"i"}, text : {"x"}, score : {"huge", "nan"}]

\* KeepsItsId repeats an id that has been seen.
KeepsItsId(item) == [item EXCEPT !.id = <<"given", item.id>>]

Rekeyed(item) == [item EXCEPT !.id = <<"made_from", item.text>>]

\* Left to right over the items in the order the answers arrived; every order
\* of arrival is an assignment of the answers to the seats of Bench.
Rekey(items) ==
    [i \in DOMAIN items |->
        IF \E k \in 1 .. i - 1 : items[k].id = items[i].id
        THEN Rekeyed(items[i])
        ELSE [items[i] EXCEPT !.id = <<"given", items[i].id>>]]

\* Stable sort, highest score first.
Scored(items, n) ==
    FlattenSeq([i \in DOMAIN items |-> IF items[i].score = n THEN <<items[i]>> ELSE <<>>])

\* Only a list of one can rank a NaN: it is never compared.
Ranked(items) == Scored(items, "high") \o Scored(items, "low") \o Scored(items, "nan")

\* Whatever the seats nominate, in the order of the bench.
Nominated(answers) == InOrder(answers, LAMBDA s : answers[s])

\* A score of infinity or of too many digits cannot be quantised, and a NaN cannot be
\* ordered: InvalidOperation, while the round is made.
Unrankable(answers) ==
    LET items == Nominated(answers)
    IN  \E i \in DOMAIN items :
            items[i].score = "huge" \/ (items[i].score = "nan" /\ Len(items) > 1)

Bounty(answers) ==
    LET ranked == Ranked(Rekey(Nominated(answers)))
    IN  Outcome([i \in DOMAIN ranked |->
                    Event(<<"blindspot", ranked[i].id>>, <<ranked[i].text, ranked[i].score>>)]
                  \o (IF ranked = <<>> THEN <<>> ELSE <<Event(<<"assignments">>, <<>>)>>)
                  \o UnavailableEvents(answers),
                UnavailableSlots(answers),
                [ranked |-> Len(ranked)])

-----------------------------------------------------------------------------
(* JOINT_MODELING: the answers are merged field by field; a consensus needs *)
(* the strongest opposition and a falsification condition, a debate capsule *)
(* every dialectical field.                                                 *)
Field == {"opposition", "falsification", "boundary", "conflict"}

Required == {"opposition", "falsification"}

Capsule(merged, claims) ==
    {"boundary", "conflict"} \subseteq merged /\ claims # {}

JointModeling(answers, claims) ==
    LET merged == UNION {answers[s] : s \in DOMAIN answers}
        ready  == Required \subseteq merged
    IN  Outcome((IF ~ready THEN <<>>
                 ELSE ConfidenceMarkers(claims, <<"consensus">>)
                      \o <<Event(<<"consensus">>, <<merged>>)>>
                      \o (IF Capsule(merged, claims)
                          THEN <<Event(<<"debate_capsule">>, <<merged>>)>> ELSE <<>>))
                  \o UnavailableEvents(answers),
                UnavailableSlots(answers)
                  \cup (IF ready
                        THEN IF Capsule(merged, claims) THEN {} ELSE {<<"no_capsule_fold">>}
                        ELSE {<<"missing", f>> : f \in Required \ merged}),
                [consensus |-> ready])

-----------------------------------------------------------------------------
(* FINAL_REJUDGMENT: this round's judgments; only when nobody answered, the *)
(* sealed precommitments stand in.                                          *)
Judgments(answers, initial) == IF DOMAIN answers # {} THEN answers ELSE initial

\* Certificates go to the first confirmed claim.
DissentTarget(claims) == CHOOSE c \in claims : TRUE

Dissenters(judged) == {s \in DOMAIN judged : judged[s] = "dissent"}

\* CertifyAnswersOnly loses the dissent of a sealed precommitment.
CertifyAnswersOnly(answers, judged) == Dissenters(answers)

Certified(answers, judged) == Dissenters(judged)

FinalRejudgment(answers, initial, claims) ==
    LET judged == Judgments(answers, initial)
        certified == Certified(answers, judged)
    IN  Outcome(InOrder(judged, LAMBDA s : <<Event(<<"judgment", s>>, <<judged[s]>>)>>)
                  \o (IF DOMAIN judged = {} THEN <<>>
                      ELSE ConfidenceMarkers(claims, <<Cardinality(certified)>>))
                  \o (IF claims = {} THEN <<>>
                      ELSE InOrder([s \in certified |-> judged[s]],
                             LAMBDA s : <<Event(<<"dissent", s>>, <<DissentTarget(claims)>>)>>))
                  \o UnavailableEvents(answers),
                UnavailableSlots(answers)
                  \cup (IF Dissenters(judged) # {} /\ claims = {}
                        THEN {<<"no_dissent_target">>} ELSE {}),
                [final |-> DOMAIN judged])

-----------------------------------------------------------------------------
NoCarry == [initial |-> <<>>, available |-> <<>>]

Blank == [name |-> "none", answers |-> <<>>, end |-> "none",
          events |-> <<>>, slots |-> {}, hands |-> <<>>]

Conflict(events) ==
    \E i, j \in DOMAIN events :
        events[i].key = events[j].key /\ events[i].payload # events[j].payload

At(name) ==
    /\ minutes = Blank
    /\ round \in DOMAIN RoundNames /\ RoundNames[round] = name

\* The runner raises: PHASE_FAILED and a slot, nothing to carry.
Fails(name, answers) ==
    /\ minutes' = [Blank EXCEPT !.name = name, !.answers = answers, !.end = "failed",
                                !.slots = {<<"round_failed">>}]
    /\ UNCHANGED carried

\* The ledger refuses one of the events: the pass is rolled back to the checkpoint of
\* the round before, the task is FAILED, and no other round is held.
Conflicts(name, answers) ==
    /\ minutes' = [Blank EXCEPT !.name = name, !.answers = answers, !.end = "conflict"]
    /\ UNCHANGED carried

Keeps(name, answers, out) ==
    /\ minutes' = [name |-> name, answers |-> answers, end |-> "kept",
                   events |-> out.events, slots |-> out.slots, hands |-> out.carry]
    /\ carried' = [f \in DOMAIN carried |->
                     IF f \in DOMAIN out.carry THEN out.carry[f] ELSE carried[f]]

\* The orchestrator runs a round: what it makes is appended unless it raises.
Close(name, answers, out, raises) ==
    /\ \/ raises /\ Fails(name, answers)
       \/ ~ raises /\ Conflict(out.events) /\ Conflicts(name, answers)
       \/ ~ raises /\ ~ Conflict(out.events) /\ Keeps(name, answers, out)
    /\ UNCHANGED <<confirmed, round>>

\* Any part of the council may answer.
Answers(S) == UNION {[present -> S] : present \in SUBSET Seats}

ExchangeAnswer ==
    [items  : SUBSET (Sources \cup {Stranger}),
     revive : {{}} \cup {{<<n, e>>} : n \in Quarantine \cup {Stranger},
                                        e \in {"this", "none", Malformed}}
                    \cup {{n} \X Evidence : n \in Quarantine}]

HoldPrecommitment ==
    /\ At("precommitment")
    /\ \E a \in Answers(Judgment) : Close("precommitment", a, Precommitment(a), FALSE)

HoldAcquisition ==
    /\ At("acquisition")
    /\ \E a \in Answers({"asks"}), got \in SUBSET Sources :
           Close("acquisition", a, AcquisitionRound(a, got), FALSE)

HoldExchange ==
    /\ At("exchange")
    /\ \E a \in Answers(ExchangeAnswer) :
           Close("exchange", a, Exchange(a, carried.available, confirmed), Unparsable(a))

HoldCrossExamination ==
    /\ At("cross")
    /\ \E a \in Answers(SeqOf(Challenge, 2)) :
           Close("cross", a, CrossExamination(a), FALSE)

HoldBounty ==
    /\ At("bounty")
    /\ \E a \in Answers(SeqOf(Blindspot, 2)) :
           Close("bounty", a, Bounty(a), Unrankable(a))

HoldJointModeling ==
    /\ At("joint")
    /\ \E a \in Answers(SUBSET Field) :
           Close("joint", a, JointModeling(a, confirmed), FALSE)

HoldFinalRejudgment ==
    /\ At("final")
    /\ \E a \in Answers(Judgment) :
           Close("final", a, FinalRejudgment(a, carried.initial, confirmed), FALSE)

\* A round that raises on anything else (a confidence beyond the largest float, say), or
\* that the researcher skips, hands nothing on.
LoseRound ==
    /\ minutes = Blank
    /\ round \in DOMAIN RoundNames
    /\ Fails(RoundNames[round], <<>>)
    /\ UNCHANGED <<confirmed, round>>

\* The checkpoint closes the round's minutes; there is none after a conflict.
NextRound ==
    /\ minutes.end \in {"kept", "failed"}
    /\ minutes' = Blank
    /\ round' = round + 1
    /\ UNCHANGED <<confirmed, carried>>

RoundInit ==
    /\ confirmed \in SUBSET Claims
    /\ round = 1
    /\ carried = NoCarry
    /\ minutes = Blank

RoundNext ==
    \/ HoldPrecommitment
    \/ HoldAcquisition
    \/ HoldExchange
    \/ HoldCrossExamination
    \/ HoldBounty
    \/ HoldJointModeling
    \/ HoldFinalRejudgment
    \/ LoseRound
    \/ NextRound

RoundSpec == RoundInit /\ [][RoundNext]_roundVars

-----------------------------------------------------------------------------
\* The carried values keep their shape; an acquired source carries Level B,
\* the level of metadata, whatever happens before it is published.
RoundTypeOK ==
    /\ confirmed \subseteq Claims
    /\ round \in 1 .. Len(RoundNames) + 1
    /\ carried.initial \in Answers(Judgment)
    /\ DOMAIN carried.available \subseteq Sources
    /\ \A x \in DOMAIN carried.available : carried.available[x] = "B"
    /\ minutes.end \in {"none", "kept", "failed", "conflict"}

Held(name) == minutes.name = name /\ minutes.end = "kept"

\* The books of an exchange: a seat publishes exactly the acquired sources it cites,
\* each at the level its retrieval supports, and a citation of anything else is a slot
\* of the run; nothing passes silently and nothing acquired is lost.
CitationsAreAccountedFor ==
    Held("exchange") =>
        /\ \A s \in DOMAIN minutes.answers : \A x \in minutes.answers[s].items :
              IF x \in DOMAIN carried.available
              THEN <<s, x, carried.available[x]>> \in minutes.hands.published
              ELSE <<"unknown_source", s, x>> \in minutes.slots
        /\ \A p \in minutes.hands.published :
              /\ p[2] \in minutes.answers[p[1]].items \cap DOMAIN carried.available
              /\ p[3] = carried.available[p[2]]

\* The event of a forked claim follows the anchor of the claim it contradicts,
\* so the projector never draws the edge to a node that does not exist.
ForkFollowsItsAnchor ==
    \A i \in DOMAIN minutes.events :
        minutes.events[i].key[1] = "fork" =>
            \E j \in 1 .. i - 1 :
                minutes.events[j].key = <<"claim_anchor", minutes.events[i].payload[1]>>

\* Two requests to revive one node are granted, by different seats or on different
\* evidence.
RevivedTwice(answers) ==
    \E s, t \in DOMAIN answers :
        \E p \in Granted(answers, s), q \in Granted(answers, t) :
            p[1] = q[1] /\ <<s, p[2]>> # <<t, q[2]>>

\* After the first use of an id, two nominations repeat ids seen before, in the same
\* words but with different scores: both get the id made from their words.
RepeatedAlike(answers) ==
    LET all == Nominated(answers)
    IN  \E i, j \in DOMAIN all :
            /\ i < j /\ all[i].text = all[j].text /\ all[i].score # all[j].score
            /\ \E k \in 1 .. i - 1 : all[k].id = all[i].id
            /\ \E k \in 1 .. j - 1 : all[k].id = all[j].id

\* Whatever the seats answer, their own round ends the pass, and with it the task, in two
\* ways only: a node is revived twice over in one exchange, or a bounty repeats ids for
\* one blindspot scored differently.  No other round, challenge, judgment or citation
\* can give two events one key.
OnlyReusedIdsEndThePass ==
    minutes.end = "conflict" =>
        \/ minutes.name = "exchange" /\ RevivedTwice(minutes.answers)
        \/ minutes.name = "bounty" /\ RepeatedAlike(minutes.answers)

\* A dissenting final judgment leaves a certificate, or the run a slot that
\* says there was no claim to dissent from.
DissentIsKept ==
    Held("final") =>
        \A s \in Seats :
            Occurs(minutes.events, Event(<<"judgment", s>>, <<"dissent">>)) =>
                \/ HasKey(minutes.events, <<"dissent", s>>)
                \/ <<"no_dissent_target">> \in minutes.slots

\* However the seats' answers fall out, no phase loses what it was told: a citation, a
\* forked claim's anchor or a dissent.
RoundsKeepWhatIsSaid ==
    CitationsAreAccountedFor /\ ForkFollowsItsAnchor /\ DissentIsKept
=============================================================================
