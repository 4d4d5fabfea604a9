---------------------------- MODULE Acquisition ----------------------------
(***************************************************************************)
(* The ACQUISITION phase: requests of the seats, the adversarial searches  *)
(* and the researcher's own DOIs and documents become rows of `sources`,   *)
(* each fresh row is read for a finding, and what could not be had is      *)
(* reported.  One run of the phase is a pass.                              *)
(*                                                                         *)
(* A pass works in one database session.  Every answered provider or model *)
(* call writes an audit row and COMMITS, together with every row flushed   *)
(* before it; the events of the pass reach the ledger only when the whole  *)
(* pass returns (Record).  A worker that dies or loses its session in      *)
(* between (Crash) keeps the first and loses the second, and the phase is  *)
(* run again with new seat outputs and a new budget.                       *)
(*                                                                         *)
(* A DOI is a Paper, a free-text query a Text, an uploaded or linked file  *)
(* a File.  Titles, authors and years are reduced to the sets Retracted,   *)
(* AfterCutoff and OffTopic of the papers the screens refuse.              *)
(***************************************************************************)
EXTENDS Naturals, FiniteSets

CONSTANTS
    Paper,        \* normalised DOIs
    Text,         \* free-text queries
    Adversarial,  \* the texts the round adds itself
    UserDois,     \* the papers the researcher listed
    Upload, KbDoc,\* the files the researcher stored or linked
    Retracted, AfterCutoff, OffTopic,
    SourceLimit, ToolLimit,
    MaxCrashes    \* bound of the model

Item == Paper \cup Text \cup Upload \cup KbDoc

ASSUME AcquisitionAssumption ==
    /\ Adversarial \subseteq Text
    /\ UserDois \subseteq Paper
    /\ SourceLimit \in Nat /\ ToolLimit \in Nat /\ MaxCrashes \in Nat
    /\ Text \cap (Paper \cup Upload \cup KbDoc) = {}
    /\ Paper \cap {"none", "sent", "miss", "timeout"} = {}  \* no DOI is the name of an answer

VARIABLES
    stage,     \* where the pass is
    asked,     \* what this pass was asked for: papers and texts
    todo,      \* items of the stage not handled yet
    answers,   \* text -> what the providers said
    late,      \* the 600-second ceiling of the pass is behind us
    outcome,   \* item -> the set of things this pass reported of it
    unread,    \* fresh sources whose text was not tried yet
    gaps,      \* sources reported as having yielded no finding
    found,     \* sources whose finding event the pass will emit
    spent,     \* the tracker's two counters
    bought,    \* calls a successful _spend paid for, and tool calls to read
    db,        \* rows and findings the session sees
    durable,   \* those that are committed
    appended,  \* what the last Record appended
    crashes

acqVars == <<stage, asked, todo, answers, late, outcome, unread, gaps, found,
             spent, bought, db, durable, appended, crashes>>

NoSpend == [source |-> 0, tool |-> 0]
NothingAppended == [found |-> {}, gaps |-> {}, outcome |-> {}]

Row == [item : Item, how : {"doi", "text", "user", "file"}]

HasRow(item) == \E r \in db.rows : r.item = item

\* A DOI that two passes or two seats ask for is one row.
Known(item) == HasRow(item)

-----------------------------------------------------------------------------
(* What a pass is asked: the seats' requests are a fresh model answer each  *)
(* time; the adversarial texts always come along.                           *)
BeginAcquisition ==
    /\ stage = "begin"
    /\ \E requests \in SUBSET (Paper \cup (Text \ Adversarial)) :
        /\ asked' = requests \cup Adversarial
        /\ todo' = requests \cap Paper
    /\ stage' = "lookup"
    /\ UNCHANGED <<answers, late, outcome, unread, gaps, found, spent, bought,
                   db, durable, appended, crashes>>

(* BudgetTracker: each consumer checks before it spends; _spend charges the *)
(* source first, and keeps that charge when the tool budget is the empty    *)
(* one.                                                                     *)
\*
\* CanBuyOneLess is the accounting the tracker's comment tells of, in which the
\* charge that empties the budget is refused.
CanBuyOneLess(s) == s.source + 1 < SourceLimit /\ s.tool + 1 < ToolLimit

CanBuy(s) == s.source < SourceLimit /\ s.tool < ToolLimit

Charge(s) ==
    IF s.source >= SourceLimit THEN s
    ELSE [source |-> s.source + 1,
          tool   |-> IF s.tool < ToolLimit THEN s.tool + 1 ELSE s.tool]

Spend ==
    /\ spent' = Charge(spent)
    /\ bought' = IF CanBuy(spent) THEN [bought EXCEPT !.source = @ + 1, !.tool = @ + 1]
                                  ELSE bought

Report(item, what) == outcome' = [outcome EXCEPT ![item] = @ \cup {what}]

Flush(row) == db' = [db EXCEPT !.rows = @ \cup {row}]

AddFresh(item, how) ==
    /\ Flush([item |-> item, how |-> how])
    /\ Report(item, "fresh")
    /\ unread' = unread \cup {item}

\* The audit row of an answered call commits what was flushed before it.
Commit == durable' = db

-----------------------------------------------------------------------------
(* acquire(): the DOIs first, one after the other.                          *)
LookupKnown(p) ==
    /\ Known(p)
    /\ Report(p, "known")
    /\ UNCHANGED <<spent, bought, db, durable, unread>>

LookupRefused(p) ==
    /\ ~Known(p)
    /\ Spend
    /\ \/ /\ ~CanBuy(spent)
          /\ Report(p, "budget")
       \/ /\ CanBuy(spent) /\ late
          /\ Report(p, "timeout")
    /\ UNCHANGED <<db, durable, unread>>

\* A failed call raises before its audit row is written.
LookupFails(p) ==
    /\ ~Known(p) /\ CanBuy(spent) /\ ~late
    /\ Spend
    /\ Report(p, "failed")
    /\ UNCHANGED <<db, durable, unread>>

\* A directed lookup is screened for retraction and the cutoff, not for topic.
LookupAnswered(p) ==
    /\ ~Known(p) /\ CanBuy(spent) /\ ~late
    /\ Spend
    /\ Commit
    /\ IF p \in Retracted \cup AfterCutoff
       THEN Report(p, "screened") /\ UNCHANGED <<db, unread>>
       ELSE AddFresh(p, "doi")

Lookup ==
    /\ stage = "lookup"
    /\ \E p \in todo :
        /\ todo' = todo \ {p}
        /\ \/ LookupKnown(p)
           \/ LookupRefused(p)
           \/ LookupFails(p)
           \/ LookupAnswered(p)
    /\ UNCHANGED <<stage, asked, answers, late, gaps, found, appended, crashes>>

LookupsDone ==
    /\ stage = "lookup" /\ todo = {}
    /\ stage' = "plan"
    /\ todo' = asked \cap Text
    /\ UNCHANGED <<asked, answers, late, outcome, unread, gaps, found, spent,
                   bought, db, durable, appended, crashes>>

(* Free text: every query is charged before any of them is sent.            *)
Plan ==
    /\ stage = "plan"
    /\ \E t \in todo :
        /\ todo' = todo \ {t}
        /\ Spend
        /\ \/ /\ ~CanBuy(spent) /\ Report(t, "budget")
              /\ UNCHANGED answers
           \/ /\ CanBuy(spent) /\ late /\ Report(t, "timeout")
              /\ UNCHANGED answers
           \/ /\ CanBuy(spent) /\ ~late
              /\ answers' = [answers EXCEPT ![t] = "sent"]
              /\ UNCHANGED outcome
    /\ UNCHANGED <<stage, asked, late, unread, gaps, found, db, durable, appended,
                   crashes>>

PlanDone ==
    /\ stage = "plan" /\ todo = {}
    /\ stage' = "search"
    /\ UNCHANGED <<asked, todo, answers, late, outcome, unread, gaps, found,
                   spent, bought, db, durable, appended, crashes>>

\* OpenAlex's search passes retracted works over; the two providers asked
\* after it do not know of retractions.  Any answer, a miss included, is
\* audited; a query that fails everywhere or is cut off at 45 seconds may
\* leave no row.
Search ==
    /\ stage = "search"
    /\ \E t \in Text :
        /\ answers[t] = "sent"
        /\ \/ /\ \E hit \in Paper \cup {"miss", "timeout"} :
                  answers' = [answers EXCEPT ![t] = hit]
              /\ Commit
           \/ /\ \E hit \in {"miss", "timeout"} :
                  answers' = [answers EXCEPT ![t] = hit]
              /\ UNCHANGED durable
    /\ UNCHANGED <<stage, asked, todo, late, outcome, unread, gaps, found, spent,
                   bought, db, appended, crashes>>

SearchDone ==
    /\ stage = "search"
    /\ \A t \in Text : answers[t] # "sent"
    /\ stage' = "read"
    /\ todo' = {t \in Text : answers[t] # "none"}
    /\ UNCHANGED <<asked, answers, late, outcome, unread, gaps, found, spent,
                   bought, db, durable, appended, crashes>>

\* The results are then taken one at a time, so two queries that found one
\* paper meet its row; ReadHitBlindly would not look for it.
ReadHitBlindly(t) ==
    /\ answers[t] \in Paper
    /\ Flush([item |-> answers[t], how |-> "text"])
    /\ Report(t, "fresh")
    /\ unread' = unread \cup {answers[t]}

ReadHit(t) ==
    /\ answers[t] \in Paper
    /\ LET p == answers[t] IN
        \/ /\ Known(p)
           /\ Report(t, "known")
           /\ UNCHANGED <<db, unread>>
        \/ /\ ~Known(p) /\ p \in AfterCutoff \cup OffTopic
           /\ Report(t, "screened")
           /\ UNCHANGED <<db, unread>>
        \/ /\ ~Known(p) /\ p \notin AfterCutoff \cup OffTopic
           /\ Flush([item |-> p, how |-> "text"])
           /\ Report(t, "fresh")
           /\ unread' = unread \cup {p}

ReadMiss(t) ==
    /\ answers[t] \in {"miss", "timeout"}
    /\ Report(t, IF answers[t] = "miss" THEN "unresolvable" ELSE "timeout")
    /\ UNCHANGED <<db, unread>>

Read ==
    /\ stage = "read"
    /\ \E t \in todo :
        /\ todo' = todo \ {t}
        /\ \/ ReadHit(t)
           \/ ReadMiss(t)
    /\ UNCHANGED <<stage, asked, answers, late, gaps, found, spent, bought,
                   durable, appended, crashes>>

ReadDone ==
    /\ stage = "read" /\ todo = {}
    /\ stage' = "extract"
    /\ UNCHANGED <<asked, todo, answers, late, outcome, unread, gaps, found,
                   spent, bought, db, durable, appended, crashes>>

-----------------------------------------------------------------------------
(* FindingExtractor: two tool calls to find the text, one model call to     *)
(* read it; what it cannot turn into a located quote is a gap.              *)
UseTool(n) ==
    /\ spent' = [spent EXCEPT !.tool = @ + n]
    /\ bought' = [bought EXCEPT !.tool = @ + n]

\* ForgetGap is an extraction that leaves no trace when it yields nothing.
ForgetGap(x) == UNCHANGED <<gaps, found>>

Gap(x) == gaps' = gaps \cup {x} /\ UNCHANGED found

\* The row of a finding is keyed by its content: a second extraction of the
\* same finding reuses it.
KeepFinding(x) ==
    /\ db' = [db EXCEPT !.findings = @ \cup {x}]
    /\ found' = found \cup {x}
    /\ UNCHANGED gaps

\* extract() for a DOI: no tool call left, no open copy (an unanswered lookup
\* commits nothing), or a text that is fetched and read.
ExtractByDoi(x) ==
    \/ /\ spent.tool >= ToolLimit
       /\ Gap(x)
       /\ UNCHANGED <<spent, bought, db, durable>>
    \/ /\ spent.tool < ToolLimit
       /\ UseTool(1)
       /\ Gap(x)
       /\ UNCHANGED db
       /\ \/ Commit
          \/ UNCHANGED durable
    \/ /\ spent.tool + 1 < ToolLimit
       /\ UseTool(2)
       /\ Commit
       /\ \/ Gap(x) /\ UNCHANGED db
          \/ KeepFinding(x)

\* A stored file needs no lookup: only the model call, which may fail.
ExtractFile(x) ==
    /\ \/ Gap(x) /\ UNCHANGED <<db, durable>>
       \/ Gap(x) /\ Commit /\ UNCHANGED db
       \/ KeepFinding(x) /\ Commit
    /\ UNCHANGED <<spent, bought>>

NextStage ==
    [extract |-> "uploads", uploads_extract |-> "user",
     user_extract |-> "kb", kb_extract |-> "report"]

Extract ==
    /\ stage \in DOMAIN NextStage
    /\ \E x \in unread :
        /\ unread' = unread \ {x}
        /\ IF x \in Paper THEN ExtractByDoi(x) ELSE ExtractFile(x)
    /\ UNCHANGED <<stage, asked, todo, answers, late, outcome, appended, crashes>>

Stock(s) ==
    CASE s = "uploads" -> Upload
      [] s = "user"    -> UserDois
      [] s = "kb"      -> KbDoc
      [] OTHER         -> {}

ExtractDone ==
    /\ stage \in DOMAIN NextStage
    /\ unread = {}
    /\ stage' = NextStage[stage]
    /\ todo' = Stock(NextStage[stage])
    /\ UNCHANGED <<asked, answers, late, outcome, unread, gaps, found, spent,
                   bought, db, durable, appended, crashes>>

-----------------------------------------------------------------------------
(* acquire_uploaded and acquire_knowledge_documents: a row per file.        *)
TakeFile ==
    /\ stage \in {"uploads", "kb"}
    /\ \E f \in todo :
        /\ todo' = todo \ {f}
        /\ IF Known(f)
           THEN Report(f, "known") /\ UNCHANGED <<db, unread>>
           ELSE AddFresh(f, "file")
    /\ UNCHANGED <<stage, asked, answers, late, gaps, found, spent, bought,
                   durable, appended, crashes>>

(* acquire_dois: as the seats' lookups, without deadline and cutoff.        *)
UserLookup ==
    /\ stage = "user"
    /\ \E p \in todo :
        /\ todo' = todo \ {p}
        /\ \/ LookupKnown(p)
           \/ /\ ~Known(p) /\ ~CanBuy(spent)
              /\ Spend /\ Report(p, "budget")
              /\ UNCHANGED <<db, durable, unread>>
           \/ /\ ~Known(p) /\ CanBuy(spent)
              /\ Spend /\ Report(p, "failed")
              /\ UNCHANGED <<db, durable, unread>>
           \/ /\ ~Known(p) /\ CanBuy(spent)
              /\ Spend /\ Commit
              /\ IF p \in Retracted
                 THEN Report(p, "screened") /\ UNCHANGED <<db, unread>>
                 ELSE AddFresh(p, "user")
    /\ UNCHANGED <<stage, asked, answers, late, gaps, found, appended, crashes>>

ReadStage == [uploads |-> "uploads_extract", user |-> "user_extract",
              kb |-> "kb_extract"]

StockDone ==
    /\ stage \in DOMAIN ReadStage
    /\ todo = {}
    /\ stage' = ReadStage[stage]
    /\ UNCHANGED <<asked, todo, answers, late, outcome, unread, gaps, found,
                   spent, bought, db, durable, appended, crashes>>

-----------------------------------------------------------------------------
(* The orchestrator appends the pass's events, slots and checkpoint in one  *)
(* commit.                                                                  *)
Refusals == {"budget", "timeout", "failed", "screened"}

Missed(out, x) == out[x] \cap (Refusals \cup {"unresolvable"}) # {}

\* FewHoles counts only what no provider knew.
FewHoles(out) == {x \in (Paper \cup Text) \ Adversarial : "unresolvable" \in out[x]}

Holes(out) == {x \in (Paper \cup Text) \ Adversarial : Missed(out, x)}

Record ==
    /\ stage = "report"
    /\ stage' = "done"
    /\ Commit
    /\ appended' = [found   |-> found,
                  gaps    |-> gaps \cup Holes(outcome),
                  outcome |-> {x \in Item : outcome[x] # {}}]
    /\ UNCHANGED <<asked, todo, answers, late, outcome, unread, gaps, found,
                   spent, bought, db, crashes>>

DeadlinePasses ==
    /\ stage \in {"lookup", "plan"}
    /\ ~late
    /\ late' = TRUE
    /\ UNCHANGED <<stage, asked, todo, answers, outcome, unread, gaps, found,
                   spent, bought, db, durable, appended, crashes>>

FreshPass ==
    /\ stage' = "begin"
    /\ asked' = {} /\ todo' = {}
    /\ answers' = [t \in Text |-> "none"]
    /\ late' = FALSE
    /\ outcome' = [x \in Item |-> {}]
    /\ unread' = {} /\ gaps' = {} /\ found' = {}
    /\ spent' = NoSpend /\ bought' = NoSpend

\* A dead worker or a lost session: what was flushed is rolled back.
Crash ==
    /\ stage \notin {"begin", "done"}
    /\ crashes < MaxCrashes
    /\ crashes' = crashes + 1
    /\ FreshPass
    /\ db' = durable
    /\ UNCHANGED <<durable, appended>>

AcqInit ==
    /\ stage = "begin"
    /\ asked = {} /\ todo = {}
    /\ answers = [t \in Text |-> "none"]
    /\ late = FALSE
    /\ outcome = [x \in Item |-> {}]
    /\ unread = {} /\ gaps = {} /\ found = {}
    /\ spent = NoSpend /\ bought = NoSpend
    /\ db = [rows |-> {}, findings |-> {}]
    /\ durable = [rows |-> {}, findings |-> {}]
    /\ appended = NothingAppended
    /\ crashes = 0

AcqNext ==
    \/ BeginAcquisition
    \/ Lookup \/ LookupsDone
    \/ Plan \/ PlanDone
    \/ Search \/ SearchDone
    \/ Read \/ ReadDone
    \/ Extract \/ ExtractDone
    \/ TakeFile \/ UserLookup \/ StockDone
    \/ Record
    \/ DeadlinePasses
    \/ Crash

AcqSpec == AcqInit /\ [][AcqNext]_acqVars

-----------------------------------------------------------------------------
Outcomes == {"fresh", "known", "unresolvable"} \cup Refusals

Database == [rows : SUBSET Row, findings : SUBSET (Paper \cup Upload \cup KbDoc)]

\* Every variable of a pass keeps its type; in particular neither counter of
\* the budget tracker passes its limit.
AcqTypeOK ==
    /\ stage \in {"begin", "lookup", "plan", "search", "read", "report", "done"}
                 \cup DOMAIN NextStage \cup DOMAIN ReadStage
    /\ asked \subseteq Paper \cup Text
    /\ todo \subseteq Item
    /\ answers \in [Text -> Paper \cup {"none", "sent", "miss", "timeout"}]
    /\ late \in BOOLEAN
    /\ outcome \in [Item -> SUBSET Outcomes]
    /\ unread \subseteq Item /\ gaps \subseteq Item /\ found \subseteq Item
    /\ spent \in [source : 0 .. SourceLimit, tool : 0 .. ToolLimit]
    /\ bought \in [source : Nat, tool : Nat]
    /\ db \in Database /\ durable \in Database
    /\ appended.found \subseteq Item /\ appended.gaps \subseteq Item
    /\ crashes \in 0 .. MaxCrashes

\* "One fetch per paper, however many seats asked": whatever mix of DOI
\* requests, searches and the researcher's own list names a paper, and however
\* often the pass is started again, it has one row.
OneRowPerPaper ==
    \A r1, r2 \in db.rows : r1.item = r2.item => r1 = r2

\* A budget of N buys exactly N: a request is refused for the budget only when
\* the paid calls of the pass used up one of the two limits, and the pass
\* never pays for more.
BudgetBuysExactlyN ==
    /\ bought.source <= SourceLimit /\ bought.tool <= ToolLimit
    /\ (\E x \in Item : "budget" \in outcome[x]) =>
          bought.source = SourceLimit \/ bought.tool = ToolLimit

\* Each DOI, text, user DOI and file a recorded pass was asked for has an outcome, and
\* what could not be had is a slot of the run.  Only a miss of an adversarial search is
\* none: it is a fact about the providers, and counting it would make
\* COMPLETED_WITH_GAPS permanent.
NothingAskedVanishes ==
    stage = "done" =>
        /\ asked \cup UserDois \cup Upload \cup KbDoc \subseteq appended.outcome
        /\ \A x \in asked \ Adversarial :
              outcome[x] \cap {"fresh", "known"} = {} => x \in appended.gaps
        /\ appended.gaps \cap Adversarial = {}

\* In a run that was never interrupted, every source it read is on the ledger as a
\* finding or as a gap, and every finding row has its event.
UninterruptedPassRecordsItsFindings ==
    stage = "done" /\ crashes = 0 =>
        /\ db.findings \subseteq appended.found
        /\ \A r \in db.rows : r.item \in appended.found \cup appended.gaps

\* A recorded pass accounts for everything it was asked and, unless it was cut off, for
\* everything it read.
AcquisitionIsAccountedFor ==
    AcqTypeOK /\ NothingAskedVanishes /\ UninterruptedPassRecordsItsFindings
=============================================================================
