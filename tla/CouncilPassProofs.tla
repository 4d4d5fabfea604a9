-------------------------- MODULE CouncilPassProofs --------------------------
(***************************************************************************)
(* Proofs about what a council pass reads and what it writes.              *)
(*                                                                         *)
(* Part 1, Acquisition: one row for a paper however it was asked for, a    *)
(* budget that buys exactly what it says, and a recorded pass that         *)
(* accounts for everything it was asked and everything it read.  An item   *)
(* that was asked for is on the way through its stage (todo), with a       *)
(* provider (answers), or has an outcome; a source is about to be read, or *)
(* has been read.  The invariant says which of these hold at which stage,  *)
(* what the two counters of the budget have to do with each other, and     *)
(* that what is committed is part of what the session sees.                *)
(*                                                                         *)
(* Part 2, Report: the reasoning map a reader is shown files every item of *)
(* its catalogue.  Most of it is about the operators that make a catalogue *)
(* and a map; the invariant of a run says that every stored paper is one   *)
(* of which that can be shown.  And the paper of a council that was parked *)
(* for guidance says all the council said: from the park on that is in the *)
(* graph, or a judgment says it too, if nothing gets lost.                 *)
(*                                                                         *)
(* Part 3, SeatMemory: what a pass remembers is what the checkpointed      *)
(* phases said.  A seat's log is its phases in turn, which a phase only    *)
(* extends at the end; nothing is uncommitted but while a phase is stored, *)
(* so that no call of the memory model commits half of one.                *)
(***************************************************************************)
EXTENDS Acquisition, Report, SeatMemory, SequenceLemmas, FiniteSetTheorems, TLAPS

-----------------------------------------------------------------------------
(* PART 1.  Acquisition. *)

\* What can become a source: a paper or a file.
Source == Paper \cup Upload \cup KbDoc

Stages == {"begin", "lookup", "plan", "search", "read", "extract", "uploads", "uploads_extract",
           "user", "user_extract", "kb", "kb_extract", "report", "done"}

Handled(x) == outcome[x] # {}

\* The stages behind a pass that has left the seats' requests, the uploads, the
\* researcher's own papers or the knowledge base.
AfterUser == {"user_extract", "kb", "kb_extract", "report", "done"}
AfterUploads == AfterUser \cup {"uploads_extract", "user"}
AfterRequests == AfterUploads \cup {"extract", "uploads"}
AfterKb == {"kb_extract", "report", "done"}

\* The items a stage works on are of its kind.
TodoInv ==
    /\ stage = "lookup" => todo \subseteq Paper
    /\ stage \in {"plan", "read"} => todo \subseteq Text
    /\ stage = "uploads" => todo \subseteq Upload
    /\ stage = "user" => todo \subseteq UserDois
    /\ stage = "kb" => todo \subseteq KbDoc

\* What was asked is still to be done, under way, or has an outcome.
PapersInv ==
    /\ stage = "lookup" => \A p \in asked \cap Paper : p \in todo \/ Handled(p)
    /\ stage \in {"plan", "search", "read"} \cup AfterRequests =>
          \A p \in asked \cap Paper : Handled(p)

TextsInv ==
    /\ stage \in {"begin", "lookup"} => \A t \in Text : answers[t] = "none"
    /\ stage = "plan" =>
          \A t \in asked \cap Text : t \in todo \/ Handled(t) \/ answers[t] = "sent"
    /\ stage = "search" => \A t \in asked \cap Text : Handled(t) \/ answers[t] # "none"
    /\ stage = "read" => \A t \in asked \cap Text : t \in todo \/ Handled(t)
    /\ stage \in AfterRequests => \A t \in asked \cap Text : Handled(t)

FilesInv ==
    /\ stage = "uploads" => \A f \in Upload : f \in todo \/ Handled(f)
    /\ stage \in AfterUploads => \A f \in Upload : Handled(f)
    /\ stage = "kb" => \A f \in KbDoc : f \in todo \/ Handled(f)
    /\ stage \in AfterKb => \A f \in KbDoc : Handled(f)

UserInv ==
    /\ stage = "user" => \A p \in UserDois : p \in todo \/ Handled(p)
    /\ stage \in AfterUser => \A p \in UserDois : Handled(p)

\* What is read is a source, and the events of a pass are of sources.
SourcesInv == unread \subseteq Source /\ gaps \subseteq Source /\ found \subseteq Source

\* What a recorded pass has appended.
AppendedInv ==
    stage = "done" =>
        /\ appended.found = found /\ appended.gaps = gaps \cup Holes(outcome)
        /\ appended.outcome = {x \in Item : Handled(x)}

\* Before the first crash every finding row has its event in the pass, and every source
\* is read, or known as a gap, or is about to be read.
FindingsInv ==
    crashes = 0 =>
        /\ db.findings \subseteq found
        /\ \A r \in db.rows : r.item \in found \cup gaps \cup unread

ReadInv == stage \in {"report", "done"} => unread = {}

\* The two counters of the tracker, and what was paid: only a charge that found the tool
\* budget empty is on the source counter and bought nothing.
Paid ==
    /\ spent.tool = bought.tool
    /\ bought.source <= spent.source
    /\ spent.tool < ToolLimit => bought.source = spent.source

UsedUp == bought.source = SourceLimit \/ bought.tool = ToolLimit

BudgetInv == Paid /\ \A x \in Item : "budget" \in outcome[x] => UsedUp

\* One row for an item, also in what is committed, which is part of what is seen.
RowsInv ==
    /\ OneRowPerPaper
    /\ durable.rows \subseteq db.rows
Control == TodoInv /\ PapersInv /\ TextsInv /\ FilesInv /\ UserInv

Data == SourcesInv /\ AppendedInv /\ FindingsInv /\ ReadInv /\ BudgetInv /\ RowsInv

IInv == AcqTypeOK /\ Control /\ Data

-----------------------------------------------------------------------------
LEMMA Numbers == SourceLimit \in Nat /\ ToolLimit \in Nat /\ MaxCrashes \in Nat
BY AcquisitionAssumption

LEMMA StageNames ==
    {"begin", "lookup", "plan", "search", "read", "report", "done"}
        \cup DOMAIN NextStage \cup DOMAIN ReadStage = Stages
BY DEF NextStage, ReadStage, Stages

\* The conjuncts of the type invariant the steps need.
LEMMA TypeFacts ==
    ASSUME AcqTypeOK
    PROVE  /\ stage \in Stages
           /\ asked \subseteq Paper \cup Text
           /\ todo \subseteq Item
           /\ answers \in [Text -> Paper \cup {"none", "sent", "miss", "timeout"}]
           /\ outcome \in [Item -> SUBSET Outcomes]
           /\ unread \subseteq Item /\ gaps \subseteq Item /\ found \subseteq Item
           /\ spent \in [source : 0 .. SourceLimit, tool : 0 .. ToolLimit]
           /\ bought \in [source : Nat, tool : Nat]
           /\ db \in Database /\ durable \in Database
           /\ crashes \in 0 .. MaxCrashes
BY StageNames DEF AcqTypeOK

\* Reporting on an item gives it an outcome and takes none from another.
LEMMA ReportKeeps ==
    ASSUME outcome \in [Item -> SUBSET Outcomes], NEW x \in Item, NEW what \in Outcomes,
           Report(x, what)
    PROVE  /\ outcome' \in [Item -> SUBSET Outcomes]
           /\ Handled(x)'
           /\ \A y \in Item : Handled(y) => Handled(y)'
           /\ \A y \in Item : "budget" \in outcome'[y] =>
                  "budget" \in outcome[y] \/ what = "budget"
BY DEF Report, Handled

\* A charge keeps the counters in their limits and in step with what was paid; one that
\* is refused finds a limit used up by paid calls.
LEMMA SpendKeeps ==
    ASSUME spent \in [source : 0 .. SourceLimit, tool : 0 .. ToolLimit],
           bought \in [source : Nat, tool : Nat],
           Paid, Spend
    PROVE  /\ spent' \in [source : 0 .. SourceLimit, tool : 0 .. ToolLimit]
           /\ bought' \in [source : Nat, tool : Nat]
           /\ Paid'
           /\ UsedUp => UsedUp'
           /\ ~CanBuy(spent) => UsedUp'
<1>0. /\ spent.source \in 0 .. SourceLimit /\ spent.tool \in 0 .. ToolLimit
      /\ bought.source \in Nat /\ bought.tool \in Nat
      /\ SourceLimit \in Nat /\ ToolLimit \in Nat
  BY Numbers
<1>1. CASE CanBuy(spent)
  <2>1. /\ spent' = [source |-> spent.source + 1, tool |-> spent.tool + 1]
        /\ bought' = [source |-> bought.source + 1, tool |-> bought.tool + 1]
        /\ spent.source < SourceLimit /\ spent.tool < ToolLimit
    <3>1. spent.source < SourceLimit /\ spent.tool < ToolLimit
      BY <1>1 DEF CanBuy
    <3>2. spent' = [source |-> spent.source + 1, tool |-> spent.tool + 1]
      BY <1>0, <3>1 DEF Spend, Charge
    <3>3. bought' = [source |-> bought.source + 1, tool |-> bought.tool + 1]
      BY <1>1 DEF Spend
    <3> QED BY <3>1, <3>2, <3>3
  <2> QED BY <1>0, <1>1, <2>1 DEF Paid, UsedUp
<1>2. CASE ~CanBuy(spent) /\ spent.source >= SourceLimit
  <2>1. spent' = spent /\ bought' = bought
    BY <1>0, <1>2 DEF Spend, Charge
  <2>2. UsedUp
    BY <1>0, <1>2 DEF Paid, UsedUp
  <2> QED BY <2>1, <2>2 DEF Paid, UsedUp
<1>3. CASE spent.source < SourceLimit /\ spent.tool >= ToolLimit
  <2>1. spent' = [source |-> spent.source + 1, tool |-> spent.tool] /\ bought' = bought
    BY <1>0, <1>3 DEF Spend, Charge, CanBuy
  <2>2. UsedUp
    BY <1>0, <1>3 DEF Paid, UsedUp
  <2> QED BY <1>0, <1>3, <2>1, <2>2 DEF Paid, UsedUp
<1> QED BY <1>0, <1>1, <1>2, <1>3 DEF CanBuy

\* A flushed row is of an item that had none.
LEMMA FlushKeeps ==
    ASSUME db \in Database, durable \in Database, NEW row \in Row, Flush(row),
           ~Known(row.item), RowsInv
    PROVE  /\ db' \in Database
           /\ db'.rows = db.rows \cup {row} /\ db'.findings = db.findings
           /\ OneRowPerPaper'
           /\ durable.rows \subseteq db'.rows
<1>1. db'.rows = db.rows \cup {row} /\ db'.findings = db.findings /\ db' \in Database
  BY DEF Flush, Database
<1>2. OneRowPerPaper'
  <2> SUFFICES ASSUME NEW r1 \in db'.rows, NEW r2 \in db'.rows, r1.item = r2.item
               PROVE  r1 = r2
    BY DEF OneRowPerPaper
  <2>1. \A r \in db.rows : r.item # row.item
    BY DEF Known, HasRow
  <2> QED BY <1>1, <2>1 DEF RowsInv, OneRowPerPaper
<1> QED BY <1>1, <1>2 DEF RowsInv

-----------------------------------------------------------------------------
\* A step that handles one item of its stage keeps the account of what was asked.
LEMMA HandlingOne ==
    ASSUME AcqTypeOK, Control, NEW x \in todo,
           stage' = stage, asked' = asked, todo' = todo \ {x},
           answers' = answers, Handled(x)',
           \A y \in Item : Handled(y) => Handled(y)'
    PROVE  Control'
<1>0. asked \subseteq Paper \cup Text /\ UserDois \subseteq Paper
  BY AcquisitionAssumption DEF AcqTypeOK
<1>1. TodoInv'
  BY DEF Control, TodoInv
<1>2. PapersInv'
  BY <1>0 DEF Control, PapersInv, Item
<1>3. TextsInv'
  BY <1>0 DEF Control, TextsInv, Item
<1>4. FilesInv'
  BY <1>0 DEF Control, FilesInv, Item
<1>5. UserInv'
  BY <1>0 DEF Control, UserInv, Item
<1> QED BY <1>1, <1>2, <1>3, <1>4, <1>5 DEF Control

\* A step that reports nothing and writes nothing keeps what the pass has gathered.
LEMMA MovingOn ==
    ASSUME Data, stage' # "done", stage' = "report" => unread = {},
           UNCHANGED <<outcome, unread, gaps, found, spent, bought, db, durable, crashes>>
    PROVE  Data'
<1>1. SourcesInv' /\ AppendedInv' /\ FindingsInv' /\ ReadInv'
  BY DEF Data, SourcesInv, AppendedInv, FindingsInv, ReadInv
<1>2. BudgetInv'
  BY DEF Data, BudgetInv, Paid, UsedUp
<1>3. RowsInv'
  BY DEF Data, RowsInv, OneRowPerPaper
<1> QED BY <1>1, <1>2, <1>3 DEF Data

-----------------------------------------------------------------------------
\* The pass begins, and moves on from stage to stage.

LEMMA BeginKeeps == ASSUME IInv, BeginAcquisition PROVE IInv'
<1>0. PICK requests \in SUBSET (Paper \cup (Text \ Adversarial)) :
        asked' = requests \cup Adversarial /\ todo' = requests \cap Paper
  BY DEF BeginAcquisition
<1>1. /\ stage = "begin" /\ stage' = "lookup"
      /\ UNCHANGED <<answers, late, outcome, unread, gaps, found, spent, bought,
                     db, durable, appended, crashes>>
  BY DEF BeginAcquisition
<1>2. AcqTypeOK'
  BY <1>0, <1>1, AcquisitionAssumption DEF IInv, AcqTypeOK, Item, Database
<1>3. Control'
  <2>1. asked' \cap Paper \subseteq todo'
    BY <1>0, AcquisitionAssumption
  <2>2. \A t \in Text : answers[t] = "none"
    BY <1>1 DEF IInv, Control, TextsInv
  <2> QED
    BY <1>0, <1>1, <2>1, <2>2
    DEF Control, TodoInv, PapersInv, TextsInv, FilesInv, UserInv,
        AfterRequests, AfterUploads, AfterUser, AfterKb
<1>4. Data'
  BY <1>1, MovingOn DEF IInv
<1> QED BY <1>2, <1>3, <1>4 DEF IInv

LEMMA LookupsDoneKeeps == ASSUME IInv, LookupsDone PROVE IInv'
<1>1. /\ stage = "lookup" /\ todo = {} /\ stage' = "plan" /\ todo' = asked \cap Text
      /\ UNCHANGED <<asked, answers, late, outcome, unread, gaps, found, spent, bought,
                     db, durable, appended, crashes>>
  BY DEF LookupsDone
<1>2. AcqTypeOK'
  BY <1>1 DEF IInv, AcqTypeOK, Item, Database
<1>3. Control'
  BY <1>1
  DEF IInv, Control, TodoInv, PapersInv, TextsInv, FilesInv, UserInv, Handled,
      AfterRequests, AfterUploads, AfterUser, AfterKb
<1>4. Data'
  BY <1>1, MovingOn DEF IInv
<1> QED BY <1>2, <1>3, <1>4 DEF IInv

LEMMA PlanDoneKeeps == ASSUME IInv, PlanDone PROVE IInv'
<1>1. /\ stage = "plan" /\ todo = {} /\ stage' = "search"
      /\ UNCHANGED <<asked, todo, answers, late, outcome, unread, gaps, found, spent,
                     bought, db, durable, appended, crashes>>
  BY DEF PlanDone
<1>2. AcqTypeOK'
  BY <1>1 DEF IInv, AcqTypeOK, Item, Database
<1>3. Control'
  BY <1>1
  DEF IInv, Control, TodoInv, PapersInv, TextsInv, FilesInv, UserInv, Handled,
      AfterRequests, AfterUploads, AfterUser, AfterKb
<1>4. Data'
  BY <1>1, MovingOn DEF IInv
<1> QED BY <1>2, <1>3, <1>4 DEF IInv

LEMMA SearchDoneKeeps == ASSUME IInv, SearchDone PROVE IInv'
<1>1. /\ stage = "search" /\ stage' = "read"
      /\ todo' = {t \in Text : answers[t] # "none"}
      /\ UNCHANGED <<asked, answers, late, outcome, unread, gaps, found, spent, bought,
                     db, durable, appended, crashes>>
  BY DEF SearchDone
<1>2. AcqTypeOK'
  BY <1>1 DEF IInv, AcqTypeOK, Item, Database
<1>3. Control'
  BY <1>1
  DEF IInv, Control, TodoInv, PapersInv, TextsInv, FilesInv, UserInv, Handled,
      AfterRequests, AfterUploads, AfterUser, AfterKb
<1>4. Data'
  BY <1>1, MovingOn DEF IInv
<1> QED BY <1>2, <1>3, <1>4 DEF IInv

LEMMA ReadDoneKeeps == ASSUME IInv, ReadDone PROVE IInv'
<1>1. /\ stage = "read" /\ todo = {} /\ stage' = "extract"
      /\ UNCHANGED <<asked, todo, answers, late, outcome, unread, gaps, found, spent,
                     bought, db, durable, appended, crashes>>
  BY DEF ReadDone
<1>2. AcqTypeOK'
  BY <1>1 DEF IInv, AcqTypeOK, Item, Database, NextStage
<1>3. Control'
  BY <1>1
  DEF IInv, Control, TodoInv, PapersInv, TextsInv, FilesInv, UserInv, Handled,
      AfterRequests, AfterUploads, AfterUser, AfterKb
<1>4. Data'
  BY <1>1, MovingOn DEF IInv
<1> QED BY <1>2, <1>3, <1>4 DEF IInv

\* Behind each reading stage comes a stock of files or papers, or the report.
LEMMA ExtractDoneKeeps == ASSUME IInv, ExtractDone PROVE IInv'
<1>1. /\ unread = {}
      /\ UNCHANGED <<asked, answers, late, outcome, unread, gaps, found, spent, bought,
                     db, durable, appended, crashes>>
  BY DEF ExtractDone
<1>2. \/ stage = "extract" /\ stage' = "uploads" /\ todo' = Upload
      \/ stage = "uploads_extract" /\ stage' = "user" /\ todo' = UserDois
      \/ stage = "user_extract" /\ stage' = "kb" /\ todo' = KbDoc
      \/ stage = "kb_extract" /\ stage' = "report" /\ todo' = {}
  <2>1. stage \in {"extract", "uploads_extract", "user_extract", "kb_extract"}
    BY DEF ExtractDone, NextStage
  <2>2. stage' = NextStage[stage] /\ todo' = Stock(NextStage[stage])
    BY DEF ExtractDone
  <2> QED BY <2>1, <2>2 DEF NextStage, Stock
<1>3. AcqTypeOK'
  <2>1. stage' \in Stages
    BY <1>2 DEF Stages
  <2>2. todo' \subseteq Item
    BY <1>2, AcquisitionAssumption DEF Item
  <2> QED BY <1>1, <2>1, <2>2, StageNames DEF IInv, AcqTypeOK, Database
<1>4. Control'
  BY <1>1, <1>2
  DEF IInv, Control, TodoInv, PapersInv, TextsInv, FilesInv, UserInv, Handled,
      AfterRequests, AfterUploads, AfterUser, AfterKb
<1>5. Data'
  <2>1. stage' # "done"
    BY <1>2
  <2> QED BY <1>1, <2>1, MovingOn DEF IInv
<1> QED BY <1>3, <1>4, <1>5 DEF IInv

LEMMA StockDoneKeeps == ASSUME IInv, StockDone PROVE IInv'
<1>1. /\ todo = {}
      /\ UNCHANGED <<asked, todo, answers, late, outcome, unread, gaps, found, spent,
                     bought, db, durable, appended, crashes>>
  BY DEF StockDone
<1>2. \/ stage = "uploads" /\ stage' = "uploads_extract"
      \/ stage = "user" /\ stage' = "user_extract"
      \/ stage = "kb" /\ stage' = "kb_extract"
  <2>1. stage \in {"uploads", "user", "kb"} /\ stage' = ReadStage[stage]
    BY DEF StockDone, ReadStage
  <2> QED BY <2>1 DEF ReadStage
<1>3. AcqTypeOK'
  <2>1. stage' \in Stages
    BY <1>2 DEF Stages
  <2> QED BY <1>1, <2>1, StageNames DEF IInv, AcqTypeOK, Database
<1>4. Control'
  BY <1>1, <1>2
  DEF IInv, Control, TodoInv, PapersInv, TextsInv, FilesInv, UserInv, Handled,
      AfterRequests, AfterUploads, AfterUser, AfterKb
<1>5. Data'
  <2>1. stage' # "done" /\ stage' # "report"
    BY <1>2
  <2> QED BY <1>1, <2>1, MovingOn DEF IInv
<1> QED BY <1>3, <1>4, <1>5 DEF IInv

LEMMA DeadlineKeeps == ASSUME IInv, DeadlinePasses PROVE IInv'
<1>1. /\ stage \in {"lookup", "plan"} /\ late' = TRUE
      /\ UNCHANGED <<stage, asked, todo, answers, outcome, unread, gaps, found, spent,
                     bought, db, durable, appended, crashes>>
  BY DEF DeadlinePasses
<1>2. AcqTypeOK'
  BY <1>1 DEF IInv, AcqTypeOK, Database
<1>3. Control'
  BY <1>1
  DEF IInv, Control, TodoInv, PapersInv, TextsInv, FilesInv, UserInv, Handled
<1>4. Data'
  BY <1>1, MovingOn DEF IInv
<1> QED BY <1>2, <1>3, <1>4 DEF IInv

-----------------------------------------------------------------------------
\* The steps that handle an item.

\* A report that puts nothing into the database and nothing on the reading list.
LEMMA ReportingOnly ==
    ASSUME IInv, NEW x \in Item, NEW what \in Outcomes, Report(x, what),
           Paid', UsedUp => UsedUp', what = "budget" => UsedUp',
           stage' # "done", stage' # "report", durable' \in {durable, db},
           UNCHANGED <<unread, gaps, found, db, crashes>>
    PROVE  Data'
<1>0. outcome \in [Item -> SUBSET Outcomes]
  BY TypeFacts DEF IInv
<1>1. SourcesInv' /\ AppendedInv' /\ FindingsInv' /\ ReadInv'
  BY DEF IInv, Data, SourcesInv, AppendedInv, FindingsInv, ReadInv
<1>2. BudgetInv'
  <2>1. \A y \in Item : "budget" \in outcome'[y] =>
            "budget" \in outcome[y] \/ what = "budget"
    BY <1>0, ReportKeeps
  <2> QED BY <2>1 DEF IInv, Data, BudgetInv
<1>3. RowsInv'
  BY DEF IInv, Data, RowsInv, OneRowPerPaper
<1> QED BY <1>1, <1>2, <1>3 DEF Data

\* A fresh row and the report of it.
LEMMA AddingFresh ==
    ASSUME IInv, NEW x \in Item, NEW row \in Row, Flush(row), ~Known(row.item),
           row.item \in Source, Report(x, "fresh"), unread' = unread \cup {row.item},
           Paid', UsedUp => UsedUp',
           stage' # "done", stage' # "report", durable' \in {durable, db},
           UNCHANGED <<gaps, found, crashes>>
    PROVE  Data' /\ db' \in Database
<1>0. outcome \in [Item -> SUBSET Outcomes] /\ db \in Database /\ durable \in Database
  BY TypeFacts DEF IInv
<1>1. /\ db' \in Database
      /\ db'.rows = db.rows \cup {row} /\ db'.findings = db.findings
      /\ OneRowPerPaper' /\ durable.rows \subseteq db'.rows
  BY <1>0, FlushKeeps DEF IInv, Data
<1>2. SourcesInv' /\ AppendedInv' /\ ReadInv'
  BY DEF IInv, Data, SourcesInv, AppendedInv, ReadInv
<1>3. FindingsInv'
  BY <1>1 DEF IInv, Data, FindingsInv
<1>4. BudgetInv'
  <2>1. "fresh" \in Outcomes
    BY DEF Outcomes
  <2>2. \A y \in Item : "budget" \in outcome'[y] => "budget" \in outcome[y]
    BY <1>0, <2>1, ReportKeeps
  <2> QED BY <2>2 DEF IInv, Data, BudgetInv
<1>5. RowsInv'
  BY <1>1 DEF RowsInv
<1> QED BY <1>1, <1>2, <1>3, <1>4, <1>5 DEF Data

\* A looked-up paper of the seats or of the researcher: known, refused, failed, screened
\* or fresh.
LEMMA LookingUp ==
    ASSUME IInv, NEW p \in Paper, NEW how \in {"doi", "user"},
           stage' = stage, stage \in {"lookup", "user"},
           \/ LookupKnown(p)
           \/ /\ ~Known(p) /\ ~CanBuy(spent) /\ Spend /\ Report(p, "budget")
              /\ UNCHANGED <<db, durable, unread>>
           \/ /\ ~Known(p) /\ Spend
              /\ Report(p, "timeout") \/ Report(p, "failed")
              /\ UNCHANGED <<db, durable, unread>>
           \/ /\ ~Known(p) /\ Spend /\ Commit
              /\ \/ Report(p, "screened") /\ UNCHANGED <<db, unread>>
                 \/ AddFresh(p, how),
           UNCHANGED <<gaps, found, crashes>>
    PROVE  /\ Data'
           /\ outcome' \in [Item -> SUBSET Outcomes]
           /\ Handled(p)' /\ \A y \in Item : Handled(y) => Handled(y)'
           /\ spent' \in [source : 0 .. SourceLimit, tool : 0 .. ToolLimit]
           /\ bought' \in [source : Nat, tool : Nat]
           /\ db' \in Database /\ durable' \in Database
           /\ unread' \subseteq Item
<1>0. /\ p \in Item /\ p \in Source /\ stage' # "done" /\ stage' # "report"
      /\ outcome \in [Item -> SUBSET Outcomes] /\ unread \subseteq Item
      /\ db \in Database /\ durable \in Database
      /\ spent \in [source : 0 .. SourceLimit, tool : 0 .. ToolLimit]
      /\ bought \in [source : Nat, tool : Nat]
      /\ Paid
  BY TypeFacts DEF IInv, Item, Source, Data, BudgetInv
<1>1. {"known", "budget", "timeout", "failed", "screened", "fresh"} \subseteq Outcomes
  BY DEF Outcomes, Refusals
<1>2. /\ spent' \in [source : 0 .. SourceLimit, tool : 0 .. ToolLimit]
      /\ bought' \in [source : Nat, tool : Nat]
      /\ Paid' /\ (UsedUp => UsedUp')
      /\ Spend /\ ~CanBuy(spent) => UsedUp'
  <2>1. CASE Spend
    BY <1>0, <2>1, SpendKeeps
  <2>2. CASE ~Spend
    <3>1. UNCHANGED <<spent, bought>>
      BY <2>2 DEF LookupKnown
    <3> QED BY <1>0, <2>2, <3>1 DEF Paid, UsedUp
  <2> QED BY <2>1, <2>2
<1>3. \E what \in Outcomes : Report(p, what)
  BY <1>1 DEF LookupKnown, AddFresh
<1>4. /\ outcome' \in [Item -> SUBSET Outcomes]
      /\ Handled(p)' /\ \A y \in Item : Handled(y) => Handled(y)'
  BY <1>0, <1>3, ReportKeeps
<1>5. CASE AddFresh(p, how) /\ ~Known(p) /\ Commit
  <2>1. [item |-> p, how |-> how] \in Row
    BY <1>0 DEF Row
  <2>2. /\ Flush([item |-> p, how |-> how]) /\ Report(p, "fresh")
        /\ unread' = unread \cup {p} /\ durable' = db
    BY <1>5 DEF AddFresh, Commit
  <2>3. Data' /\ db' \in Database
    <3> DEFINE row == [item |-> p, how |-> how]
    <3>1. row \in Row /\ row.item = p
      BY <2>1
    <3>2. Flush(row)
      BY <2>2
    <3> HIDE DEF row
    <3> QED BY <1>0, <1>2, <1>5, <2>2, <3>1, <3>2, AddingFresh
  <2> QED BY <1>0, <1>2, <1>4, <2>2, <2>3
<1>6. CASE \E what \in Outcomes :
             /\ Report(p, what) /\ (what = "budget" => Spend /\ ~CanBuy(spent))
             /\ UNCHANGED <<db, unread>> /\ durable' \in {durable, db}
  <2>1. Data'
    BY <1>0, <1>2, <1>6, ReportingOnly
  <2> QED BY <1>0, <1>2, <1>4, <1>6, <2>1
<1>7. \/ AddFresh(p, how) /\ ~Known(p) /\ Commit
      \/ \E what \in Outcomes :
             /\ Report(p, what) /\ (what = "budget" => Spend /\ ~CanBuy(spent))
             /\ UNCHANGED <<db, unread>> /\ durable' \in {durable, db}
  <2>1. CASE LookupKnown(p)
    BY <1>1, <2>1 DEF LookupKnown
  <2>2. CASE /\ ~CanBuy(spent) /\ Spend /\ Report(p, "budget")
             /\ UNCHANGED <<db, durable, unread>>
    BY <1>1, <2>2
  <2>3. CASE /\ Report(p, "timeout") \/ Report(p, "failed")
             /\ UNCHANGED <<db, durable, unread>>
    BY <1>1, <2>3
  <2>4. CASE Report(p, "screened") /\ UNCHANGED <<db, unread>> /\ Commit
    BY <1>1, <2>4 DEF Commit
  <2> QED BY <2>1, <2>2, <2>3, <2>4
<1> QED BY <1>5, <1>6, <1>7

LEMMA LookupKeeps == ASSUME IInv, Lookup PROVE IInv'
<1>0. PICK p \in todo :
        /\ todo' = todo \ {p}
        /\ LookupKnown(p) \/ LookupRefused(p) \/ LookupFails(p) \/ LookupAnswered(p)
  BY DEF Lookup
<1>1. /\ stage = "lookup"
      /\ UNCHANGED <<stage, asked, answers, late, gaps, found, appended, crashes>>
      /\ p \in Paper
  BY DEF Lookup, IInv, Control, TodoInv
<1>2. /\ Data'
      /\ outcome' \in [Item -> SUBSET Outcomes]
      /\ Handled(p)' /\ \A y \in Item : Handled(y) => Handled(y)'
      /\ spent' \in [source : 0 .. SourceLimit, tool : 0 .. ToolLimit]
      /\ bought' \in [source : Nat, tool : Nat]
      /\ db' \in Database /\ durable' \in Database
      /\ unread' \subseteq Item
  <2>1. \/ LookupKnown(p)
        \/ /\ ~Known(p) /\ ~CanBuy(spent) /\ Spend /\ Report(p, "budget")
           /\ UNCHANGED <<db, durable, unread>>
        \/ /\ ~Known(p) /\ Spend
           /\ Report(p, "timeout") \/ Report(p, "failed")
           /\ UNCHANGED <<db, durable, unread>>
        \/ /\ ~Known(p) /\ Spend /\ Commit
           /\ \/ Report(p, "screened") /\ UNCHANGED <<db, unread>>
              \/ AddFresh(p, "doi")
    BY <1>0, Zenon DEF LookupRefused, LookupFails, LookupAnswered
  <2> QED BY <1>1, <2>1, LookingUp
<1>3. AcqTypeOK'
  BY <1>0, <1>1, <1>2 DEF IInv, AcqTypeOK
<1>4. Control'
  BY <1>0, <1>1, <1>2, HandlingOne DEF IInv
<1> QED BY <1>2, <1>3, <1>4 DEF IInv

LEMMA UserLookupKeeps == ASSUME IInv, UserLookup PROVE IInv'
<1>0. PICK p \in todo :
        /\ todo' = todo \ {p}
        /\ \/ LookupKnown(p)
           \/ /\ ~Known(p) /\ ~CanBuy(spent) /\ Spend /\ Report(p, "budget")
              /\ UNCHANGED <<db, durable, unread>>
           \/ /\ ~Known(p) /\ Spend
              /\ Report(p, "timeout") \/ Report(p, "failed")
              /\ UNCHANGED <<db, durable, unread>>
           \/ /\ ~Known(p) /\ Spend /\ Commit
              /\ \/ Report(p, "screened") /\ UNCHANGED <<db, unread>>
                 \/ AddFresh(p, "user")
  BY Zenon DEF UserLookup
<1>1. /\ stage = "user"
      /\ UNCHANGED <<stage, asked, answers, late, gaps, found, appended, crashes>>
      /\ p \in Paper
  BY AcquisitionAssumption DEF UserLookup, IInv, Control, TodoInv
<1>2. /\ Data'
      /\ outcome' \in [Item -> SUBSET Outcomes]
      /\ Handled(p)' /\ \A y \in Item : Handled(y) => Handled(y)'
      /\ spent' \in [source : 0 .. SourceLimit, tool : 0 .. ToolLimit]
      /\ bought' \in [source : Nat, tool : Nat]
      /\ db' \in Database /\ durable' \in Database
      /\ unread' \subseteq Item
  BY <1>0, <1>1, LookingUp
<1>3. AcqTypeOK'
  BY <1>0, <1>1, <1>2 DEF IInv, AcqTypeOK
<1>4. Control'
  BY <1>0, <1>1, <1>2, HandlingOne DEF IInv
<1> QED BY <1>2, <1>3, <1>4 DEF IInv

LEMMA PlanKeeps == ASSUME IInv, Plan PROVE IInv'
<1>0. PICK t \in todo :
        /\ todo' = todo \ {t}
        /\ Spend
        /\ \/ ~CanBuy(spent) /\ Report(t, "budget") /\ UNCHANGED answers
           \/ Report(t, "timeout") /\ UNCHANGED answers
           \/ answers' = [answers EXCEPT ![t] = "sent"] /\ UNCHANGED outcome
  BY DEF Plan
<1>1. /\ stage = "plan"
      /\ UNCHANGED <<stage, asked, late, unread, gaps, found, db, durable, appended,
                     crashes>>
      /\ t \in Text /\ t \in Item
  BY DEF Plan, IInv, Control, TodoInv, Item
<1>2. /\ spent \in [source : 0 .. SourceLimit, tool : 0 .. ToolLimit]
      /\ bought \in [source : Nat, tool : Nat]
      /\ outcome \in [Item -> SUBSET Outcomes]
      /\ answers \in [Text -> Paper \cup {"none", "sent", "miss", "timeout"}]
      /\ Paid
  BY TypeFacts DEF IInv, Data, BudgetInv
<1>3. /\ spent' \in [source : 0 .. SourceLimit, tool : 0 .. ToolLimit]
      /\ bought' \in [source : Nat, tool : Nat]
      /\ Paid' /\ (UsedUp => UsedUp') /\ (~CanBuy(spent) => UsedUp')
  BY <1>0, <1>2, SpendKeeps
<1>4. CASE \E what \in Outcomes :
             /\ Report(t, what) /\ (what = "budget" => ~CanBuy(spent))
             /\ UNCHANGED answers
  <2>0. PICK what \in Outcomes :
          /\ Report(t, what) /\ (what = "budget" => ~CanBuy(spent))
          /\ UNCHANGED answers
    BY <1>4
  <2>1. /\ outcome' \in [Item -> SUBSET Outcomes]
        /\ Handled(t)' /\ \A y \in Item : Handled(y) => Handled(y)'
    BY <1>1, <1>2, <2>0, ReportKeeps
  <2>2. Data'
    BY <1>1, <1>3, <2>0, ReportingOnly
  <2>3. Control'
    BY <1>0, <1>1, <2>0, <2>1, HandlingOne DEF IInv
  <2>4. AcqTypeOK'
    BY <1>0, <1>1, <1>3, <2>0, <2>1 DEF IInv, AcqTypeOK
  <2> QED BY <2>2, <2>3, <2>4 DEF IInv
<1>5. CASE answers' = [answers EXCEPT ![t] = "sent"] /\ UNCHANGED outcome
  <2>1. answers' \in [Text -> Paper \cup {"none", "sent", "miss", "timeout"}]
    BY <1>2, <1>5
  <2>2. AcqTypeOK'
    BY <1>0, <1>1, <1>3, <1>5, <2>1 DEF IInv, AcqTypeOK
  <2>3. Data'
    <3>1. SourcesInv' /\ AppendedInv' /\ FindingsInv' /\ ReadInv' /\ RowsInv'
      BY <1>1, <1>5
      DEF IInv, Data, SourcesInv, AppendedInv, FindingsInv, ReadInv, RowsInv,
          OneRowPerPaper
    <3>2. BudgetInv'
      BY <1>3, <1>5 DEF IInv, Data, BudgetInv
    <3> QED BY <3>1, <3>2 DEF Data
  <2>4. Control'
    <3>1. TextsInv'
      BY <1>0, <1>1, <1>2, <1>5
      DEF IInv, Control, TextsInv, Handled, AfterRequests, AfterUploads, AfterUser
    <3>2. TodoInv' /\ PapersInv' /\ FilesInv' /\ UserInv'
      BY <1>0, <1>1, <1>5
      DEF IInv, Control, TodoInv, PapersInv, FilesInv, UserInv, Handled,
          AfterRequests, AfterUploads, AfterUser, AfterKb
    <3> QED BY <3>1, <3>2 DEF Control
  <2> QED BY <2>2, <2>3, <2>4 DEF IInv
<1>6. {"budget", "timeout"} \subseteq Outcomes
  BY DEF Outcomes, Refusals
<1> QED BY <1>0, <1>4, <1>5, <1>6

LEMMA SearchKeeps == ASSUME IInv, Search PROVE IInv'
<1>0. PICK t \in Text, hit \in Paper \cup {"miss", "timeout"} :
        answers[t] = "sent" /\ answers' = [answers EXCEPT ![t] = hit]
  BY DEF Search
<1>1. /\ stage = "search" /\ durable' \in {durable, db}
      /\ UNCHANGED <<stage, asked, todo, late, outcome, unread, gaps, found, spent,
                     bought, db, appended, crashes>>
  BY DEF Search, Commit
<1>2. hit # "none" /\ hit # "sent"
  BY AcquisitionAssumption
<1>3. AcqTypeOK'
  <2>1. answers' \in [Text -> Paper \cup {"none", "sent", "miss", "timeout"}]
    BY <1>0, TypeFacts DEF IInv
  <2> QED BY <1>1, <2>1 DEF IInv, AcqTypeOK
<1>4. Control'
  <2>1. TextsInv'
    BY <1>0, <1>1, <1>2, TypeFacts
    DEF IInv, Control, TextsInv, Handled, AfterRequests, AfterUploads, AfterUser
  <2>2. TodoInv' /\ PapersInv' /\ FilesInv' /\ UserInv'
    BY <1>1
    DEF IInv, Control, TodoInv, PapersInv, FilesInv, UserInv, Handled,
        AfterRequests, AfterUploads, AfterUser, AfterKb
  <2> QED BY <2>1, <2>2 DEF Control
<1>5. Data'
  <2>1. SourcesInv' /\ AppendedInv' /\ FindingsInv' /\ ReadInv' /\ RowsInv'
    BY <1>1
    DEF IInv, Data, SourcesInv, AppendedInv, FindingsInv, ReadInv, RowsInv,
        OneRowPerPaper
  <2>2. BudgetInv'
    BY <1>1 DEF IInv, Data, BudgetInv, Paid, UsedUp
  <2> QED BY <2>1, <2>2 DEF Data
<1> QED BY <1>3, <1>4, <1>5 DEF IInv

\* Reading the answers and taking the files pay for nothing.
LEMMA NothingPaid ==
    ASSUME IInv, UNCHANGED <<spent, bought>>
    PROVE  Paid' /\ (UsedUp => UsedUp')
BY DEF IInv, Data, BudgetInv, Paid, UsedUp

LEMMA ReadKeeps == ASSUME IInv, Read PROVE IInv'
<1>0. PICK t \in todo : todo' = todo \ {t} /\ (ReadHit(t) \/ ReadMiss(t))
  BY DEF Read
<1>1. /\ stage = "read"
      /\ UNCHANGED <<stage, asked, answers, late, gaps, found, spent, bought, durable,
                     appended, crashes>>
      /\ t \in Text /\ t \in Item
  BY DEF Read, IInv, Control, TodoInv, Item
<1>2. /\ outcome \in [Item -> SUBSET Outcomes] /\ unread \subseteq Item
      /\ Paid' /\ (UsedUp => UsedUp')
  BY <1>1, TypeFacts, NothingPaid DEF IInv
<1>3. {"known", "screened", "fresh", "unresolvable", "timeout"} \subseteq Outcomes
  BY DEF Outcomes, Refusals
<1>4. \E what \in Outcomes : Report(t, what)
  BY <1>0, <1>3 DEF ReadHit, ReadMiss
<1>5. /\ outcome' \in [Item -> SUBSET Outcomes]
      /\ Handled(t)' /\ \A y \in Item : Handled(y) => Handled(y)'
  BY <1>1, <1>2, <1>4, ReportKeeps
<1>6. Control'
  BY <1>0, <1>1, <1>5, HandlingOne DEF IInv
<1>7. CASE \E what \in Outcomes \ {"budget"} :
             Report(t, what) /\ UNCHANGED <<db, unread>>
  <2>1. Data'
    BY <1>1, <1>2, <1>7, ReportingOnly
  <2>2. AcqTypeOK'
    BY <1>0, <1>1, <1>5, <1>7 DEF IInv, AcqTypeOK
  <2> QED BY <1>6, <2>1, <2>2 DEF IInv
<1>8. CASE /\ answers[t] \in Paper /\ ~Known(answers[t])
           /\ Flush([item |-> answers[t], how |-> "text"]) /\ Report(t, "fresh")
           /\ unread' = unread \cup {answers[t]}
  <2> DEFINE p == answers[t]
             row == [item |-> p, how |-> "text"]
  <2>1. row \in Row /\ row.item = p /\ p \in Item /\ p \in Source
    BY <1>8 DEF Row, Item, Source
  <2>2. Flush(row) /\ unread' = unread \cup {p} /\ ~Known(p) /\ Report(t, "fresh")
    BY <1>8
  <2> HIDE DEF row, p
  <2>3. Data' /\ db' \in Database
    BY <1>1, <1>2, <2>1, <2>2, AddingFresh
  <2>4. AcqTypeOK'
    BY <1>0, <1>1, <1>2, <1>5, <2>1, <2>2, <2>3 DEF IInv, AcqTypeOK
  <2> QED BY <1>6, <2>3, <2>4 DEF IInv
<1>9. CASE ReadMiss(t)
  BY <1>3, <1>7, <1>9 DEF ReadMiss
<1>10. CASE ReadHit(t)
  BY <1>3, <1>7, <1>8, <1>10 DEF ReadHit
<1> QED BY <1>0, <1>9, <1>10

LEMMA TakeFileKeeps == ASSUME IInv, TakeFile PROVE IInv'
<1>0. PICK f \in todo :
        /\ todo' = todo \ {f}
        /\ \/ Known(f) /\ Report(f, "known") /\ UNCHANGED <<db, unread>>
           \/ ~Known(f) /\ AddFresh(f, "file")
  BY DEF TakeFile
<1>1. /\ stage \in {"uploads", "kb"}
      /\ UNCHANGED <<stage, asked, answers, late, gaps, found, spent, bought, durable,
                     appended, crashes>>
      /\ f \in Item /\ f \in Source
  BY DEF TakeFile, IInv, Control, TodoInv, Item, Source
<1>2. /\ outcome \in [Item -> SUBSET Outcomes] /\ unread \subseteq Item
      /\ Paid' /\ (UsedUp => UsedUp')
  BY <1>1, TypeFacts, NothingPaid DEF IInv
<1>3. "known" \in Outcomes /\ "fresh" \in Outcomes
  BY DEF Outcomes
<1>4. \E what \in Outcomes : Report(f, what)
  BY <1>0, <1>3 DEF AddFresh
<1>5. /\ outcome' \in [Item -> SUBSET Outcomes]
      /\ Handled(f)' /\ \A y \in Item : Handled(y) => Handled(y)'
  BY <1>1, <1>2, <1>4, ReportKeeps
<1>6. Control'
  BY <1>0, <1>1, <1>5, HandlingOne DEF IInv
<1>7. CASE Report(f, "known") /\ UNCHANGED <<db, unread>>
  <2>1. Data'
    BY <1>1, <1>2, <1>3, <1>7, ReportingOnly
  <2>2. AcqTypeOK'
    BY <1>0, <1>1, <1>5, <1>7 DEF IInv, AcqTypeOK
  <2> QED BY <1>6, <2>1, <2>2 DEF IInv
<1>8. CASE ~Known(f) /\ AddFresh(f, "file")
  <2> DEFINE row == [item |-> f, how |-> "file"]
  <2>1. row \in Row /\ row.item = f
    BY <1>1 DEF Row
  <2>2. Flush(row) /\ unread' = unread \cup {f} /\ Report(f, "fresh")
    BY <1>8 DEF AddFresh
  <2> HIDE DEF row
  <2>3. Data' /\ db' \in Database
    BY <1>1, <1>2, <1>8, <2>1, <2>2, AddingFresh
  <2>4. AcqTypeOK'
    BY <1>0, <1>1, <1>2, <1>5, <2>2, <2>3 DEF IInv, AcqTypeOK
  <2> QED BY <1>6, <2>3, <2>4 DEF IInv
<1> QED BY <1>0, <1>7, <1>8

\* Paid tool calls keep the counters in step.
LEMMA ToolKeeps ==
    ASSUME spent \in [source : 0 .. SourceLimit, tool : 0 .. ToolLimit],
           bought \in [source : Nat, tool : Nat],
           Paid, NEW n \in {1, 2}, spent.tool + n <= ToolLimit, UseTool(n)
    PROVE  /\ spent' \in [source : 0 .. SourceLimit, tool : 0 .. ToolLimit]
           /\ bought' \in [source : Nat, tool : Nat]
           /\ Paid' /\ (UsedUp => UsedUp')
<1>0. /\ spent.source \in 0 .. SourceLimit /\ spent.tool \in 0 .. ToolLimit
      /\ bought.source \in Nat /\ bought.tool \in Nat
      /\ SourceLimit \in Nat /\ ToolLimit \in Nat
  BY Numbers
<1>1. /\ spent' = [source |-> spent.source, tool |-> spent.tool + n]
      /\ bought' = [source |-> bought.source, tool |-> bought.tool + n]
  BY DEF UseTool
<1>2. spent.tool + n \in 0 .. ToolLimit /\ bought.tool + n \in Nat
  BY <1>0
<1>3. spent' \in [source : 0 .. SourceLimit, tool : 0 .. ToolLimit]
  BY <1>0, <1>1, <1>2
<1>4. bought' \in [source : Nat, tool : Nat]
  BY <1>0, <1>1, <1>2
<1>5. Paid' /\ (UsedUp => UsedUp')
  BY <1>0, <1>1 DEF Paid, UsedUp
<1> QED BY <1>3, <1>4, <1>5

\* A source that is read becomes a gap or a finding.
LEMMA ExtractKeeps == ASSUME IInv, Extract PROVE IInv'
<1>0. PICK x \in unread :
        unread' = unread \ {x} /\ IF x \in Paper THEN ExtractByDoi(x) ELSE ExtractFile(x)
  BY DEF Extract
<1>1. /\ stage \in {"extract", "uploads_extract", "user_extract", "kb_extract"}
      /\ UNCHANGED <<stage, asked, todo, answers, late, outcome, appended, crashes>>
  BY DEF Extract, NextStage
<1>2. /\ x \in Source /\ x \in Item
      /\ unread \subseteq Source /\ gaps \subseteq Source /\ found \subseteq Source
      /\ db \in Database /\ durable \in Database
      /\ spent \in [source : 0 .. SourceLimit, tool : 0 .. ToolLimit]
      /\ bought \in [source : Nat, tool : Nat]
      /\ Paid
  BY TypeFacts DEF IInv, Data, SourcesInv, BudgetInv, Source, Item
<1>3. /\ durable' \in {durable, db}
      /\ \/ gaps' = gaps \cup {x} /\ found' = found /\ db' = db
         \/ gaps' = gaps /\ found' = found \cup {x}
            /\ db' = [db EXCEPT !.findings = @ \cup {x}]
  BY <1>0 DEF ExtractByDoi, ExtractFile, Gap, KeepFinding, Commit
<1>4. /\ spent' \in [source : 0 .. SourceLimit, tool : 0 .. ToolLimit]
      /\ bought' \in [source : Nat, tool : Nat]
      /\ Paid' /\ (UsedUp => UsedUp')
  <2>1. CASE UNCHANGED <<spent, bought>>
    BY <1>2, <2>1 DEF Paid, UsedUp
  <2>2. CASE spent.tool < ToolLimit /\ UseTool(1)
    <3>1. spent.tool + 1 <= ToolLimit
      BY <1>2, <2>2, Numbers
    <3> QED BY <1>2, <2>2, <3>1, ToolKeeps
  <2>3. CASE spent.tool + 1 < ToolLimit /\ UseTool(2)
    <3>1. spent.tool + 2 <= ToolLimit
      BY <1>2, <2>3, Numbers
    <3> QED BY <1>2, <2>3, <3>1, ToolKeeps
  <2> QED BY <1>0, <2>1, <2>2, <2>3 DEF ExtractByDoi, ExtractFile
<1>5. /\ db'.rows = db.rows /\ db.findings \subseteq db'.findings
      /\ db' \in Database /\ durable' \in Database
      /\ db'.findings \subseteq db.findings \cup {x}
      /\ db' # db => x \in found'
  BY <1>2, <1>3 DEF Database, Source
<1>6. AcqTypeOK'
  <2>1. unread' \subseteq Item /\ gaps' \subseteq Item /\ found' \subseteq Item
    BY <1>0, <1>2, <1>3 DEF Source, Item
  <2> QED BY <1>1, <1>4, <1>5, <2>1 DEF IInv, AcqTypeOK
<1>7. Control'
  BY <1>1
  DEF IInv, Control, TodoInv, PapersInv, TextsInv, FilesInv, UserInv, Handled,
      AfterRequests, AfterUploads, AfterUser, AfterKb
<1>8. Data'
  <2>1. SourcesInv' /\ AppendedInv' /\ ReadInv'
    BY <1>0, <1>1, <1>2, <1>3 DEF SourcesInv, AppendedInv, ReadInv
  <2>2. FindingsInv'
    <3> SUFFICES ASSUME crashes = 0 PROVE FindingsInv'
      BY <1>1 DEF FindingsInv
    <3>1. db.findings \subseteq found
          /\ \A r \in db.rows : r.item \in found \cup gaps \cup unread
      BY DEF IInv, Data, FindingsInv
    <3>2. db'.findings \subseteq found'
      BY <1>3, <1>5, <3>1
    <3>3. found \cup gaps \cup unread \subseteq found' \cup gaps' \cup unread'
      BY <1>0, <1>3
    <3> QED BY <1>5, <3>1, <3>2, <3>3 DEF FindingsInv
  <2>3. BudgetInv'
    BY <1>1, <1>4 DEF IInv, Data, BudgetInv
  <2>4. RowsInv'
    BY <1>3, <1>5 DEF IInv, Data, RowsInv, OneRowPerPaper
  <2> QED BY <2>1, <2>2, <2>3, <2>4 DEF Data
<1> QED BY <1>6, <1>7, <1>8 DEF IInv

LEMMA RecordKeeps == ASSUME IInv, Record PROVE IInv'
<1>1. /\ stage = "report" /\ stage' = "done" /\ durable' = db
      /\ appended' = [found   |-> found,
                      gaps    |-> gaps \cup Holes(outcome),
                      outcome |-> {x \in Item : outcome[x] # {}}]
      /\ UNCHANGED <<asked, todo, answers, late, outcome, unread, gaps, found, spent,
                     bought, db, crashes>>
  BY DEF Record, Commit
<1>2. AcqTypeOK'
  <2>1. appended'.found \subseteq Item /\ appended'.gaps \subseteq Item
    BY <1>1, TypeFacts DEF IInv, Holes, Item
  <2> QED BY <1>1, <2>1 DEF IInv, AcqTypeOK
<1>3. Control'
  BY <1>1
  DEF IInv, Control, TodoInv, PapersInv, TextsInv, FilesInv, UserInv, Handled,
      AfterRequests, AfterUploads, AfterUser, AfterKb
<1>4. Data'
  <2>1. AppendedInv'
    BY <1>1 DEF AppendedInv, Handled, Holes, Missed
  <2>2. SourcesInv' /\ FindingsInv' /\ ReadInv' /\ RowsInv'
    BY <1>1 DEF IInv, Data, SourcesInv, FindingsInv, ReadInv, RowsInv, OneRowPerPaper
  <2>3. BudgetInv'
    BY <1>1 DEF IInv, Data, BudgetInv, Paid, UsedUp
  <2> QED BY <2>1, <2>2, <2>3 DEF Data
<1> QED BY <1>2, <1>3, <1>4 DEF IInv

\* A new pass, after a crash: the session sees what is committed.
LEMMA CrashKeeps == ASSUME IInv, Crash PROVE IInv'
<1>1. /\ crashes < MaxCrashes /\ crashes' = crashes + 1 /\ FreshPass
      /\ db' = durable /\ UNCHANGED <<durable, appended>>
  BY DEF Crash
<1>2. crashes' \in 0 .. MaxCrashes /\ crashes' # 0
  BY <1>1, TypeFacts, Numbers DEF IInv
<1>3. NoSpend \in [source : 0 .. SourceLimit, tool : 0 .. ToolLimit]
      /\ NoSpend \in [source : Nat, tool : Nat]
  BY Numbers DEF NoSpend
<1>4. AcqTypeOK'
  BY <1>1, <1>2, <1>3 DEF IInv, AcqTypeOK, FreshPass
<1>5. Control'
  BY <1>1
  DEF FreshPass, Control, TodoInv, PapersInv, TextsInv, FilesInv, UserInv,
      AfterRequests, AfterUploads, AfterUser, AfterKb
<1>6. Data'
  <2>1. SourcesInv' /\ AppendedInv' /\ FindingsInv' /\ ReadInv'
    BY <1>1, <1>2 DEF FreshPass, SourcesInv, AppendedInv, FindingsInv, ReadInv
  <2>2. BudgetInv'
    BY <1>1 DEF FreshPass, NoSpend, BudgetInv, Paid
  <2>3. RowsInv'
    BY <1>1 DEF IInv, Data, RowsInv, OneRowPerPaper
  <2> QED BY <2>1, <2>2, <2>3 DEF Data
<1> QED BY <1>4, <1>5, <1>6 DEF IInv

LEMMA StartsWell == AcqInit => IInv
<1> SUFFICES ASSUME AcqInit PROVE IInv
  OBVIOUS
<1>1. AcqTypeOK
  <2>1. /\ NoSpend \in [source : 0 .. SourceLimit, tool : 0 .. ToolLimit]
        /\ NoSpend \in [source : Nat, tool : Nat]
        /\ 0 \in 0 .. MaxCrashes
    BY Numbers DEF NoSpend
  <2>2. [rows |-> {}, findings |-> {}] \in Database
    BY DEF Database
  <2>3. answers \in [Text -> Paper \cup {"none", "sent", "miss", "timeout"}]
        /\ outcome \in [Item -> SUBSET Outcomes]
    BY DEF AcqInit
  <2>4. appended.found \subseteq Item /\ appended.gaps \subseteq Item
    BY DEF AcqInit, NothingAppended
  <2> QED BY <2>1, <2>2, <2>3, <2>4 DEF AcqInit, AcqTypeOK
<1>2. Control
  BY DEF AcqInit, Control, TodoInv, PapersInv, TextsInv, FilesInv, UserInv,
         AfterRequests, AfterUploads, AfterUser, AfterKb
<1>3. Data
  BY DEF AcqInit, Data, SourcesInv, AppendedInv, FindingsInv, ReadInv, BudgetInv, Paid,
         NoSpend, RowsInv, OneRowPerPaper
<1> QED BY <1>1, <1>2, <1>3 DEF IInv

LEMMA StepsKeep == IInv /\ [AcqNext]_acqVars => IInv'
<1> SUFFICES ASSUME IInv, [AcqNext]_acqVars PROVE IInv'
  OBVIOUS
<1>1. CASE UNCHANGED acqVars
  <2>1. AcqTypeOK'
    BY <1>1 DEF IInv, acqVars, AcqTypeOK
  <2>2. Control'
    BY <1>1
    DEF IInv, acqVars, Control, TodoInv, PapersInv, TextsInv, FilesInv, UserInv, Handled
  <2>3. Data'
    BY <1>1
    DEF IInv, acqVars, Data, SourcesInv, AppendedInv, FindingsInv, ReadInv, BudgetInv,
        Paid, UsedUp, RowsInv, OneRowPerPaper, Handled, Holes, Missed
  <2> QED BY <2>1, <2>2, <2>3 DEF IInv
<1>2. CASE AcqNext
  BY <1>2, BeginKeeps, LookupKeeps, LookupsDoneKeeps, PlanKeeps, PlanDoneKeeps,
     SearchKeeps, SearchDoneKeeps, ReadKeeps, ReadDoneKeeps, ExtractKeeps,
     ExtractDoneKeeps, TakeFileKeeps, UserLookupKeeps, StockDoneKeeps, RecordKeeps,
     DeadlineKeeps, CrashKeeps, Zenon DEF AcqNext
<1> QED BY <1>1, <1>2

LEMMA AcquisitionInvariant == AcqSpec => []IInv
BY StartsWell, StepsKeep, PTL DEF AcqSpec

-----------------------------------------------------------------------------
\* One fetch per paper, however many seats asked: however the seats' DOIs, the searches,
\* the researcher's own list and the passes of interrupted workers are interleaved, an
\* item has one row of `sources` (the lookup before every insert in acquire,
\* acquire_dois and the file intake).
THEOREM OneFetchPerPaper == AcqSpec => []OneRowPerPaper
<1>1. IInv => OneRowPerPaper
  BY DEF IInv, Data, RowsInv
<1> QED BY <1>1, AcquisitionInvariant, PTL

\* A budget of N buys exactly N (BudgetTracker): the paid calls of a pass stay within
\* both limits, and none is refused for the budget while both have calls left, although
\* _spend keeps the source charge of a request the tool budget then refuses.
THEOREM BudgetIsSpentWhole == AcqSpec => []BudgetBuysExactlyN
<1>1. IInv => BudgetBuysExactlyN
  <2> SUFFICES ASSUME IInv PROVE BudgetBuysExactlyN
    OBVIOUS
  <2>1. /\ spent.source \in 0 .. SourceLimit /\ spent.tool \in 0 .. ToolLimit
        /\ bought.source \in Nat /\ bought.tool \in Nat
    BY TypeFacts DEF IInv
  <2>2. bought.source <= SourceLimit /\ bought.tool <= ToolLimit
    BY <2>1, Numbers DEF IInv, Data, BudgetInv, Paid
  <2> QED BY <2>2 DEF IInv, Data, BudgetInv, UsedUp, BudgetBuysExactlyN
<1> QED BY <1>1, AcquisitionInvariant, PTL

\* A recorded pass accounts for everything it was asked for (each DOI, text, listed
\* paper and file has an outcome, and what could not be had is a slot of the run, never
\* a miss of an adversarial search) and, in a run that was never interrupted, for every
\* source it read and every finding row it wrote.
THEOREM PassAccountsForWhatItWasAsked == AcqSpec => []AcquisitionIsAccountedFor
<1>1. IInv => NothingAskedVanishes
  <2> SUFFICES ASSUME IInv, stage = "done" PROVE NothingAskedVanishes
    BY DEF NothingAskedVanishes
  <2>1. /\ appended.gaps = gaps \cup Holes(outcome)
        /\ appended.outcome = {x \in Item : Handled(x)}
    BY DEF IInv, Data, AppendedInv
  <2>2. asked \subseteq Paper \cup Text /\ outcome \in [Item -> SUBSET Outcomes]
    BY TypeFacts DEF IInv
  <2>3. \A x \in asked \cup UserDois \cup Upload \cup KbDoc : x \in Item /\ Handled(x)
    BY <2>2, AcquisitionAssumption
    DEF IInv, Control, PapersInv, TextsInv, FilesInv, UserInv, Item,
        AfterRequests, AfterUploads, AfterUser, AfterKb
  <2>4. ASSUME NEW x \in asked \ Adversarial, outcome[x] \cap {"fresh", "known"} = {}
        PROVE  x \in appended.gaps
    <3>1. outcome[x] # {} /\ outcome[x] \subseteq Outcomes /\ x \in Paper \cup Text
      BY <2>2, <2>3 DEF Handled
    <3>2. Missed(outcome, x)
      BY <2>4, <3>1 DEF Missed, Outcomes
    <3> QED BY <2>1, <3>1, <3>2 DEF Holes
  <2>5. appended.gaps \cap Adversarial = {}
    BY <2>1, AcquisitionAssumption DEF IInv, Data, SourcesInv, Source, Holes
  <2> QED BY <2>1, <2>3, <2>4, <2>5 DEF NothingAskedVanishes
<1>2. IInv => UninterruptedPassRecordsItsFindings
  BY DEF IInv, Data, AppendedInv, FindingsInv, ReadInv,
         UninterruptedPassRecordsItsFindings
<1>3. IInv => AcquisitionIsAccountedFor
  BY <1>1, <1>2 DEF AcquisitionIsAccountedFor, IInv
<1> QED BY <1>3, AcquisitionInvariant, PTL

-----------------------------------------------------------------------------
(***************************************************************************)
(* PART 2.  The report: catalogues.  An item is numbered within its kind,  *)
(* so that no two have the same id.                                        *)
(***************************************************************************)

\* The dimensions of the spine.
Keys == ToSet(DimensionKeys)

\* What an item can be.
ItemKinds == DOMAIN DefaultDimension

\* An item is identified by its kind and its number within it.
ItemId == ItemKinds \X Nat

\* The rows a catalogue is made of.
PaperRow == {r \in [kind : ItemKinds, seat : STRING, text : DOMAIN Leaders, stance : STRING,
               strong : BOOLEAN, section : STRING] :
           r.kind = "judgment" => r.stance \in ToSet(STANCES)}

\* An item of a catalogue: its id names its kind, and a judgment takes a stance.
PaperItem == {i \in [id : ItemId, kind : ItemKinds, text : DOMAIN Leaders, seat : STRING,
                stance : STRING] :
           /\ i.kind = "judgment" => i.stance \in ToSet(STANCES)
           /\ i.id[1] = i.kind}

\* No two items have the same id, and those of a kind are numbered up to their number.
Numbered(items) ==
    /\ items \in Seq(PaperItem)
    /\ \A i, j \in DOMAIN items : items[i].id = items[j].id => i = j
    /\ \A i \in DOMAIN items : items[i].id[2] \in 1 .. Len(OfKind(items, items[i].kind))

\* A catalogue of a paper.
Catalogue == {items \in Seq(PaperItem) : Numbered(items)}

\* Of what is of a kind there is one more when one more is.
LEMMA OneMoreOfKind ==
    ASSUME NEW items \in Seq(PaperItem), NEW x \in PaperItem, NEW kind
    PROVE  /\ Len(OfKind(items, kind)) \in Nat
           /\ Len(OfKind(Append(items, x), kind))
                 = Len(OfKind(items, kind)) + (IF x.kind = kind THEN 1 ELSE 0)
<1> DEFINE more == Append(items, x)
           old == {r \in ToSet(items) : r.kind = kind}
           new == {r \in ToSet(more) : r.kind = kind}
<1>1. more \in Seq(PaperItem) /\ Range(more) = Range(items) \cup {x}
  BY RangeAppend
<1>2. ToSet(items) = Range(items) /\ ToSet(more) = Range(more)
  BY DEF ToSet, Range
<1>3. Chosen(items, old) = Chosen(items, new)
  <2>1. Range(items) \cap old = Range(items) \cap new
    BY <1>1, <1>2
  <2> HIDE DEF old, new
  <2> QED BY <2>1, ChosenAlike
<1>4. x \in new <=> x.kind = kind
  BY <1>1, <1>2
<1>5. OfKind(items, kind) = Chosen(items, old) /\ OfKind(more, kind) = Chosen(more, new)
  BY DEF OfKind
<1> HIDE DEF old, new, more
<1>6. Chosen(items, new) \in Seq(PaperItem)
  BY ChosenType
<1>7. Chosen(more, new) = IF x \in new THEN Append(Chosen(items, new), x) ELSE Chosen(items, new)
  BY ChosenAppend DEF more
<1>8. Len(Append(Chosen(items, new), x)) = Len(Chosen(items, new)) + 1
  BY <1>6
<1> QED BY <1>3, <1>4, <1>5, <1>6, <1>7, <1>8 DEF more

\* One more row.
Add(items, r) ==
    IF \E i \in DOMAIN items : items[i].text = r.text THEN items
    ELSE Append(items, [id |-> <<r.kind, Len(OfKind(items, r.kind)) + 1>>, kind |-> r.kind,
                        text |-> r.text, seat |-> r.seat, stance |-> r.stance])

\* A catalogue stays one.
LEMMA AddNumbers ==
    ASSUME NEW items \in Catalogue, NEW r \in PaperRow
    PROVE  Add(items, r) \in Catalogue
<1> DEFINE L == Len(OfKind(items, r.kind))
           x == [id |-> <<r.kind, L + 1>>, kind |-> r.kind, text |-> r.text, seat |-> r.seat,
                 stance |-> r.stance]
           more == Append(items, x)
<1>1. items \in Seq(PaperItem) /\ Numbered(items)
  BY DEF Catalogue
<1>2. CASE \E i \in DOMAIN items : items[i].text = r.text
  BY <1>2 DEF Add
<1>3. CASE ~ \E i \in DOMAIN items : items[i].text = r.text
  <2>0. Add(items, r) = more
    BY <1>3 DEF Add
  <2>1. L \in Nat
    <3>1. items = <<>> \/ items # <<>>
      OBVIOUS
    <3>2. OfKind(items, r.kind) \in Seq(PaperItem)
      BY <1>1, ChosenType DEF OfKind
    <3> QED BY <3>2
  <2>2. x \in PaperItem
    <3>1. <<r.kind, L + 1>> \in ItemId
      BY <2>1 DEF PaperRow, ItemId
    <3> HIDE DEF L
    <3> QED BY <3>1 DEF PaperRow, PaperItem
  <2>3. x.kind = r.kind /\ x.id[1] = r.kind /\ x.id[2] = L + 1
    OBVIOUS
  <2>4. \A kind : Len(OfKind(items, kind)) \in Nat /\
            Len(OfKind(more, kind)) = Len(OfKind(items, kind)) + (IF x.kind = kind THEN 1 ELSE 0)
    <3> HIDE DEF x
    <3> QED BY <1>1, <2>2, OneMoreOfKind
  <2> HIDE DEF x
  <2>5. /\ more \in Seq(PaperItem) /\ DOMAIN more = 1 .. Len(items) + 1
        /\ more[Len(items) + 1] = x /\ Len(items) \in Nat /\ DOMAIN items = 1 .. Len(items)
        /\ \A i \in 1 .. Len(items) : more[i] = items[i]
    BY <1>1, <2>2
  <2> HIDE DEF more
  <2>6. \A i \in DOMAIN items : items[i] \in PaperItem
    BY <1>1
  <2>7. \A i \in DOMAIN more : more[i].id[2] \in 1 .. Len(OfKind(more, more[i].kind))
    <3> SUFFICES ASSUME NEW i \in DOMAIN more
                 PROVE  more[i].id[2] \in 1 .. Len(OfKind(more, more[i].kind))
      OBVIOUS
    <3>1. CASE i = Len(items) + 1
      <4>1. Len(OfKind(more, r.kind)) = L + 1
        BY <2>3, <2>4
      <4> HIDE DEF L
      <4> QED BY <2>1, <2>3, <2>5, <3>1, <4>1
    <3>2. CASE i # Len(items) + 1
      <4>1. i \in DOMAIN items /\ more[i] = items[i]
        BY <2>5, <3>2
      <4>2. items[i].id[2] \in 1 .. Len(OfKind(items, items[i].kind))
        BY <1>1, <4>1 DEF Numbered
      <4>3. /\ Len(OfKind(items, items[i].kind)) \in Nat
            /\ Len(OfKind(more, items[i].kind)) \in Nat
            /\ Len(OfKind(items, items[i].kind)) <= Len(OfKind(more, items[i].kind))
        BY <2>4
      <4> QED BY <4>1, <4>2, <4>3
    <3> QED BY <3>1, <3>2
  <2>8. \A i \in DOMAIN items : items[i].id # x.id
    <3> SUFFICES ASSUME NEW i \in DOMAIN items, items[i].id = x.id PROVE FALSE
      OBVIOUS
    <3>1. items[i].id[1] = items[i].kind
      BY <2>6 DEF PaperItem
    <3>2. items[i].kind = r.kind /\ items[i].id[2] = L + 1
      BY <2>3, <3>1
    <3>3. items[i].id[2] \in 1 .. L
      BY <1>1, <3>2 DEF Numbered
    <3> HIDE DEF L
    <3> QED BY <2>1, <3>2, <3>3
  <2>9. \A i, j \in DOMAIN more : more[i].id = more[j].id => i = j
    <3> SUFFICES ASSUME NEW i \in DOMAIN more, NEW j \in DOMAIN more, more[i].id = more[j].id
                 PROVE  i = j
      OBVIOUS
    <3>1. CASE i \in DOMAIN items /\ j \in DOMAIN items
      BY <1>1, <2>5, <3>1 DEF Numbered
    <3>2. CASE i \notin DOMAIN items \/ j \notin DOMAIN items
      BY <2>5, <2>8, <3>2
    <3> QED BY <3>1, <3>2
  <2> QED BY <2>0, <2>5, <2>7, <2>9 DEF Numbered, Catalogue
<1> QED BY <1>2, <1>3

\* One more row, as a function.
Adding == [items \in Catalogue |-> [r \in PaperRow |-> Add(items, r)]]

\* The recursive function of Catalog, as an equation.
Catalogued(f, rows) ==
    f = [n \in 0 .. Len(rows) |-> IF n = 0 THEN <<>> ELSE Add(f[n - 1], rows[n])]

\* An empty catalogue is one.
LEMMA NoItems == <<>> \in Catalogue
<1>1. <<>> \in Seq(PaperItem) /\ DOMAIN <<>> = {}
  OBVIOUS
<1> QED BY <1>1 DEF Catalogue, Numbered

\* There is a function that satisfies it.
LEMMA CatalogueExists ==
    ASSUME NEW rows \in Seq(PaperRow)
    PROVE  /\ Advances(Adding, Catalogue, PaperRow) /\ ReadsFrom(rows, Len(rows), PaperRow)
           /\ \E f : Catalogued(f, rows)
<1>1. Advances(Adding, Catalogue, PaperRow)
  BY AddNumbers DEF Advances, Adding
<1>2. Len(rows) \in Nat /\ ReadsFrom(rows, Len(rows), PaperRow)
  BY DEF ReadsFrom
<1>3. PICK f \in [0 .. Len(rows) -> Catalogue] : FoldedTo(f, <<>>, Adding, rows, Len(rows))
  <2>1. Foldable(Catalogue, <<>>, Adding, rows, Len(rows))
    BY <1>1, <1>2, NoItems, FoldExists
  <2> QED BY <2>1 DEF Foldable
<1>4. f[0] = <<>> /\ \A n \in 1 .. Len(rows) : f[n] = Add(f[n - 1], rows[n])
  <2>1. f[0] = <<>> /\ \A n \in 1 .. Len(rows) : f[n] = Adding[f[n - 1]][rows[n]]
    BY <1>3 DEF FoldedTo
  <2>2. \A n \in 1 .. Len(rows) : f[n - 1] \in Catalogue /\ rows[n] \in PaperRow
    BY <1>2
  <2> QED BY <2>1, <2>2 DEF Adding
<1>5. Catalogued(f, rows)
  <2>1. \A n \in 0 .. Len(rows) : f[n] = IF n = 0 THEN <<>> ELSE Add(f[n - 1], rows[n])
    BY <1>2, <1>4
  <2> QED BY <2>1 DEF Catalogued
<1> QED BY <1>1, <1>2, <1>5

\* Whatever rows there are, the items of the catalogue have ids of their own.
LEMMA CatalogIsNumbered ==
    ASSUME NEW rows \in Seq(PaperRow)
    PROVE  Catalog(rows) \in Catalogue
<1>1. \E f : Catalogued(f, rows)
  BY CatalogueExists
<1> DEFINE g == CHOOSE f : Catalogued(f, rows)
<1>2. Catalogued(g, rows)
  BY <1>1
<1>3. Catalog(rows) = g[Len(rows)]
  BY DEF Catalog, Catalogued, Add
<1> HIDE DEF g
<1>4. Len(rows) \in Nat /\ g[0] = <<>> /\ \A n \in 1 .. Len(rows) : g[n] = Add(g[n - 1], rows[n])
  BY <1>2 DEF Catalogued
<1>5. \A n \in 1 .. Len(rows) : g[n - 1] \in Catalogue => g[n] = Adding[g[n - 1]][rows[n]]
  <2>1. \A n \in 1 .. Len(rows) : rows[n] \in PaperRow
    OBVIOUS
  <2> QED BY <1>4, <2>1 DEF Adding
<1>6. \A n \in 0 .. Len(rows) : g[n] \in Catalogue
  <2>1. Advances(Adding, Catalogue, PaperRow) /\ ReadsFrom(rows, Len(rows), PaperRow)
    BY CatalogueExists
  <2>2. Follows(g, Catalogue, <<>>, Adding, rows, Len(rows))
    BY <1>4, <1>5 DEF Follows
  <2> QED BY <1>4, <2>1, <2>2, NoItems, FoldTyped
<1> QED BY <1>3, <1>4, <1>6

-----------------------------------------------------------------------------
(* What is chosen from a catalogue, and the question every item is about. *)

\* Elements of items, in whatever order.
PartOf(some, items) == some \in Seq(PaperItem) /\ ToSet(some) \subseteq ToSet(items)

\* What is chosen of it, its beginning, two of them, and the ids of its elements.
LEMMA Parts ==
    ASSUME NEW items \in Seq(PaperItem)
    PROVE  /\ PartOf(items, items)
           /\ \A some, T : PartOf(some, items) =>
                 PartOf(Chosen(some, T), items) /\ ToSet(Chosen(some, T)) = ToSet(some) \cap T
           /\ \A some : PartOf(some, items) => \A n \in Nat : PartOf(UpTo(some, n), items)
           /\ \A a, b : PartOf(a, items) /\ PartOf(b, items) => PartOf(a \o b, items)
           /\ \A some : PartOf(some, items) => Ids(some) \subseteq Ids(items)
<1>1. PartOf(items, items)
  BY DEF PartOf
<1>2. ASSUME NEW some, NEW T, PartOf(some, items)
      PROVE  PartOf(Chosen(some, T), items) /\ ToSet(Chosen(some, T)) = ToSet(some) \cap T
  <2>1. some \in Seq(PaperItem)
    BY <1>2 DEF PartOf
  <2>2. Chosen(some, T) \in Seq(PaperItem) /\ Range(Chosen(some, T)) = Range(some) \cap T
    BY <2>1, ChosenType, ChosenHas
  <2>3. \A s : ToSet(s) = Range(s)
    BY DEF ToSet, Range
  <2> QED BY <1>2, <2>2, <2>3 DEF PartOf
<1>3. ASSUME NEW some, PartOf(some, items), NEW n \in Nat
      PROVE  PartOf(UpTo(some, n), items)
  <2>1. some \in Seq(PaperItem) /\ Len(some) \in Nat /\ DOMAIN some = 1 .. Len(some)
    BY <1>3 DEF PartOf
  <2> DEFINE m == IF Len(some) < n THEN Len(some) ELSE n
  <2>2. m \in Nat /\ m <= Len(some) /\ UpTo(some, n) = SubSeq(some, 1, m)
    <3>1. m \in Nat /\ m <= Len(some)
      BY <1>3, <2>1
    <3> QED BY <3>1 DEF UpTo
  <2> HIDE DEF m
  <2>3. SubSeq(some, 1, m) \in Seq(PaperItem) /\ DOMAIN SubSeq(some, 1, m) = 1 .. m
        /\ \A i \in 1 .. m : SubSeq(some, 1, m)[i] = some[i] /\ i \in DOMAIN some
    BY <2>1, <2>2
  <2> QED BY <1>3, <2>2, <2>3 DEF PartOf, ToSet
<1>4. ASSUME NEW a, NEW b, PartOf(a, items), PartOf(b, items) PROVE PartOf(a \o b, items)
  <2>1. a \in Seq(PaperItem) /\ b \in Seq(PaperItem) /\ a \o b \in Seq(PaperItem)
    BY <1>4 DEF PartOf
  <2>2. Range(a \o b) = Range(a) \cup Range(b)
    BY <2>1, RangeOfBoth
  <2>3. \A s : ToSet(s) = Range(s)
    BY DEF ToSet, Range
  <2> QED BY <1>4, <2>1, <2>2, <2>3 DEF PartOf
<1>5. ASSUME NEW some, PartOf(some, items) PROVE Ids(some) \subseteq Ids(items)
  <2> SUFFICES ASSUME NEW i \in DOMAIN some PROVE some[i].id \in Ids(items)
    BY DEF Ids
  <2>1. PICK j \in DOMAIN items : items[j] = some[i]
    BY <1>5 DEF PartOf, ToSet
  <2> QED BY <2>1 DEF Ids
<1> QED BY <1>1, <1>2, <1>3, <1>4, <1>5

\* The id of an item is that of no other.
LEMMA IdsTell ==
    ASSUME NEW items \in Catalogue
    PROVE  /\ items \in Seq(PaperItem) /\ Ids(items) \subseteq ItemId
           /\ \A i \in ToSet(items) : i \in PaperItem /\ i.id \in Ids(items)
           /\ \A some : PartOf(some, items) =>
                 \A i \in ToSet(items) : i.id \in Ids(some) <=> i \in ToSet(some)
<1>1. items \in Seq(PaperItem) /\ \A i, j \in DOMAIN items : items[i].id = items[j].id => i = j
  BY DEF Catalogue, Numbered
<1>2. \A i \in DOMAIN items : items[i] \in PaperItem
  BY <1>1
<1>3. Ids(items) \subseteq ItemId
  BY <1>2 DEF Ids, PaperItem
<1>4. \A i \in ToSet(items) : i \in PaperItem /\ i.id \in Ids(items)
  BY <1>2 DEF Ids, ToSet
<1>5. ASSUME NEW some, PartOf(some, items), NEW i \in ToSet(items), i.id \in Ids(some)
      PROVE  i \in ToSet(some)
  <2>1. PICK n \in DOMAIN some : some[n].id = i.id
    BY <1>5 DEF Ids
  <2>2. PICK k \in DOMAIN items : items[k] = some[n]
    BY <1>5 DEF PartOf, ToSet
  <2>3. PICK j \in DOMAIN items : items[j] = i
    BY <1>5 DEF ToSet
  <2>4. j = k
    BY <1>1, <2>1, <2>2, <2>3
  <2> QED BY <2>2, <2>3, <2>4 DEF ToSet
<1>6. \A some : \A i \in ToSet(some) : i.id \in Ids(some)
  BY DEF ToSet, Ids
<1> QED BY <1>1, <1>3, <1>4, <1>5, <1>6

\* The six questions.
LEMMA Spine ==
    /\ Len(DIMENSIONS) = 6 /\ DOMAIN DIMENSIONS = 1 .. 6 /\ DOMAIN DimensionKeys = 1 .. 6
    /\ \A n \in 1 .. 6 : DimensionKeys[n] = DIMENSIONS[n].key /\ DIMENSIONS[n].key \in Keys
    /\ \A n, m \in 1 .. 6 : DIMENSIONS[n].key = DIMENSIONS[m].key => n = m
    /\ \A key \in Keys : \E n \in 1 .. 6 : DIMENSIONS[n].key = key
    /\ \A key \in Keys : Rank(key) \in 1 .. 6 /\ DimensionKeys[Rank(key)] = key
    /\ \A kind \in ItemKinds : DefaultDimension[kind] \in Keys
<1>1. /\ Len(DIMENSIONS) = 6 /\ DOMAIN DIMENSIONS = 1 .. 6
      /\ DIMENSIONS[1].key = "evidence" /\ DIMENSIONS[2].key = "measurement"
      /\ DIMENSIONS[3].key = "robustness" /\ DIMENSIONS[4].key = "causality"
      /\ DIMENSIONS[5].key = "boundary" /\ DIMENSIONS[6].key = "mechanism"
  BY DEF DIMENSIONS
<1>2. DOMAIN DimensionKeys = 1 .. 6 /\ \A n \in 1 .. 6 : DimensionKeys[n] = DIMENSIONS[n].key
  BY <1>1 DEF DimensionKeys
<1>3. \A n \in 1 .. 6 : DIMENSIONS[n].key \in Keys
  BY <1>2 DEF Keys, ToSet
<1>4. \A n, m \in 1 .. 6 : DIMENSIONS[n].key = DIMENSIONS[m].key => n = m
  <2>1. \A n \in 1 .. 6 : n = 1 \/ n = 2 \/ n = 3 \/ n = 4 \/ n = 5 \/ n = 6
    OBVIOUS
  <2> QED BY <1>1, <2>1
<1>5. \A key \in Keys : \E n \in 1 .. 6 : DimensionKeys[n] = key
  BY <1>2 DEF Keys, ToSet
<1>6. \A key \in Keys : Rank(key) \in 1 .. 6 /\ DimensionKeys[Rank(key)] = key
  BY <1>2, <1>5 DEF Rank
<1>7. \A kind \in ItemKinds : DefaultDimension[kind] \in Keys
  <2>1. /\ DIMENSIONS[1].key \in Keys /\ DIMENSIONS[4].key \in Keys
        /\ DIMENSIONS[5].key \in Keys /\ DIMENSIONS[6].key \in Keys
    BY <1>3
  <2> QED BY <1>1, <2>1 DEF ItemKinds, DefaultDimension
<1> QED BY <1>1, <1>2, <1>3, <1>4, <1>5, <1>6, <1>7

\* Every item is about one of them.
LEMMA Classified ==
    ASSUME NEW item \in PaperItem
    PROVE  Classify(item) \in Keys
<1>1. item.kind \in ItemKinds /\ item.text \in DOMAIN Leaders
  BY DEF PaperItem
<1>2. DefaultDimension[item.kind] \in Keys
  BY <1>1, Spine
<1>3. Leaders[item.text] \subseteq Keys
  BY <1>1, RecordedRowAssumption DEF Keys
<1>4. CASE Leaders[item.text] = {} \/ DefaultDimension[item.kind] \in Leaders[item.text]
  BY <1>2, <1>4 DEF Classify
<1>5. CASE Leaders[item.text] # {} /\ DefaultDimension[item.kind] \notin Leaders[item.text]
  <2> DEFINE T == {Rank(key) : key \in Leaders[item.text]}
  <2>1. T \in SUBSET Nat /\ T # {}
    BY <1>3, <1>5, Spine
  <2>2. PICK n \in T : \A m \in T : n <= m
    <3> HIDE DEF T
    <3> QED BY <2>1, LeastNumber
  <2>3. PICK key \in Leaders[item.text] : Rank(key) = n
    BY <2>2
  <2>4. \A other \in Leaders[item.text] : Rank(key) <= Rank(other)
    BY <2>2, <2>3
  <2>5. Classify(item) = CHOOSE k \in Leaders[item.text] :
                            \A other \in Leaders[item.text] : Rank(k) <= Rank(other)
    BY <1>5 DEF Classify
  <2>6. Classify(item) \in Leaders[item.text]
    BY <2>3, <2>4, <2>5
  <2> QED BY <1>3, <2>6
<1> QED BY <1>4, <1>5

-----------------------------------------------------------------------------
(* The map filed without a model: its positions and its steps. *)

\* A position of a map.
PositionSet == [stance : ToSet(STANCES), refs : SUBSET ItemId]

\* A step of a map.
Step == [dimension : Keys, refs : SUBSET ItemId, related : SUBSET ItemId]

\* Both sides are laid out, with every judgment under the stance it takes.
LEMMA PositionsFiled ==
    ASSUME NEW items \in Catalogue
    PROVE  LET all == DeterministicPositions(items)
           IN  /\ all \subseteq PositionSet
               /\ \A p \in all : p.refs \subseteq Ids(items)
               /\ \A i \in ToSet(items) : i.kind = "judgment" => \E p \in all : i.id \in p.refs
               /\ all # {} => BothSides \subseteq {p.stance : p \in all}
<1> DEFINE judgments == OfKind(items, "judgment")
           challenges == OfKind(items, "challenge")
           Holders(stance) == Chosen(judgments, {i \in ToSet(judgments) : i.stance = stance})
           seats(stance) == {h.seat : h \in ToSet(Holders(stance))}
           raised(stance) == Chosen(challenges, {i \in ToSet(challenges) :
                                (i.seat \in seats(stance)) = (stance # "affirmative")})
           refs(stance) == Ids(Holders(stance)) \cup Ids(UpTo(raised(stance), ShownPerField))
           chosen == {s \in ToSet(STANCES) : s \in BothSides \/ Holders(s) # <<>>}
           all == IF judgments = <<>> THEN {}
                  ELSE {[stance |-> stance, refs |-> refs(stance)] : stance \in chosen}
<1>1. DeterministicPositions(items) = all
  BY DEF DeterministicPositions
<1>2. items \in Seq(PaperItem) /\ Ids(items) \subseteq ItemId
  BY IdsTell
<1>3. /\ PartOf(items, items)
      /\ \A some, T : PartOf(some, items) =>
            PartOf(Chosen(some, T), items) /\ ToSet(Chosen(some, T)) = ToSet(some) \cap T
      /\ \A some : PartOf(some, items) => \A n \in Nat : PartOf(UpTo(some, n), items)
      /\ \A some : PartOf(some, items) => Ids(some) \subseteq Ids(items)
  BY <1>2, Parts
<1>4. /\ PartOf(judgments, items) /\ PartOf(challenges, items)
      /\ ToSet(judgments) = {i \in ToSet(items) : i.kind = "judgment"}
  BY <1>3 DEF OfKind
<1> HIDE DEF judgments, challenges
<1>5. \A s : PartOf(Holders(s), items)
             /\ ToSet(Holders(s)) = {i \in ToSet(judgments) : i.stance = s}
  BY <1>3, <1>4
<1>6. \A s : PartOf(raised(s), items)
  <2> HIDE DEF seats
  <2> QED BY <1>3, <1>4
<1> HIDE DEF raised, seats, Holders
<1>7. \A s : refs(s) \subseteq Ids(items)
  <2>1. ShownPerField \in Nat
    BY ReportAssumption
  <2>2. \A s : PartOf(UpTo(raised(s), ShownPerField), items)
    BY <1>3, <1>6, <2>1
  <2> QED BY <1>3, <1>5, <2>2
<1>8. ToSet(STANCES) = {"affirmative", "negative", "conditional", "undetermined"}
  BY DEF STANCES, ToSet
<1>9. ASSUME NEW i \in ToSet(items), i.kind = "judgment"
      PROVE  \E p \in all : i.id \in p.refs
  <2>1. i \in PaperItem /\ i.stance \in ToSet(STANCES)
    BY <1>9, IdsTell DEF PaperItem
  <2>2. i \in ToSet(judgments) /\ i \in ToSet(Holders(i.stance))
    BY <1>4, <1>5, <1>9
  <2>3. judgments # <<>> /\ Holders(i.stance) # <<>>
    <3>1. ToSet(<<>>) = {}
      BY DEF ToSet
    <3> QED BY <2>2, <3>1
  <2>4. i.id \in Ids(Holders(i.stance))
    BY <2>2 DEF Ids, ToSet
  <2>5. i.stance \in chosen /\ i.id \in refs(i.stance)
    BY <2>1, <2>3, <2>4
  <2> HIDE DEF refs, chosen
  <2>6. [stance |-> i.stance, refs |-> refs(i.stance)] \in all
    BY <2>3, <2>5, Zenon
  <2> HIDE DEF all
  <2>7. i.id \in [stance |-> i.stance, refs |-> refs(i.stance)].refs
    BY <2>5
  <2> QED BY <2>6, <2>7, Zenon
<1>10. BothSides \subseteq chosen
  BY <1>8 DEF BothSides
<1>11. all # {} => BothSides \subseteq {p.stance : p \in all}
  <2> HIDE DEF refs, chosen
  <2> SUFFICES ASSUME all # {}, NEW s \in BothSides PROVE \E p \in all : p.stance = s
    BY Zenon
  <2>1. judgments # <<>> /\ s \in chosen
    BY <1>10
  <2>2. [stance |-> s, refs |-> refs(s)] \in all
    BY <2>1
  <2> QED BY <2>2
<1>12. all \subseteq PositionSet /\ \A p \in all : p.refs \subseteq Ids(items)
  <2>1. chosen \subseteq ToSet(STANCES)
    BY Zenon
  <2> HIDE DEF refs, chosen
  <2> SUFFICES ASSUME NEW p \in all PROVE p \in PositionSet /\ p.refs \subseteq Ids(items)
    OBVIOUS
  <2>2. PICK s \in chosen : p = [stance |-> s, refs |-> refs(s)]
    OBVIOUS
  <2>3. refs(s) \subseteq Ids(items) /\ s \in ToSet(STANCES)
    BY <1>7, <2>1
  <2> QED BY <1>2, <2>2, <2>3 DEF PositionSet
<1> HIDE DEF all
<1> QED BY <1>1, <1>9, <1>11, <1>12

\* A step of the spine has to do with the items of its question.
LEMMA StepFiled ==
    ASSUME NEW items \in Catalogue, NEW d \in ToSet(DIMENSIONS)
    PROVE  LET s == DeterministicStep(d, items)
           IN  /\ s \in Step /\ s.dimension = d.key
               /\ s.refs \cup s.related \subseteq Ids(items)
               /\ \A i \in ToSet(items) : i.kind # "judgment" /\ Classify(i) = d.key
                                             => i.id \in s.refs \cup s.related
               /\ \A i \in ToSet(items) : i.id \in s.related
                                             => i.kind # "judgment" /\ Classify(i) = d.key
<1> DEFINE pool == Chosen(items, {i \in ToSet(items) :
                                    i.kind # "judgment" /\ Classify(i) = d.key})
           Pool(kinds) == Chosen(pool, {i \in ToSet(pool) : i.kind \in kinds})
           Of(seat) == {i \in ToSet(items) : i.kind = "judgment" /\ i.seat = seat}
           owners == {Last(Chosen(items, Of(seat))).id : seat \in {s \in d.seats : Of(s) # {}}}
           shown == Ids(Pool({"dissent"}))
                      \cup Ids(UpTo(Pool({"finding"}), ShownPerField))
                      \cup Ids(UpTo(Pool({"boundary"}) \o Pool({"challenge"}), ShownPerField))
                      \cup Ids(UpTo(Pool({"blindspot", "conflict"}), ShownPerField))
                      \cup Ids(UpTo(Pool({"test", "study"}), 1))
           step == [dimension |-> d.key, refs |-> owners \cup shown,
                    related |-> Ids(pool) \ shown]
<1>1. DeterministicStep(d, items) = step
  BY DEF DeterministicStep, Folded
<1>2. /\ items \in Seq(PaperItem) /\ Ids(items) \subseteq ItemId
      /\ \A i \in ToSet(items) : i.id \in Ids(items)
  BY IdsTell
<1>3. /\ PartOf(items, items)
      /\ \A some, T : PartOf(some, items) =>
            PartOf(Chosen(some, T), items) /\ ToSet(Chosen(some, T)) = ToSet(some) \cap T
      /\ \A some : PartOf(some, items) => \A n \in Nat : PartOf(UpTo(some, n), items)
      /\ \A a, b : PartOf(a, items) /\ PartOf(b, items) => PartOf(a \o b, items)
      /\ \A some : PartOf(some, items) => Ids(some) \subseteq Ids(items)
  BY <1>2, Parts
<1>4. /\ PartOf(pool, items)
      /\ ToSet(pool) = {i \in ToSet(items) : i.kind # "judgment" /\ Classify(i) = d.key}
  BY <1>3
<1> HIDE DEF pool
<1>5. \A kinds : PartOf(Pool(kinds), items)
  BY <1>3, <1>4
<1> HIDE DEF Pool
<1>6. shown \subseteq Ids(items)
  <2>1. ShownPerField \in Nat /\ 1 \in Nat
    BY ReportAssumption
  <2>2. /\ PartOf(UpTo(Pool({"finding"}), ShownPerField), items)
        /\ PartOf(UpTo(Pool({"blindspot", "conflict"}), ShownPerField), items)
        /\ PartOf(UpTo(Pool({"test", "study"}), 1), items)
    BY <1>3, <1>5, <2>1
  <2>3. PartOf(UpTo(Pool({"boundary"}) \o Pool({"challenge"}), ShownPerField), items)
    <3>1. PartOf(Pool({"boundary"}) \o Pool({"challenge"}), items)
      BY <1>3, <1>5
    <3> QED BY <1>3, <2>1, <3>1
  <2> QED BY <1>3, <1>5, <2>2, <2>3
<1> HIDE DEF shown
<1>7. owners \subseteq Ids(items)
  <2> SUFFICES ASSUME NEW seat, Of(seat) # {}
               PROVE  Last(Chosen(items, Of(seat))).id \in Ids(items)
    OBVIOUS
  <2>1. PartOf(Chosen(items, Of(seat)), items)
        /\ ToSet(Chosen(items, Of(seat))) = Of(seat)
    BY <1>3
  <2> DEFINE c == Chosen(items, Of(seat))
  <2>2. c \in Seq(PaperItem) /\ ToSet(c) # {} /\ ToSet(c) \subseteq ToSet(items)
    BY <2>1 DEF PartOf
  <2> HIDE DEF c
  <2>3. Len(c) \in DOMAIN c
    BY <2>2 DEF ToSet
  <2>4. Last(c) \in ToSet(items)
    BY <2>2, <2>3 DEF Last, ToSet
  <2> QED BY <1>2, <2>4 DEF c
<1> HIDE DEF owners
<1>8. d.key \in Keys
  <2>1. \A n \in DOMAIN DIMENSIONS : DIMENSIONS[n].key \in Keys
    BY Spine
  <2> QED BY <2>1 DEF ToSet
<1>9. Ids(pool) \subseteq Ids(items)
  BY <1>3, <1>4
<1>10. step \in Step /\ step.dimension = d.key /\ step.refs \cup step.related \subseteq Ids(items)
  BY <1>2, <1>6, <1>7, <1>8, <1>9 DEF Step
<1>11. \A i \in ToSet(items) : i.id \in Ids(pool) <=> i \in ToSet(pool)
  BY <1>4, IdsTell
<1>12. step.refs = owners \cup shown /\ step.related = Ids(pool) \ shown
  OBVIOUS
<1> HIDE DEF step
<1>13. \A i \in ToSet(items) : i.kind # "judgment" /\ Classify(i) = d.key
                                 => i.id \in step.refs \cup step.related
  BY <1>4, <1>11, <1>12
<1>14. \A i \in ToSet(items) : i.id \in step.related
                                 => i.kind # "judgment" /\ Classify(i) = d.key
  BY <1>4, <1>11, <1>12
<1> QED BY <1>1, <1>10, <1>13, <1>14

-----------------------------------------------------------------------------
(***************************************************************************)
(* Maps that file every item.                                              *)
(***************************************************************************)

\* A stored map.
MapSet == [mode : {"deterministic", "model"}, items : Catalogue, cited : SUBSET ItemId,
           positions : SUBSET PositionSet, steps : Seq(Step), unassigned : SUBSET ItemId]

\* What the steps of a map file without citing it.
FoldedIn(m) == UNION {m.steps[n].related : n \in DOMAIN m.steps}

\* The steps that file an item.
FoldedAt(m, id) == {n \in DOMAIN m.steps : id \in m.steps[n].related}

\* If sides are laid out, both are.
BothLaidOut(positions) == positions # {} => BothSides \subseteq {p.stance : p \in positions}

\* A map that files every item but, perhaps, the judgments.
MapOK(m) ==
    /\ m \in MapSet /\ BothLaidOut(m.positions)
    /\ CitedIn(m) \cup FoldedIn(m) \cup m.unassigned \subseteq Ids(m.items)
    /\ \A i \in ToSet(m.items) : i.kind # "judgment" =>
          /\ i.id \in CitedIn(m) \cup FoldedIn(m) \cup m.unassigned
          /\ \A n, k \in FoldedAt(m, i.id) : n = k
          /\ i.id \in m.unassigned => FoldedAt(m, i.id) = {}

\* One that cites the judgments, too.
JudgmentsCited(m) == \A i \in ToSet(m.items) : i.kind = "judgment" => i.id \in CitedIn(m)

\* A set without two elements.
LEMMA AtMostOne ==
    ASSUME NEW S, \A x, y \in S : x = y
    PROVE  Cardinality(S) <= 1
<1>1. CASE S = {}
  BY <1>1, FS_EmptySet
<1>2. CASE S # {}
  <2>1. PICK x \in S : TRUE
    BY <1>2
  <2>2. S = {x}
    BY <2>1
  <2> QED BY <2>2, FS_Singleton
<1> QED BY <1>1, <1>2

\* Such a map is filed.
LEMMA MapIsFiled ==
    ASSUME NEW m, MapOK(m), m.mode = "deterministic" => JudgmentsCited(m)
    PROVE  Filed(m)
<1>1. \A i \in ToSet(m.items) : i.kind # "judgment" => Cardinality(FoldedAt(m, i.id)) <= 1
  BY AtMostOne DEF MapOK
<1>2. /\ CitedIn(m) \cup FoldedIn(m) \cup m.unassigned \subseteq Ids(m.items)
      /\ \A i \in ToSet(m.items) : i.kind # "judgment" =>
            /\ i.id \in CitedIn(m) \cup FoldedIn(m) \cup m.unassigned
            /\ i.id \in m.unassigned => FoldedAt(m, i.id) = {}
      /\ m.positions # {} => BothSides \subseteq {p.stance : p \in m.positions}
  BY DEF MapOK, BothLaidOut
<1>3. \A i \in ToSet(m.items) :
         i.kind = "judgment" => (m.mode = "deterministic" => i.id \in CitedIn(m))
  BY DEF JudgmentsCited
<1> QED BY <1>1, <1>2, <1>3 DEF Filed, FoldedIn, FoldedAt

\* The positions of a map are replaced by those its judgments take.
LEMMA PositionsReplaced ==
    ASSUME NEW m, MapOK(m), m.positions = {}
    PROVE  LET new == [m EXCEPT !.positions = DeterministicPositions(m.items)]
           IN  MapOK(new) /\ JudgmentsCited(new)
<1> DEFINE positions == DeterministicPositions(m.items)
           new == [m EXCEPT !.positions = positions]
<1>1. m \in MapSet /\ m.items \in Catalogue
  BY DEF MapOK, MapSet
<1>2. /\ positions \subseteq PositionSet
      /\ \A p \in positions : p.refs \subseteq Ids(m.items)
      /\ \A i \in ToSet(m.items) : i.kind = "judgment" => \E p \in positions : i.id \in p.refs
      /\ BothLaidOut(positions)
  BY <1>1, PositionsFiled DEF BothLaidOut
<1> HIDE DEF positions
<1>3. /\ new.items = m.items /\ new.cited = m.cited /\ new.steps = m.steps
      /\ new.unassigned = m.unassigned /\ new.positions = positions /\ new \in MapSet
  BY <1>1, <1>2 DEF MapSet
<1> HIDE DEF new
<1>4. CitedIn(new) = CitedIn(m) \cup UNION {p.refs : p \in positions}
  BY <1>3 DEF CitedIn
<1>5. FoldedIn(new) = FoldedIn(m) /\ \A id : FoldedAt(new, id) = FoldedAt(m, id)
  BY <1>3 DEF FoldedIn, FoldedAt
<1>6. UNION {p.refs : p \in positions} \subseteq Ids(m.items)
  BY <1>2
<1>7. MapOK(new)
  BY <1>2, <1>3, <1>4, <1>5, <1>6 DEF MapOK
<1>8. JudgmentsCited(new)
  <2> SUFFICES ASSUME NEW i \in ToSet(m.items), i.kind = "judgment" PROVE i.id \in CitedIn(new)
    BY <1>3 DEF JudgmentsCited
  <2>1. PICK p \in positions : i.id \in p.refs
    BY <1>2
  <2> QED BY <1>4, <2>1
<1> QED BY <1>7, <1>8 DEF new, positions

\* The map filed without a model.
LEMMA DeterministicMapFiled ==
    ASSUME NEW items \in Catalogue
    PROVE  LET m == DeterministicMap(items)
           IN  /\ MapOK(m) /\ JudgmentsCited(m) /\ m.items = items /\ m.mode = "deterministic"
               /\ MapOK([m EXCEPT !.positions = {}])
<1> DEFINE all == [n \in DOMAIN DIMENSIONS |-> DeterministicStep(DIMENSIONS[n], items)]
           T == {s \in ToSet(all) : s.refs # {} \/ s.related # {}}
           steps == Chosen(all, T)
           m == [mode |-> "deterministic", items |-> items, cited |-> {},
                 positions |-> {}, steps |-> steps, unassigned |-> {}]
           positioned == [m EXCEPT !.positions = DeterministicPositions(m.items)]
<1>1. DeterministicMap(items) = positioned /\ [positioned EXCEPT !.positions = {}] = m
      /\ positioned.items = items /\ positioned.mode = "deterministic"
  <2>1. DeterministicMap(items) = [mode |-> "deterministic", items |-> items, cited |-> {},
          positions |-> DeterministicPositions(items), steps |-> steps, unassigned |-> {}]
    BY DEF DeterministicMap
  <2> HIDE DEF steps
  <2>2. m.items = items
    OBVIOUS
  <2>3. positioned = [m EXCEPT !.positions = DeterministicPositions(items)]
    BY <2>2, Zenon
  <2>4. positioned = [mode |-> "deterministic", items |-> items, cited |-> {},
          positions |-> DeterministicPositions(items), steps |-> steps, unassigned |-> {}]
    BY <2>3
  <2> HIDE DEF positioned
  <2>5. [positioned EXCEPT !.positions = {}] = m
    BY <2>4
  <2> QED BY <2>1, <2>4, <2>5
<1>2. \A n \in 1 .. 6 : DIMENSIONS[n] \in ToSet(DIMENSIONS)
  BY Spine DEF ToSet
<1>3. \A n \in 1 .. 6 :
          /\ all[n] \in Step /\ all[n].dimension = DIMENSIONS[n].key
          /\ all[n].refs \cup all[n].related \subseteq Ids(items)
          /\ \A i \in ToSet(items) : i.kind # "judgment" /\ Classify(i) = DIMENSIONS[n].key
                                        => i.id \in all[n].refs \cup all[n].related
          /\ \A i \in ToSet(items) : i.id \in all[n].related
                                        => i.kind # "judgment" /\ Classify(i) = DIMENSIONS[n].key
  <2>1. \A d \in ToSet(DIMENSIONS) : LET s == DeterministicStep(d, items)
           IN  /\ s \in Step /\ s.dimension = d.key
               /\ s.refs \cup s.related \subseteq Ids(items)
               /\ \A i \in ToSet(items) : i.kind # "judgment" /\ Classify(i) = d.key
                                             => i.id \in s.refs \cup s.related
               /\ \A i \in ToSet(items) : i.id \in s.related
                                             => i.kind # "judgment" /\ Classify(i) = d.key
    BY StepFiled
  <2>2. \A n \in 1 .. 6 : all[n] = DeterministicStep(DIMENSIONS[n], items)
    BY Spine
  <2> HIDE DEF all
  <2> QED BY <1>2, <2>1, <2>2
<1>4. all \in Seq(Step) /\ DOMAIN all = 1 .. 6
  <2>1. DOMAIN all = 1 .. 6 /\ all = [n \in 1 .. 6 |-> all[n]]
    BY Spine
  <2> HIDE DEF all
  <2>2. all \in [1 .. 6 -> Step]
    BY <1>3, <2>1
  <2> QED BY <2>1, <2>2
<1> HIDE DEF all
<1>5. IsInjective(all)
  <2> SUFFICES ASSUME NEW a \in 1 .. 6, NEW b \in 1 .. 6, all[a] = all[b] PROVE a = b
    BY <1>4 DEF IsInjective
  <2>1. DIMENSIONS[a].key = DIMENSIONS[b].key
    BY <1>3
  <2> QED BY <2>1, Spine
<1>6. /\ steps \in Seq(Step) /\ IsInjective(steps)
      /\ ToSet(steps) = T
  <2>1. \A x : ToSet(x) = Range(x)
    BY DEF ToSet, Range
  <2> HIDE DEF T
  <2>2. Range(steps) = Range(all) \cap T
    BY <1>4, ChosenHas
  <2>3. T \subseteq ToSet(all)
    BY DEF T
  <2> QED BY <1>4, <1>5, <2>1, <2>2, <2>3, ChosenType, ChosenInjective
<1>7. \A n \in DOMAIN steps : \E a \in 1 .. 6 : steps[n] = all[a]
  <2>1. \A n \in DOMAIN steps : steps[n] \in ToSet(all)
    <3> HIDE DEF steps
    <3> QED BY <1>6 DEF ToSet
  <2> QED BY <1>4, <2>1 DEF ToSet
<1>8. \A a \in 1 .. 6 : all[a].refs # {} \/ all[a].related # {} =>
                           \E n \in DOMAIN steps : steps[n] = all[a]
  <2> SUFFICES ASSUME NEW a \in 1 .. 6, all[a].refs # {} \/ all[a].related # {}
               PROVE  \E n \in DOMAIN steps : steps[n] = all[a]
    OBVIOUS
  <2>1. all[a] \in T
    BY <1>4 DEF ToSet
  <2> HIDE DEF T, steps
  <2> QED BY <1>6, <2>1 DEF ToSet
<1> HIDE DEF steps
<1>10. /\ m \in MapSet /\ m.items = items /\ m.mode = "deterministic" /\ m.unassigned = {}
       /\ m.steps = steps /\ m.positions = {} /\ m.cited = {} /\ BothLaidOut(m.positions)
  BY <1>6 DEF MapSet, BothLaidOut
<1> DEFINE bySteps == UNION {steps[n].refs : n \in DOMAIN steps}
           folded == UNION {steps[n].related : n \in DOMAIN steps}
<1> HIDE DEF positioned, m
<1>11. CitedIn(m) = bySteps
  <2>1. UNION {p.refs : p \in m.positions} = {}
    BY <1>10
  <2>2. UNION {m.steps[n].refs : n \in DOMAIN m.steps} = bySteps
    BY <1>10
  <2> HIDE DEF bySteps
  <2>3. CitedIn(m) = m.cited \cup {} \cup bySteps
    BY <2>1, <2>2 DEF CitedIn
  <2> QED BY <1>10, <2>3
<1>12. \A n \in DOMAIN steps : steps[n].refs \cup steps[n].related \subseteq Ids(items)
  BY <1>3, <1>7
<1>13. FoldedIn(m) = folded
       /\ \A id : FoldedAt(m, id) = {n \in DOMAIN steps : id \in steps[n].related}
  BY <1>10 DEF FoldedIn, FoldedAt
<1>14. CitedIn(m) \cup FoldedIn(m) \cup m.unassigned \subseteq Ids(m.items)
  <2>1. \A n \in DOMAIN steps :
           steps[n].refs \subseteq Ids(items) /\ steps[n].related \subseteq Ids(items)
    BY <1>12
  <2>2. bySteps \subseteq Ids(items) /\ folded \subseteq Ids(items)
    BY <2>1
  <2> HIDE DEF bySteps, folded
  <2> QED BY <1>10, <1>11, <1>13, <2>2
<1>15. ASSUME NEW i \in ToSet(items), i.kind # "judgment"
       PROVE  /\ i.id \in CitedIn(m) \cup FoldedIn(m)
              /\ \A n, k \in FoldedAt(m, i.id) : n = k
  <2>1. i \in PaperItem
    BY IdsTell
  <2>2. PICK a \in 1 .. 6 : DIMENSIONS[a].key = Classify(i)
    BY <2>1, Classified, Spine
  <2>3. i.id \in all[a].refs \cup all[a].related
    BY <1>3, <1>15, <2>2
  <2>4. PICK n \in DOMAIN steps : steps[n] = all[a]
    BY <1>8, <2>3
  <2>5. i.id \in CitedIn(m) \cup FoldedIn(m)
    <3>1. steps[n].refs \subseteq bySteps /\ steps[n].related \subseteq folded
      BY <2>4
    <3> HIDE DEF bySteps, folded
    <3> QED BY <1>11, <1>13, <2>3, <2>4, <3>1
  <2>6. ASSUME NEW k \in FoldedAt(m, i.id) PROVE k \in DOMAIN steps /\ steps[k] = all[a]
    <3>1. k \in DOMAIN steps /\ i.id \in steps[k].related
      BY <1>13
    <3>2. PICK b \in 1 .. 6 : steps[k] = all[b]
      BY <1>7, <3>1
    <3>3. Classify(i) = DIMENSIONS[b].key
      BY <1>3, <3>1, <3>2
    <3>4. a = b
      BY <2>2, <3>3, Spine
    <3> QED BY <3>1, <3>2, <3>4
  <2>7. \A k, l \in FoldedAt(m, i.id) : k = l
    BY <1>6, <2>6 DEF IsInjective
  <2> QED BY <2>5, <2>7
<1>16. MapOK(m)
  BY <1>10, <1>14, <1>15 DEF MapOK
<1>17. MapOK(positioned) /\ JudgmentsCited(positioned)
  BY <1>10, <1>16, PositionsReplaced DEF positioned
<1> QED BY <1>1, <1>16, <1>17

-----------------------------------------------------------------------------
(* The map the model writes. *)

\* A step as the model has written it.
PlainStep(refs) == [dimension : Keys, refs : refs]

\* A map before what it does not cite has been filed.
Unfiled(items) ==
    [mode : {"model"}, items : {items}, cited : SUBSET Ids(items),
     positions : SUBSET [stance : ToSet(STANCES), refs : SUBSET Ids(items)],
     steps : Seq(PlainStep(SUBSET Ids(items))), unassigned : {{}}]

\* Whatever it cites, what it does not cite is filed, once.
LEMMA UncitedFiled ==
    ASSUME NEW items \in Catalogue, NEW m \in Unfiled(items), BothLaidOut(m.positions)
    PROVE  LET new == FileUncited(m, items)
           IN  /\ MapOK(new) /\ new.mode = "model"
               /\ new.positions = m.positions /\ new.items = items
<1> DEFINE uncited == {i \in ToSet(items) : i.kind # "judgment" /\ i.id \notin CitedIn(m)}
           First(key) == {n \in DOMAIN m.steps :
                            /\ m.steps[n].dimension = key
                            /\ \A k \in 1 .. n - 1 : m.steps[k].dimension # key}
           related(n) == {i.id : i \in {u \in uncited : n \in First(Classify(u))}}
           steps == [n \in DOMAIN m.steps |->
                       [dimension |-> m.steps[n].dimension, refs |-> m.steps[n].refs,
                        related |-> related(n)]]
           rest == {i.id : i \in {u \in uncited : First(Classify(u)) = {}}}
           new == [m EXCEPT !.steps = steps, !.unassigned = rest]
<1>1. FileUncited(m, items) = new
  BY DEF FileUncited, Rest
<1>2. /\ m.mode = "model" /\ m.items = items /\ m.cited \in SUBSET Ids(items)
      /\ m.positions \in SUBSET [stance : ToSet(STANCES), refs : SUBSET Ids(items)]
      /\ m.steps \in Seq(PlainStep(SUBSET Ids(items))) /\ m.unassigned = {}
      /\ m = [mode |-> m.mode, items |-> m.items, cited |-> m.cited, positions |-> m.positions,
              steps |-> m.steps, unassigned |-> m.unassigned]
  BY DEF Unfiled
<1>3. /\ items \in Seq(PaperItem) /\ Ids(items) \subseteq ItemId
      /\ \A i \in ToSet(items) : i \in PaperItem /\ i.id \in Ids(items)
      /\ \A i, j \in ToSet(items) : i.id = j.id => i = j
  <2>1. \A i, j \in DOMAIN items : items[i].id = items[j].id => i = j
    BY DEF Catalogue, Numbered
  <2>2. \A i, j \in ToSet(items) : i.id = j.id => i = j
    BY <2>1 DEF ToSet
  <2> QED BY <2>2, IdsTell
<1>4. /\ DOMAIN m.steps = 1 .. Len(m.steps) /\ Len(m.steps) \in Nat
      /\ \A n \in DOMAIN m.steps :
            m.steps[n].dimension \in Keys /\ m.steps[n].refs \subseteq Ids(items)
  <2>1. \A n \in DOMAIN m.steps : m.steps[n] \in PlainStep(SUBSET Ids(items))
    BY <1>2
  <2> QED BY <1>2, <2>1 DEF PlainStep
<1> HIDE DEF uncited
<1>5. \A n \in DOMAIN m.steps : related(n) \subseteq Ids(items)
  BY <1>3 DEF uncited
<1>6. rest \subseteq Ids(items)
  BY <1>3 DEF uncited
<1>7. steps \in Seq(Step) /\ DOMAIN steps = DOMAIN m.steps
  <2>1. \A n \in DOMAIN m.steps : steps[n] \in Step
    <3> HIDE DEF related
    <3> QED BY <1>3, <1>4, <1>5 DEF Step
  <2>2. DOMAIN steps = DOMAIN m.steps /\ steps = [n \in 1 .. Len(m.steps) |-> steps[n]]
    BY <1>4
  <2> HIDE DEF steps
  <2>3. steps \in [1 .. Len(m.steps) -> Step]
    BY <1>4, <2>1, <2>2
  <2> QED BY <1>4, <2>2, <2>3
<1>8. \A n \in DOMAIN m.steps : steps[n].refs = m.steps[n].refs /\ steps[n].related = related(n)
  <2> HIDE DEF related
  <2> QED OBVIOUS
<1> HIDE DEF steps
<1>9. m.positions \in SUBSET PositionSet
  BY <1>2, <1>3 DEF PositionSet
<1> HIDE DEF rest
<1>10. /\ new.mode = "model" /\ new.items = items /\ new.steps = steps
       /\ new.cited = m.cited /\ new.positions = m.positions /\ new.unassigned = rest
  BY <1>2 DEF Unfiled
<1>11. new \in MapSet
  <2>1. m.cited \in SUBSET ItemId /\ rest \in SUBSET ItemId
    BY <1>2, <1>3, <1>6
  <2> QED BY <1>2, <1>7, <1>9, <2>1 DEF MapSet, Unfiled
<1> HIDE DEF new
<1>12. CitedIn(new) = CitedIn(m)
  <2>1. UNION {new.steps[n].refs : n \in DOMAIN new.steps}
          = UNION {m.steps[n].refs : n \in DOMAIN m.steps}
    BY <1>7, <1>8, <1>10
  <2> QED BY <1>10, <2>1, Zenon DEF CitedIn
<1>13. CitedIn(m) \subseteq Ids(items)
  <2>1. UNION {p.refs : p \in m.positions} \subseteq Ids(items)
    BY <1>2
  <2>2. UNION {m.steps[n].refs : n \in DOMAIN m.steps} \subseteq Ids(items)
    BY <1>4
  <2> QED BY <1>2, <2>1, <2>2 DEF CitedIn
<1>14. /\ FoldedIn(new) = UNION {related(n) : n \in DOMAIN m.steps}
       /\ \A id : FoldedAt(new, id) = {n \in DOMAIN m.steps : id \in related(n)}
  <2> HIDE DEF related
  <2> QED BY <1>7, <1>8, <1>10 DEF FoldedIn, FoldedAt
<1>15. FoldedIn(new) \subseteq Ids(items)
  <2> HIDE DEF related
  <2> QED BY <1>5, <1>14
<1>16. ASSUME NEW i \in ToSet(items), i.kind # "judgment"
       PROVE  /\ i.id \in CitedIn(new) \cup FoldedIn(new) \cup rest
              /\ \A n, k \in FoldedAt(new, i.id) : n = k
              /\ i.id \in rest => FoldedAt(new, i.id) = {}
  <2>1. \A n \in DOMAIN m.steps : i.id \in related(n) => i \in uncited /\ n \in First(Classify(i))
    <3>1. \A u \in uncited : u.id = i.id => u = i
      BY <1>3 DEF uncited
    <3> HIDE DEF First
    <3> QED BY <3>1
  <2>2. i.id \in rest => i \in uncited /\ First(Classify(i)) = {}
    <3>1. \A u \in uncited : u.id = i.id => u = i
      BY <1>3 DEF uncited
    <3> HIDE DEF First
    <3> QED BY <3>1 DEF rest
  <2>3. \A n, k \in First(Classify(i)) : n = k
    <3> SUFFICES ASSUME NEW n \in First(Classify(i)), NEW k \in First(Classify(i)) PROVE n = k
      OBVIOUS
    <3>1. n \in Nat /\ k \in Nat /\ n >= 1 /\ k >= 1
      BY <1>4
    <3>2. ~ (n < k) /\ ~ (k < n)
      BY <3>1
    <3> QED BY <3>1, <3>2
  <2>4. \A n, k \in FoldedAt(new, i.id) : n = k
    <3> HIDE DEF related, First
    <3> QED BY <1>14, <2>1, <2>3
  <2>5. i.id \in rest => FoldedAt(new, i.id) = {}
    <3> HIDE DEF related, First
    <3> QED BY <1>14, <2>1, <2>2
  <2>6. i.id \in CitedIn(new) \cup FoldedIn(new) \cup rest
    <3>1. CASE i.id \in CitedIn(m)
      BY <1>12, <3>1
    <3>2. CASE i \in uncited /\ First(Classify(i)) = {}
      <4> HIDE DEF First
      <4> QED BY <3>2 DEF rest
    <3>3. CASE i \in uncited /\ First(Classify(i)) # {}
      <4>1. PICK n \in DOMAIN m.steps : n \in First(Classify(i))
        BY <3>3
      <4> HIDE DEF First
      <4>2. i.id \in related(n)
        BY <3>3, <4>1
      <4> HIDE DEF related
      <4> QED BY <1>14, <4>1, <4>2
    <3>4. i.id \in CitedIn(m) \/ i \in uncited
      BY <1>16 DEF uncited
    <3> QED BY <3>1, <3>2, <3>3, <3>4
  <2> QED BY <2>4, <2>5, <2>6
<1>17. MapOK(new)
  BY <1>6, <1>10, <1>11, <1>12, <1>13, <1>15, <1>16 DEF MapOK
<1> QED BY <1>1, <1>10, <1>17

\* The steps sorted are steps.
LEMMA InOrderType ==
    ASSUME NEW S, NEW steps \in Seq(S)
    PROVE  InOrder(steps) \in Seq(S)
<1> DEFINE parts == [n \in DOMAIN DIMENSIONS |->
                       Chosen(steps, {s \in ToSet(steps) : s.dimension = DIMENSIONS[n].key})]
<1>1. InOrder(steps) = FlattenSeq(parts)
  BY DEF InOrder
<1>2. \A T : Chosen(steps, T) \in Seq(S)
  BY ChosenType
<1>3. \A n \in 1 .. 6 : parts[n] \in Seq(S)
  BY <1>2, Spine
<1>4. parts = [n \in 1 .. 6 |-> parts[n]]
  BY Spine
<1> HIDE DEF parts
<1> QED BY <1>1, <1>3, <1>4, FlattenParts

\* A map the model has written, whatever it has.
LEMMA ModelMapFiled ==
    ASSUME NEW items \in Catalogue, NEW reply \in Reply(items)
    PROVE  LET m == ParseModelMap(reply, items)
           IN  /\ MapOK(m) /\ m.mode = "model" /\ (era # "now" => m.positions = {})
               /\ m.items = items
<1> DEFINE known == [n \in DOMAIN reply.steps |->
                       [reply.steps[n] EXCEPT !.refs = KnownRefs(@, items)]]
           m == [mode |-> "model", items |-> items, cited |-> KnownRefs(reply.cited, items),
                 positions |-> ParsedPositions(reply.position, items),
                 steps |-> InOrder(known), unassigned |-> {}]
<1>1. ParseModelMap(reply, items) = FileUncited(m, items)
  BY DEF ParseModelMap
<1>2. \A refs : KnownRefs(refs, items) \in SUBSET Ids(items)
  BY DEF KnownRefs
<1> DEFINE D == PlainStep(Citable(items))
           Bare == {<<s>> : s \in BareStep}
<1>0. /\ reply.steps \in StepLists(items) \cup Bare \cup {<<>>}
      /\ reply.position \in {NoPosition} \cup Sides(items)
  <2> HIDE DEF Bare
  <2>1. reply \in [bottom_line : {"said"}, cited : {{}}, steps : StepLists(items),
                   position : {NoPosition}]
               \cup [bottom_line : {"said"}, cited : Citable(items), steps : Bare,
                     position : Sides(items)]
               \cup [bottom_line : {"said", ""}, cited : {{}}, steps : {<<>>},
                     position : {NoPosition}]
    BY DEF Reply, Bare
  <2> QED BY <2>1
<1>3. reply.steps \in Seq(D)
  <2>1. BareStep \subseteq D /\ WrittenStep(items) \subseteq D
    BY RecordedRowAssumption DEF Keys, BareStep, WrittenStep, PlainStep, Citable
  <2> HIDE DEF D
  <2>2. reply.steps = <<>> \/ (\E x \in D : reply.steps = <<x>>)
        \/ \E x, y \in D : reply.steps = <<x, y>>
    BY <1>0, <2>1 DEF StepLists
  <2>3. <<>> \in Seq(D) /\ (\A x \in D : <<x>> \in Seq(D)) /\ \A x, y \in D : <<x, y>> \in Seq(D)
    OBVIOUS
  <2> HIDE DEF D
  <2> QED BY <2>2, <2>3, Zenon
<1>4. reply.position = NoPosition
      \/ reply.position \in [stance : {"affirmative", "conditional"}, refs : Citable(items)]
  BY <1>0 DEF Sides
<1> HIDE DEF D, Bare
<1>5. known \in Seq(PlainStep(SUBSET Ids(items)))
  <2> DEFINE K == PlainStep(SUBSET Ids(items))
  <2> DEFINE R == Citable(items)
  <2>1. reply.steps \in Seq(PlainStep(R))
    BY <1>3 DEF D
  <2> HIDE DEF R
  <2>2. DOMAIN reply.steps = 1 .. Len(reply.steps) /\ Len(reply.steps) \in Nat
        /\ \A n \in DOMAIN reply.steps : reply.steps[n] \in PlainStep(R)
    BY <2>1
  <2>3. \A n \in DOMAIN reply.steps : known[n] \in PlainStep(SUBSET Ids(items))
    BY <1>2, <2>2 DEF PlainStep
  <2>4. DOMAIN known = DOMAIN reply.steps /\ known = [n \in 1 .. Len(reply.steps) |-> known[n]]
    BY <2>2
  <2> HIDE DEF known
  <2>5. known \in [1 .. Len(reply.steps) -> K]
    BY <2>2, <2>3, <2>4
  <2> HIDE DEF K
  <2>6. known \in Seq(K)
    BY <2>2, <2>5
  <2> QED BY <2>6 DEF K
<1> HIDE DEF known
<1>6. InOrder(known) \in Seq(PlainStep(SUBSET Ids(items)))
  BY <1>5, InOrderType
<1>7. /\ BothLaidOut(ParsedPositions(reply.position, items))
      /\ ParsedPositions(reply.position, items)
            \in SUBSET [stance : ToSet(STANCES), refs : SUBSET Ids(items)]
  <2>1. CASE reply.position = NoPosition \/ era # "now"
    BY <2>1 DEF ParsedPositions, BothLaidOut
  <2>2. CASE reply.position # NoPosition /\ era = "now"
    <3> DEFINE p == [reply.position EXCEPT !.refs = KnownRefs(@, items)]
               added == {[stance |-> side, refs |-> {}] :
                           side \in BothSides \ {reply.position.stance}}
    <3>1. ParsedPositions(reply.position, items) = {p} \cup added
      BY <2>2 DEF ParsedPositions
    <3>2. reply.position.stance \in {"affirmative", "conditional"}
          /\ p \in [stance : {"affirmative", "conditional"}, refs : SUBSET Ids(items)]
          /\ p.stance = reply.position.stance
      BY <1>2, <1>4, <2>2
    <3>3. ToSet(STANCES) = {"affirmative", "negative", "conditional", "undetermined"}
      BY DEF STANCES, ToSet
    <3>4. added \subseteq [stance : ToSet(STANCES), refs : SUBSET Ids(items)]
      BY <3>3 DEF BothSides
    <3>5. p \in [stance : ToSet(STANCES), refs : SUBSET Ids(items)]
      <4> HIDE DEF p
      <4> QED BY <3>2, <3>3
    <3>6. \A side \in BothSides : \E q \in {p} \cup added : q.stance = side
      <4> SUFFICES ASSUME NEW side \in BothSides PROVE \E q \in {p} \cup added : q.stance = side
        OBVIOUS
      <4>1. CASE side = reply.position.stance
        <5> HIDE DEF added, p
        <5> QED BY <3>2, <4>1
      <4>2. CASE side # reply.position.stance
        <5>1. [stance |-> side, refs |-> {}] \in added
          BY <4>2
        <5> HIDE DEF added, p
        <5> QED BY <5>1
      <4> QED BY <4>1, <4>2
    <3> HIDE DEF p, added
    <3> QED BY <3>1, <3>4, <3>5, <3>6 DEF BothLaidOut
  <2> QED BY <2>1, <2>2
<1>8. m \in Unfiled(items) /\ BothLaidOut(m.positions)
  BY <1>2, <1>6, <1>7 DEF Unfiled
<1>9. era # "now" => m.positions = {}
  BY DEF ParsedPositions
<1> HIDE DEF m
<1> QED BY <1>1, <1>8, <1>9, UncitedFiled

-----------------------------------------------------------------------------
(* What the paper is written from, and what a reader is shown of it. *)

\* The rows of a kind that the catalogue takes as they are.
LEMMA KindTyped ==
    ASSUME NEW rows \in Seq(RecordedRow), NEW kind \in NodeKinds \cup {"judgment", "challenge"}
    PROVE  OfKind(rows, kind) \in Seq(PaperRow)
<1> DEFINE T == {r \in ToSet(rows) : r.kind = kind}
<1>1. OfKind(rows, kind) = Chosen(rows, T)
  BY DEF OfKind
<1>2. T \subseteq PaperRow
  <2> SUFFICES ASSUME NEW r \in RecordedRow, r.kind = kind PROVE r \in PaperRow
    BY DEF ToSet
  <2>1. kind \in ItemKinds
    BY DEF NodeKinds, ItemKinds, DefaultDimension
  <2> QED BY <2>1, RecordedRowAssumption DEF PaperRow, CouncilRow
<1> HIDE DEF T
<1>3. Chosen(rows, T) \in Seq(RecordedRow) /\ Range(Chosen(rows, T)) \subseteq T
  BY ChosenType, ChosenHas
<1> QED BY <1>1, <1>2, <1>3, OfItsElements

\* Rows in another order are rows.
LEMMA StrongFirstTyped ==
    ASSUME NEW rows \in Seq(PaperRow)
    PROVE  StrongFirst(rows) \in Seq(PaperRow)
<1>1. \A T : Chosen(rows, T) \in Seq(PaperRow)
  BY ChosenType
<1> QED BY <1>1 DEF StrongFirst

\* The latest draft is a row of the catalogue.
LEMMA ConsensusTyped ==
    ASSUME recorded \in Seq(RecordedRow)
    PROVE  Consensus \in Seq(PaperRow)
<1> DEFINE T == {r \in ToSet(recorded) : r.kind = "consensus"}
           drafts == Chosen(recorded, T)
<1>1. drafts \in Seq(RecordedRow) /\ Range(drafts) \subseteq T
  <2> HIDE DEF T
  <2> QED BY ChosenType, ChosenHas
<1>2. Consensus = IF drafts = <<>> THEN <<>>
                  ELSE <<[Last(drafts) EXCEPT !.kind = Last(drafts).section]>>
  BY DEF Consensus, OfKind
<1> HIDE DEF drafts
<1>3. CASE drafts = <<>>
  BY <1>2, <1>3
<1>4. CASE drafts # <<>>
  <2>1. Last(drafts) \in RecordedRow /\ Last(drafts).kind = "consensus"
    <3>1. Len(drafts) \in DOMAIN drafts /\ Last(drafts) \in RecordedRow
      BY <1>1, <1>4 DEF Last
    <3>2. Last(drafts) \in T
      BY <1>1, <3>1 DEF Last, Range
    <3> QED BY <3>1, <3>2
  <2> DEFINE last == Last(drafts)
             row == [last EXCEPT !.kind = last.section]
  <2> HIDE DEF last
  <2>2. last \in CouncilRow /\ last.section \in {"boundary", "conflict", "test"}
    BY <2>1, RecordedRowAssumption DEF last
  <2>3. row.kind \in ItemKinds /\ row.kind # "judgment"
    BY <2>2 DEF CouncilRow, ItemKinds, DefaultDimension
  <2>4. row \in PaperRow
    BY <2>2, <2>3 DEF CouncilRow, PaperRow
  <2>5. Consensus = <<row>>
    BY <1>2, <1>4 DEF last
  <2> HIDE DEF row
  <2> QED BY <2>4, <2>5
<1> QED BY <1>3, <1>4

\* What the paper is written from, whatever the ledger and the graph hold.
LEMMA MaterialTyped ==
    ASSUME recorded \in Seq(RecordedRow), admitted \in 0 .. Len(recorded)
    PROVE  Material \in Seq(PaperRow)
<1>1. Graph \in Seq(RecordedRow)
  <2>1. \A i \in 1 .. admitted : recorded[i] \in RecordedRow
    OBVIOUS
  <2> QED BY <2>1, SubSeqProperties DEF Graph
<1>2. \A kind \in NodeKinds \cup {"judgment", "challenge"} :
          OfKind(recorded, kind) \in Seq(PaperRow) /\ OfKind(Graph, kind) \in Seq(PaperRow)
  BY <1>1, KindTyped
<1>3. /\ OfKind(recorded, "judgment") \in Seq(PaperRow)
      /\ OfKind(Graph, "finding") \in Seq(PaperRow)
      /\ OfKind(recorded, "challenge") \in Seq(PaperRow)
      /\ OfKind(Graph, "blindspot") \in Seq(PaperRow)
      /\ OfKind(Graph, "dissent") \in Seq(PaperRow) /\ OfKind(Graph, "study") \in Seq(PaperRow)
  BY <1>2 DEF NodeKinds
<1>4. /\ StrongFirst(OfKind(recorded, "challenge")) \in Seq(PaperRow)
      /\ StrongFirst(OfKind(Graph, "blindspot")) \in Seq(PaperRow)
  BY <1>3, StrongFirstTyped
<1>5. Consensus \in Seq(PaperRow)
  BY ConsensusTyped
<1>6. \A x, y \in Seq(PaperRow) : x \o y \in Seq(PaperRow)
  OBVIOUS
<1> QED BY <1>3, <1>4, <1>5, <1>6 DEF Material

\* A paper as it is stored: whole, or of a program that knew no maps, or no positions.
StoredOK(paper) ==
    paper.map # NoMap =>
        /\ MapOK(paper.map)
        /\ paper.positions /\ paper.map.mode = "deterministic" => JudgmentsCited(paper.map)
        /\ ~paper.positions => paper.map.positions = {}

\* A stored paper has these fields.
IsPaper(paper) ==
    \E map, positions, fallback, derived :
        paper = [map |-> map, positions |-> positions, fallback |-> fallback, derived |-> derived]

\* What is stored of a map that files everything.
LEMMA PayloadIsStored ==
    ASSUME NEW map, MapOK(map), map.mode = "deterministic" => JudgmentsCited(map),
           era # "now" => MapOK([map EXCEPT !.positions = {}]), NEW fallback
    PROVE  LET paper == Payload(map, fallback) IN IsPaper(paper) /\ StoredOK(paper)
<1> DEFINE kept == IF era = "before maps" THEN NoMap
                   ELSE IF era = "now" THEN map ELSE [map EXCEPT !.positions = {}]
           paper == Payload(map, fallback)
<1>1. paper.map = kept /\ (paper.positions <=> era = "now") /\ IsPaper(paper)
  <2>1. paper = [map |-> kept, positions |-> era = "now", fallback |-> fallback, derived |-> FALSE]
    BY Zenon DEF Payload
  <2> HIDE DEF kept, paper
  <2> QED BY <2>1 DEF IsPaper
<1>2. map \in MapSet
  BY DEF MapOK
<1>3. [map EXCEPT !.positions = {}].positions = {}
  BY <1>2 DEF MapSet
<1> HIDE DEF paper
<1> QED BY <1>1, <1>3 DEF StoredOK, paper

\* A reader is shown a map that files everything.
LEMMA ShownIsFiled ==
    ASSUME NEW paper, IsPaper(paper), StoredOK(paper),
           recorded \in Seq(RecordedRow), admitted \in 0 .. Len(recorded)
    PROVE  Filed(Shown(paper).map)
<1>0. PICK map, positions, fallback, derived :
         paper = [map |-> map, positions |-> positions, fallback |-> fallback, derived |-> derived]
  BY DEF IsPaper
<1>1. CASE paper.map = NoMap
  <2> DEFINE m == DeterministicMap(Catalog(Material))
  <2>1. Shown(paper).map = m
    <3> HIDE DEF m
    <3>1. Shown(paper) = [paper EXCEPT !.map = m, !.derived = TRUE, !.positions = TRUE]
      BY <1>1 DEF Shown, m
    <3> QED BY <1>0, <3>1
  <2>2. Catalog(Material) \in Catalogue
    BY MaterialTyped, CatalogIsNumbered
  <2>3. MapOK(m) /\ JudgmentsCited(m)
    BY <2>2, DeterministicMapFiled
  <2> HIDE DEF m
  <2> QED BY <2>1, <2>3, MapIsFiled
<1>2. CASE paper.map # NoMap /\ paper.positions
  <2>1. Shown(paper) = paper
    BY <1>2 DEF Shown
  <2> QED BY <1>2, <2>1, MapIsFiled DEF StoredOK
<1>3. CASE paper.map # NoMap /\ ~paper.positions
  <2> DEFINE m == [paper.map EXCEPT !.positions = DeterministicPositions(paper.map.items)]
  <2>1. MapOK(m) /\ JudgmentsCited(m)
    BY <1>3, PositionsReplaced DEF StoredOK
  <2>2. Shown(paper).map = m
    <3> DEFINE p == DeterministicPositions(paper.map.items)
    <3>1. Shown(paper) = [paper EXCEPT !.map.positions = p, !.positions = p # {},
                                       !.derived = p # {}]
      BY <1>3 DEF Shown
    <3> HIDE DEF p
    <3>2. Shown(paper).map = [paper.map EXCEPT !.positions = p]
      BY <1>0, <3>1
    <3> QED BY <3>2 DEF p
  <2> HIDE DEF m
  <2> QED BY <2>1, <2>2, MapIsFiled
<1> QED BY <1>1, <1>2, <1>3

-----------------------------------------------------------------------------
(***************************************************************************)
(* The invariant of a run.                                                 *)
(***************************************************************************)

\* Every paper in the ledger, under whatever key, is one a reader can be shown.
PapersStored ==
    /\ DOMAIN papersOut \subseteq {"final", "emergency"}
    /\ \A key \in DOMAIN papersOut : IsPaper(papersOut[key]) /\ StoredOK(papersOut[key])

\* What the run has recorded, and what the graph has of it.
RowsTyped == recorded \in Seq(RecordedRow) /\ admitted \in 0 .. Len(recorded)

\* Where it stands.
StatusTyped ==
    /\ taskState \in {"RUNNING", "AWAITING_COUNCIL_INPUT", "COMPLETED", "FAILED"}
    /\ at \in {"council", "parked", "stream", "invoke", "fallback", "done"}
    /\ gate \in {"ahead", "passed", "skipped"}
    /\ losses \in 0 .. MaxLosses

\* The inductive invariant.
ReportInv == RowsTyped /\ StatusTyped /\ catalogue \in Catalogue /\ PapersStored

\* A paper added to the ledger.
LEMMA StoredUnder ==
    ASSUME NEW key \in {"final", "emergency"}, NEW paper, PapersStored,
           IsPaper(paper), StoredOK(paper), StorePaper(key, paper)
    PROVE  PapersStored'
<1>1. papersOut' = [k \in DOMAIN papersOut \cup {key} |-> IF k = key THEN paper ELSE papersOut[k]]
  BY DEF StorePaper
<1>2. DOMAIN papersOut' = DOMAIN papersOut \cup {key}
      /\ \A k \in DOMAIN papersOut' : papersOut'[k] = IF k = key THEN paper ELSE papersOut[k]
  BY <1>1
<1>3. ASSUME NEW k \in DOMAIN papersOut'
      PROVE  IsPaper(papersOut'[k]) /\ StoredOK(papersOut'[k])
  <2>1. CASE k = key
    <3>1. papersOut'[k] = paper
      BY <1>2, <1>3, <2>1
    <3> QED BY <3>1
  <2>2. CASE k # key
    <3>1. papersOut'[k] = papersOut[k] /\ k \in DOMAIN papersOut
      BY <1>2, <1>3, <2>2
    <3> QED BY <3>1 DEF PapersStored
  <2> QED BY <2>1, <2>2
<1>4. DOMAIN papersOut' \subseteq {"final", "emergency"}
  BY <1>2 DEF PapersStored
<1>5. \A k \in DOMAIN papersOut' : IsPaper(papersOut'[k]) /\ StoredOK(papersOut'[k])
  BY <1>3
<1> QED BY <1>4, <1>5
        DEF PapersStored, IsPaper, StoredOK, MapOK, BothLaidOut, CitedIn, FoldedIn, FoldedAt,
            JudgmentsCited

\* A model's map is stored filed.
LEMMA ModelPaperIsStored ==
    ASSUME NEW items \in Catalogue, NEW reply \in Reply(items)
    PROVE  LET paper == Payload(ParseModelMap(reply, items), FALSE)
           IN  IsPaper(paper) /\ StoredOK(paper)
<1> DEFINE m == ParseModelMap(reply, items)
<1>1. MapOK(m) /\ m.mode = "model" /\ (era # "now" => m.positions = {})
  BY ModelMapFiled
<1> HIDE DEF m
<1>2. era # "now" => MapOK([m EXCEPT !.positions = {}])
  <2> SUFFICES ASSUME m.positions = {} PROVE MapOK([m EXCEPT !.positions = {}])
    BY <1>1
  <2>1. m \in MapSet
    BY <1>1 DEF MapOK
  <2>2. [m EXCEPT !.positions = {}] = m
    BY <2>1 DEF MapSet
  <2> QED BY <1>1, <2>2
<1>3. IsPaper(Payload(m, FALSE)) /\ StoredOK(Payload(m, FALSE))
  BY <1>1, <1>2, PayloadIsStored
<1> QED BY <1>3 DEF m

\* And so is the map filed without one.
LEMMA PlainPaperIsStored ==
    ASSUME NEW items \in Catalogue
    PROVE  LET paper == Payload(DeterministicMap(items), TRUE)
           IN  IsPaper(paper) /\ StoredOK(paper)
<1> DEFINE m == DeterministicMap(items)
<1>1. MapOK(m) /\ JudgmentsCited(m) /\ MapOK([m EXCEPT !.positions = {}])
  BY DeterministicMapFiled
<1> HIDE DEF m
<1>2. IsPaper(Payload(m, TRUE)) /\ StoredOK(Payload(m, TRUE))
  BY <1>1, PayloadIsStored
<1> QED BY <1>2 DEF m

\* It holds before anything is recorded.
LEMMA ReportInitOK == ReportInit => ReportInv
<1> SUFFICES ASSUME ReportInit PROVE ReportInv
  OBVIOUS
<1>0. /\ recorded = <<>> /\ admitted = 0 /\ taskState = "RUNNING" /\ at = "council"
      /\ gate = "ahead" /\ catalogue = <<>> /\ papersOut = <<>> /\ losses = 0
  BY Zenon DEF ReportInit
<1>1. RowsTyped
  BY <1>0 DEF RowsTyped
<1>2. StatusTyped
  BY <1>0, ReportAssumption DEF StatusTyped
<1>3. catalogue \in Catalogue
  BY <1>0, NoItems
<1>4. PapersStored
  BY <1>0 DEF PapersStored
<1> QED BY <1>1, <1>2, <1>3, <1>4 DEF ReportInv

\* Papers left alone stay as they are.
LEMMA PapersKept ==
    ASSUME PapersStored, UNCHANGED papersOut
    PROVE  PapersStored'
<1>1. /\ DOMAIN papersOut' \subseteq {"final", "emergency"}
      /\ \A k \in DOMAIN papersOut' : IsPaper(papersOut'[k]) /\ StoredOK(papersOut'[k])
  BY DEF PapersStored
<1> QED BY <1>1
        DEF PapersStored, IsPaper, StoredOK, MapOK, BothLaidOut, CitedIn, FoldedIn, FoldedAt,
            JudgmentsCited

\* The steps that write no paper.
LEMMA QuietSteps ==
    ASSUME ReportInv,
           \/ RecordRow \/ ParkCouncil \/ OverrunGate \/ ResumeCouncil \/ ProjectGraph
           \/ Synthesize \/ RefuseReply \/ FailCall \/ LoseSession \/ UNCHANGED reportVars
    PROVE  ReportInv'
<1>1. PapersStored'
  <2>1. UNCHANGED papersOut
    BY DEF RecordRow, ParkCouncil, OverrunGate, ResumeCouncil, ProjectGraph, Synthesize,
           RefuseReply, FailCall, LoseSession, reportVars
  <2> QED BY <2>1, PapersKept DEF ReportInv
<1>2. RowsTyped'
  <2>1. CASE RecordRow
    <3>1. PICK r \in RecordedRow : recorded' = Append(recorded, r)
      BY <2>1 DEF RecordRow
    <3>2. recorded' \in Seq(RecordedRow) /\ Len(recorded') = Len(recorded) + 1
      BY <3>1 DEF ReportInv, RowsTyped
    <3> QED BY <2>1, <3>2 DEF ReportInv, RowsTyped, RecordRow
  <2>2. CASE ProjectGraph
    <3>1. recorded' = recorded /\ admitted' = Len(recorded) /\ Len(recorded) \in Nat
      BY <2>2 DEF ReportInv, RowsTyped, ProjectGraph
    <3> QED BY <3>1 DEF ReportInv, RowsTyped
  <2>3. CASE UNCHANGED <<recorded, admitted>>
    BY <2>3 DEF ReportInv, RowsTyped
  <2> QED BY <2>1, <2>2, <2>3
        DEF ParkCouncil, OverrunGate, ResumeCouncil, Synthesize, RefuseReply, FailCall,
            LoseSession, reportVars
<1>3. StatusTyped'
  <2>1. losses' \in 0 .. MaxLosses
    <3>1. \/ losses < MaxLosses /\ losses' = losses + 1
          \/ losses' = losses
      BY DEF RecordRow, ParkCouncil, OverrunGate, ResumeCouncil, ProjectGraph, Synthesize,
             RefuseReply, FailCall, LoseSession, reportVars
    <3> QED BY <3>1, ReportAssumption DEF ReportInv, StatusTyped
  <2>2. taskState' \in {"RUNNING", "AWAITING_COUNCIL_INPUT", "COMPLETED", "FAILED"}
    BY DEF ReportInv, StatusTyped, RecordRow, ParkCouncil, OverrunGate, ResumeCouncil,
           ProjectGraph, Synthesize, RefuseReply, FailCall, LoseSession, reportVars
  <2>3. at' \in {"council", "parked", "stream", "invoke", "fallback", "done"}
    BY DEF ReportInv, StatusTyped, RecordRow, ParkCouncil, OverrunGate, ResumeCouncil,
           ProjectGraph, Synthesize, RefuseReply, FailCall, LoseSession, reportVars
  <2>4. gate' \in {"ahead", "passed", "skipped"}
    BY DEF ReportInv, StatusTyped, RecordRow, ParkCouncil, OverrunGate, ResumeCouncil,
           ProjectGraph, Synthesize, RefuseReply, FailCall, LoseSession, reportVars
  <2> QED BY <2>1, <2>2, <2>3, <2>4 DEF StatusTyped
<1>4. catalogue' \in Catalogue
  <2>1. CASE Synthesize
    <3>1. Catalog(Material) \in Catalogue
      BY MaterialTyped, CatalogIsNumbered DEF ReportInv, RowsTyped
    <3> QED BY <2>1, <3>1 DEF Synthesize
  <2>2. CASE LoseSession
    BY <2>2, NoItems DEF LoseSession
  <2>3. CASE UNCHANGED catalogue
    BY <2>3 DEF ReportInv
  <2> QED BY <2>1, <2>2, <2>3 DEF RecordRow, ParkCouncil, OverrunGate, ResumeCouncil,
                                  ProjectGraph, RefuseReply, FailCall, reportVars
<1>5. Catalogue' = Catalogue
  BY DEF Catalogue, Numbered, OfKind
<1> QED BY <1>1, <1>2, <1>3, <1>4, <1>5 DEF ReportInv

\* The steps that write one.
LEMMA WritingSteps ==
    ASSUME ReportInv, WritePaper \/ FallBack \/ FailRun
    PROVE  ReportInv'
<1>1. PapersStored'
  <2>1. CASE WritePaper
    <3>1. PICK reply \in Reply(catalogue) :
             StorePaper("final", Payload(ParseModelMap(reply, catalogue), FALSE))
      BY <2>1 DEF WritePaper
    <3>2. catalogue \in Catalogue /\ PapersStored
      BY DEF ReportInv
    <3> QED BY <3>1, <3>2, ModelPaperIsStored, StoredUnder
  <2>2. CASE FallBack
    <3>1. StorePaper("final", Payload(DeterministicMap(catalogue), TRUE))
      BY <2>2 DEF FallBack
    <3>2. catalogue \in Catalogue /\ PapersStored
      BY DEF ReportInv
    <3> QED BY <3>1, <3>2, PlainPaperIsStored, StoredUnder
  <2>3. CASE FailRun
    <3>1. Catalog(Material) \in Catalogue /\ PapersStored
      BY MaterialTyped, CatalogIsNumbered DEF ReportInv, RowsTyped
    <3>2. CASE StorePaper("emergency", Payload(DeterministicMap(Catalog(Material)), TRUE))
      BY <3>1, <3>2, PlainPaperIsStored, StoredUnder
    <3>3. CASE UNCHANGED papersOut
      BY <3>1, <3>3, PapersKept
    <3> QED BY <2>3, <3>2, <3>3 DEF FailRun
  <2> QED BY <2>1, <2>2, <2>3
<1>2. UNCHANGED <<recorded, admitted, gate, losses>> /\ at' = "done" /\ catalogue' = <<>>
      /\ taskState' \in {"COMPLETED", "FAILED"}
  BY DEF WritePaper, FallBack, FailRun
<1>3. RowsTyped' /\ StatusTyped'
  BY <1>2 DEF ReportInv, RowsTyped, StatusTyped
<1>4. catalogue' \in Catalogue
  BY <1>2, NoItems
<1>5. Catalogue' = Catalogue
  BY DEF Catalogue, Numbered, OfKind
<1> QED BY <1>1, <1>3, <1>4, <1>5 DEF ReportInv

\* Whatever is read under the invariant is filed.
LEMMA ReadersSeeEveryItem == ReportInv => EveryItemIsFiled
<1> SUFFICES ASSUME ReportInv PROVE EveryItemIsFiled
  OBVIOUS
<1>1. \A m \in Maps : Filed(m)
  <2> SUFFICES ASSUME NEW key \in DOMAIN papersOut PROVE Filed(Shown(papersOut[key]).map)
    BY DEF Maps
  <2>1. IsPaper(papersOut[key]) /\ StoredOK(papersOut[key])
    BY DEF ReportInv, PapersStored
  <2> QED BY <2>1, ShownIsFiled DEF ReportInv, RowsTyped
<1>2. IsInjective([i \in DOMAIN catalogue |-> catalogue[i].id])
  BY DEF ReportInv, Catalogue, Numbered, IsInjective
<1>3. ToSet(recorded) \subseteq RecordedRow
  BY DEF ReportInv, RowsTyped, ToSet
<1>4. ReportTypeOK
  BY <1>2, <1>3 DEF ReportInv, RowsTyped, StatusTyped, PapersStored, ReportTypeOK, PhaseRows
<1> QED BY <1>1, <1>4 DEF EveryItemIsFiled

-----------------------------------------------------------------------------
(* What the paper of a guided council is made from. *)

\* A row added is told, and so is what was told before.
LEMMA AddTells ==
    ASSUME NEW items \in Catalogue, NEW r \in PaperRow
    PROVE  /\ Reports(Add(items, r), r)
           /\ \A q : Reports(items, q) => Reports(Add(items, r), q)
<1>1. /\ ToSet(items) \subseteq ToSet(Add(items, r))
      /\ \E i \in ToSet(Add(items, r)) : i.text = r.text
  <2> DEFINE x == [id |-> <<r.kind, Len(OfKind(items, r.kind)) + 1>>, kind |-> r.kind,
                   text |-> r.text, seat |-> r.seat, stance |-> r.stance]
  <2>1. items \in Seq(PaperItem)
    BY DEF Catalogue
  <2>2. CASE \E i \in DOMAIN items : items[i].text = r.text
    BY <2>2 DEF Add, ToSet
  <2>3. CASE ~ \E i \in DOMAIN items : items[i].text = r.text
    <3>1. Add(items, r) = Append(items, x) /\ x.text = r.text
      BY <2>3 DEF Add
    <3> HIDE DEF x
    <3>2. Range(Append(items, x)) = Range(items) \cup {x}
      BY <2>1, RangeAppend
    <3>3. ToSet(items) = Range(items) /\ ToSet(Append(items, x)) = Range(Append(items, x))
      BY DEF ToSet, Range
    <3> QED BY <3>1, <3>2, <3>3
  <2> QED BY <2>2, <2>3
<1> HIDE DEF Add
<1>2. Reports(Add(items, r), r)
  BY <1>1, Zenon DEF Reports
<1>3. ASSUME NEW q, Reports(items, q) PROVE Reports(Add(items, r), q)
  BY <1>1, <1>3, Zenon DEF Reports
<1> QED BY <1>2, <1>3

\* A catalogue tells what every row says it is made from.
LEMMA CatalogTells ==
    ASSUME NEW rows \in Seq(PaperRow), NEW r \in Range(rows)
    PROVE  Reports(Catalog(rows), r)
<1>1. PICK g : Catalogued(g, rows) /\ Catalog(rows) = g[Len(rows)]
  <2>1. Catalogued(CHOOSE f : Catalogued(f, rows), rows)
    BY CatalogueExists
  <2>2. Catalog(rows) = (CHOOSE f : Catalogued(f, rows))[Len(rows)]
    BY DEF Catalog, Catalogued, Add
  <2> QED BY <2>1, <2>2
<1>2. Len(rows) \in Nat /\ g[0] = <<>> /\ \A n \in 1 .. Len(rows) : g[n] = Add(g[n - 1], rows[n])
  BY <1>1 DEF Catalogued
<1>3. \A n \in 0 .. Len(rows) : g[n] \in Catalogue
  <2>1. Advances(Adding, Catalogue, PaperRow) /\ ReadsFrom(rows, Len(rows), PaperRow)
    BY CatalogueExists
  <2>2. \A n \in 1 .. Len(rows) : rows[n] \in PaperRow
    OBVIOUS
  <2>3. Follows(g, Catalogue, <<>>, Adding, rows, Len(rows))
    BY <1>2, <2>2 DEF Follows, Adding
  <2> QED BY <1>2, <2>1, <2>3, NoItems, FoldTyped
<1>4. PICK k \in 1 .. Len(rows) : rows[k] = r
  BY DEF Range
<1> DEFINE T == {n \in Nat : k <= n /\ n <= Len(rows) => Reports(g[n], r)}
<1>5. ASSUME NEW n \in Nat, n \in T, n + 1 <= Len(rows), k <= n + 1
      PROVE  Reports(g[n + 1], r)
  <2>1. n + 1 \in 1 .. Len(rows) /\ n \in 0 .. Len(rows) /\ (n + 1) - 1 = n
    BY <1>2, <1>5
  <2>2. g[n + 1] = Add(g[n], rows[n + 1]) /\ g[n] \in Catalogue /\ rows[n + 1] \in PaperRow
    BY <1>2, <1>3, <2>1
  <2>3. CASE k = n + 1
    BY <1>4, <2>2, <2>3, AddTells
  <2>4. CASE k <= n
    <3>1. Reports(g[n], r)
      BY <1>5, <2>1, <2>4
    <3> QED BY <2>2, <3>1, AddTells
  <2> QED BY <1>4, <1>5, <2>3, <2>4
<1>6. T = Nat
  <2>1. 0 \in T
    BY <1>4
  <2>2. \A n \in T : n + 1 \in T
    BY <1>5
  <2>3. T \in SUBSET Nat
    OBVIOUS
  <2> HIDE DEF T
  <2> QED BY <2>1, <2>2, <2>3, EveryNumber
<1> QED BY <1>1, <1>2, <1>4, <1>6

\* The brief has every node of the graph, and every judgment.
LEMMA MaterialHas ==
    ASSUME RowsTyped, NEW r,
           \/ r \in ToSet(Graph) /\ r.kind \in NodeKinds
           \/ r \in ToSet(recorded) /\ r.kind = "judgment"
    PROVE  r \in Range(Material)
<1>1. recorded \in Seq(RecordedRow) /\ Graph \in Seq(RecordedRow)
  <2>1. recorded \in Seq(RecordedRow) /\ admitted \in 0 .. Len(recorded)
    BY DEF RowsTyped
  <2>2. \A i \in 1 .. admitted : recorded[i] \in RecordedRow
    BY <2>1
  <2> QED BY <2>1, <2>2, SubSeqProperties DEF Graph
<1>2. \A rows \in Seq(RecordedRow) :
         \A kind : r \in ToSet(rows) /\ r.kind = kind => r \in Range(OfKind(rows, kind))
  <2> SUFFICES ASSUME NEW rows \in Seq(RecordedRow), r \in ToSet(rows)
               PROVE  r \in Range(OfKind(rows, r.kind))
    OBVIOUS
  <2> DEFINE T == {q \in ToSet(rows) : q.kind = r.kind}
  <2>1. OfKind(rows, r.kind) = Chosen(rows, T) /\ r \in T
    BY DEF OfKind
  <2>2. ToSet(rows) = Range(rows)
    BY DEF ToSet, Range
  <2> HIDE DEF T
  <2>3. Range(Chosen(rows, T)) = Range(rows) \cap T
    BY ChosenHas
  <2> QED BY <2>1, <2>2, <2>3
<1>3. \A rows \in Seq(PaperRow) :
         StrongFirst(rows) \in Seq(PaperRow) /\ Range(StrongFirst(rows)) = Range(rows)
  <2> SUFFICES ASSUME NEW rows \in Seq(PaperRow) PROVE Range(StrongFirst(rows)) = Range(rows)
    BY StrongFirstTyped
  <2> DEFINE S == {q \in ToSet(rows) : q.strong}
             W == {q \in ToSet(rows) : ~q.strong}
  <2>1. StrongFirst(rows) = Chosen(rows, S) \o Chosen(rows, W)
    BY DEF StrongFirst
  <2>2. S \cup W = Range(rows)
    BY DEF ToSet, Range
  <2> HIDE DEF S, W
  <2>3. /\ Chosen(rows, S) \in Seq(PaperRow) /\ Chosen(rows, W) \in Seq(PaperRow)
        /\ Range(Chosen(rows, S)) = Range(rows) \cap S
        /\ Range(Chosen(rows, W)) = Range(rows) \cap W
    BY ChosenType, ChosenHas
  <2>4. Range(Chosen(rows, S) \o Chosen(rows, W))
           = Range(Chosen(rows, S)) \cup Range(Chosen(rows, W))
    BY <2>3, RangeOfBoth
  <2> QED BY <2>1, <2>2, <2>3, <2>4
<1>4. PICK a, b, c, d, e, f, h :
         /\ a = OfKind(recorded, "judgment") /\ b = OfKind(Graph, "finding")
         /\ c = StrongFirst(OfKind(recorded, "challenge"))
         /\ d = StrongFirst(OfKind(Graph, "blindspot"))
         /\ e = Consensus /\ f = OfKind(Graph, "dissent") /\ h = OfKind(Graph, "study")
  OBVIOUS
<1>5. \A s \in {a, b, c, d, e, f, h} : s \in Seq(PaperRow)
  <2>1. \A rows \in Seq(RecordedRow) : \A kind \in NodeKinds \cup {"judgment", "challenge"} :
           OfKind(rows, kind) \in Seq(PaperRow)
    BY KindTyped
  <2>2. e \in Seq(PaperRow)
    BY <1>1, <1>4, ConsensusTyped
  <2> QED BY <1>1, <1>3, <1>4, <2>1, <2>2 DEF NodeKinds
<1>6. Material = a \o b \o c \o d \o e \o f \o h
  BY <1>4 DEF Material
<1>7. Range(Material) = Range(a) \cup Range(b) \cup Range(c) \cup Range(d) \cup Range(e)
                          \cup Range(f) \cup Range(h)
  <2>1. \A x, y \in Seq(PaperRow) :
           x \o y \in Seq(PaperRow) /\ Range(x \o y) = Range(x) \cup Range(y)
    BY RangeOfBoth
  <2>2. a \o b \in Seq(PaperRow) /\ Range(a \o b) = Range(a) \cup Range(b)
    BY <1>5, <2>1
  <2>3. a \o b \o c \in Seq(PaperRow) /\ Range(a \o b \o c) = Range(a \o b) \cup Range(c)
    BY <1>5, <2>1, <2>2
  <2>4. /\ a \o b \o c \o d \in Seq(PaperRow)
        /\ Range(a \o b \o c \o d) = Range(a \o b \o c) \cup Range(d)
    BY <1>5, <2>1, <2>3
  <2>5. /\ a \o b \o c \o d \o e \in Seq(PaperRow)
        /\ Range(a \o b \o c \o d \o e) = Range(a \o b \o c \o d) \cup Range(e)
    BY <1>5, <2>1, <2>4
  <2>6. /\ a \o b \o c \o d \o e \o f \in Seq(PaperRow)
        /\ Range(a \o b \o c \o d \o e \o f) = Range(a \o b \o c \o d \o e) \cup Range(f)
    BY <1>5, <2>1, <2>5
  <2>7. Range(a \o b \o c \o d \o e \o f \o h) = Range(a \o b \o c \o d \o e \o f) \cup Range(h)
    BY <1>5, <2>1, <2>6
  <2> QED BY <1>6, <2>2, <2>3, <2>4, <2>5, <2>6, <2>7
<1>8. CASE r \in ToSet(recorded) /\ r.kind = "judgment"
  BY <1>1, <1>2, <1>4, <1>7, <1>8
<1>9. CASE r \in ToSet(Graph) /\ r.kind \in NodeKinds
  <2>1. r \in Range(OfKind(Graph, r.kind))
    BY <1>1, <1>2, <1>9
  <2>2. CASE r.kind = "blindspot"
    <3>1. OfKind(Graph, "blindspot") \in Seq(PaperRow)
      BY <1>1, KindTyped DEF NodeKinds
    <3> QED BY <1>3, <1>4, <1>7, <2>1, <2>2, <3>1
  <2>3. CASE r.kind \in {"finding", "dissent", "study"}
    BY <1>4, <1>7, <2>1, <2>3
  <2> QED BY <1>9, <2>2, <2>3 DEF NodeKinds
<1> QED BY <1>8, <1>9

\* A map is stored with its items, if it is stored.
LEMMA StoredItems ==
    ASSUME NEW map, map \in MapSet, NEW fallback
    PROVE  Payload(map, fallback).map = NoMap \/ Payload(map, fallback).map.items = map.items
<1>1. [map EXCEPT !.positions = {}].items = map.items
  BY DEF MapSet
<1>2. \/ Payload(map, fallback).map = NoMap
      \/ Payload(map, fallback).map = map
      \/ Payload(map, fallback).map = [map EXCEPT !.positions = {}]
  BY DEF Payload
<1> QED BY <1>1, <1>2

\* A paper is stored with the items it was written from, whoever wrote it.
LEMMA PaperItems ==
    ASSUME NEW items \in Catalogue, NEW paper,
           \/ paper = Payload(DeterministicMap(items), TRUE)
           \/ \E reply \in Reply(items) : paper = Payload(ParseModelMap(reply, items), FALSE)
    PROVE  paper.map = NoMap \/ paper.map.items = items
<1>1. CASE paper = Payload(DeterministicMap(items), TRUE)
  <2>1. MapOK(DeterministicMap(items)) /\ DeterministicMap(items).items = items
    BY DeterministicMapFiled
  <2>2. DeterministicMap(items) \in MapSet
    BY <2>1 DEF MapOK
  <2> QED BY <1>1, <2>1, <2>2, StoredItems
<1>2. CASE \E reply \in Reply(items) : paper = Payload(ParseModelMap(reply, items), FALSE)
  <2>1. PICK reply \in Reply(items) : paper = Payload(ParseModelMap(reply, items), FALSE)
    BY <1>2
  <2>2. MapOK(ParseModelMap(reply, items)) /\ ParseModelMap(reply, items).items = items
    BY ModelMapFiled
  <2>3. ParseModelMap(reply, items) \in MapSet
    BY <2>2 DEF MapOK
  <2> QED BY <2>1, <2>2, <2>3, StoredItems
<1> QED BY <1>1, <1>2

\* Until something is lost, no paper stands before the run is done; behind the gate, what
\* has been said is in the graph or is said by a judgment, and in the catalogue of a paper
\* that is being written.
InBrief(r) == r \in ToSet(Graph) \/ \E j \in ToSet(recorded) : j.kind = "judgment" /\ j.text = r.text

NoPaperYet == losses = 0 /\ at # "done" => "final" \notin DOMAIN papersOut

BriefIsWhole == losses = 0 /\ gate = "passed" => \A r \in Spoken : InBrief(r)

CatalogueIsWhole ==
    losses = 0 /\ gate = "passed" /\ at \in {"stream", "invoke", "fallback"} =>
        \A r \in Spoken : Reports(catalogue, r)

HeardInv == NoPaperYet /\ BriefIsWhole /\ CatalogueIsWhole /\ GuidedPaperSeesTheCouncil

\* It holds before anything is recorded.
LEMMA HeardInitially == ReportInit => HeardInv
<1> SUFFICES ASSUME ReportInit PROVE HeardInv
  OBVIOUS
<1>1. gate = "ahead" /\ papersOut = <<>>
  BY Zenon DEF ReportInit
<1>2. "final" \notin DOMAIN papersOut
  BY <1>1
<1> QED BY <1>1, <1>2
        DEF HeardInv, NoPaperYet, BriefIsWhole, CatalogueIsWhole, GuidedPaperSeesTheCouncil

\* What has been projected is there.
LEMMA AllProjected ==
    ASSUME RowsTyped, admitted = Len(recorded)
    PROVE  Graph = recorded
<1>1. recorded \in Seq(RecordedRow) /\ Len(recorded) \in Nat
  BY DEF RowsTyped
<1> QED BY <1>1 DEF Graph

\* A row behind the gate: a dissent repeats a judgment, and no other is a node.
LEMMA BriefOverRow ==
    ASSUME RowsTyped, BriefIsWhole, RecordRow
    PROVE  BriefIsWhole'
<1> SUFFICES ASSUME losses = 0, gate = "passed", NEW r \in Spoken' PROVE InBrief(r)'
  BY DEF RecordRow, BriefIsWhole
<1>1. PICK x \in RecordedRow : /\ x.kind \in PhaseRows[gate]
                               /\ x.kind = "dissent" => Restated(x)
                               /\ recorded' = Append(recorded, x)
  BY DEF RecordRow
<1>2. x.kind \in {"consensus", "judgment", "dissent"}
  BY <1>1 DEF PhaseRows
<1>3. recorded \in Seq(RecordedRow) /\ admitted \in 0 .. Len(recorded)
  BY DEF RowsTyped
<1>4. ToSet(recorded') = ToSet(recorded) \cup {x}
  <2>1. Range(Append(recorded, x)) = Range(recorded) \cup {x}
    BY <1>3, RangeAppend
  <2> QED BY <1>1, <2>1 DEF ToSet, Range
<1>5. Graph' = Graph
  <2>1. admitted' = admitted
    BY DEF RecordRow
  <2>2. SubSeq(Append(recorded, x), 1, admitted) = SubSeq(recorded, 1, admitted)
    BY <1>3
  <2> QED BY <1>1, <2>1, <2>2 DEF Graph
<1>6. r \in ToSet(recorded') /\ r.kind \in NodeKinds
  BY DEF Spoken
<1>7. CASE r \in ToSet(recorded)
  <2>1. InBrief(r)
    BY <1>6, <1>7 DEF Spoken, BriefIsWhole
  <2> QED BY <1>4, <1>5, <2>1 DEF InBrief
<1>8. CASE r = x
  <2>1. \E j \in ToSet(recorded) : j.kind = "judgment" /\ j.text = r.text
    BY <1>1, <1>2, <1>6, <1>8 DEF NodeKinds, Restated
  <2> QED BY <1>4, <2>1 DEF InBrief
<1> QED BY <1>4, <1>6, <1>7, <1>8

\* The brief stays whole.
LEMMA BriefKeeps ==
    ASSUME RowsTyped, StatusTyped, BriefIsWhole, [ReportNext]_reportVars
    PROVE  BriefIsWhole'
<1> DEFINE Whole == UNCHANGED recorded /\ (ToSet(Graph') = ToSet(recorded))
<1>1. ASSUME Whole PROVE BriefIsWhole'
  BY <1>1 DEF BriefIsWhole, InBrief, Spoken
<1>2. ASSUME UNCHANGED <<recorded, admitted, gate, losses>> PROVE BriefIsWhole'
  <2>1. Graph' = Graph /\ Spoken' = Spoken
    BY <1>2 DEF Graph, Spoken
  <2> QED BY <1>2, <2>1 DEF BriefIsWhole, InBrief
<1>3. ASSUME gate' # "passed" \/ losses' # 0 PROVE BriefIsWhole'
  BY <1>3 DEF BriefIsWhole
<1>4. CASE ResumeCouncil
  <2>1. CASE admitted = Len(recorded)
    <3>1. Graph' = Graph /\ UNCHANGED recorded
      BY <1>4 DEF ResumeCouncil, Graph
    <3> QED BY <1>1, <2>1, <3>1, AllProjected
  <2>2. CASE admitted # Len(recorded)
    <3>1. losses' = losses + 1
      BY <1>4, <2>2 DEF ResumeCouncil
    <3> QED BY <1>3, <3>1 DEF StatusTyped
  <2> QED BY <2>1, <2>2
<1>5. CASE ProjectGraph
  <2>1. UNCHANGED recorded /\ admitted' = Len(recorded)
    BY <1>5 DEF ProjectGraph
  <2>2. recorded \in Seq(RecordedRow)
    BY DEF RowsTyped
  <2>3. Graph' = recorded
    BY <2>1, <2>2 DEF Graph
  <2> QED BY <1>1, <2>1, <2>3
<1>6. CASE LoseSession
  BY <1>3, <1>6 DEF LoseSession, StatusTyped
<1>7. CASE OverrunGate
  BY <1>3, <1>7 DEF OverrunGate
<1>8. CASE \/ ParkCouncil \/ Synthesize \/ WritePaper \/ RefuseReply \/ FailCall \/ FallBack
           \/ FailRun \/ UNCHANGED reportVars
  BY <1>2, <1>8 DEF ParkCouncil, Synthesize, WritePaper, RefuseReply, FailCall, FallBack, FailRun,
                    reportVars
<1> QED BY <1>4, <1>5, <1>6, <1>7, <1>8, BriefOverRow DEF ReportNext

\* A catalogue that is built behind the gate tells all that has been said.
LEMMA CatalogueKeeps ==
    ASSUME RowsTyped, StatusTyped, BriefIsWhole, CatalogueIsWhole, [ReportNext]_reportVars
    PROVE  CatalogueIsWhole'
<1>1. CASE Synthesize
  <2> SUFFICES ASSUME losses = 0, gate = "passed", NEW r \in Spoken PROVE Reports(Catalog(Material), r)
    BY <1>1 DEF Synthesize, CatalogueIsWhole, Spoken, Reports
  <2>1. Material \in Seq(PaperRow)
    BY MaterialTyped DEF RowsTyped
  <2>2. r \in ToSet(Graph) \/ \E j \in ToSet(recorded) : j.kind = "judgment" /\ j.text = r.text
    BY DEF BriefIsWhole, InBrief
  <2>3. PICK j : j \in Range(Material) /\ j.text = r.text
    BY <2>2, MaterialHas DEF Spoken
  <2>4. Reports(Catalog(Material), j)
    BY <2>1, <2>3, CatalogTells
  <2> QED BY <2>3, <2>4 DEF Reports
<1>2. CASE LoseSession
  BY <1>2 DEF LoseSession, StatusTyped, CatalogueIsWhole
<1>3. ASSUME at' \in {"council", "parked", "done"} PROVE CatalogueIsWhole'
  BY <1>3 DEF CatalogueIsWhole
<1>4. CASE RecordRow \/ ParkCouncil \/ OverrunGate \/ ResumeCouncil \/ WritePaper \/ FallBack \/ FailRun
  BY <1>3, <1>4 DEF RecordRow, ParkCouncil, OverrunGate, ResumeCouncil, WritePaper, FallBack,
                    FailRun, Holding
<1>5. CASE ProjectGraph \/ RefuseReply \/ FailCall \/ UNCHANGED reportVars
  <2>1. UNCHANGED <<recorded, gate, catalogue, losses>>
    BY <1>5 DEF ProjectGraph, RefuseReply, FailCall, reportVars
  <2>2. at' \in {"stream", "invoke", "fallback"} => at \in {"stream", "invoke", "fallback"}
    BY <1>5 DEF ProjectGraph, RefuseReply, FailCall, reportVars
  <2> QED BY <2>1, <2>2 DEF CatalogueIsWhole, Spoken, Reports
<1> QED BY <1>1, <1>2, <1>4, <1>5 DEF ReportNext

\* A paper that is stored under a key says what it is given, and no other changes.
LEMMA FinalPaper ==
    ASSUME NEW key, NEW paper, StorePaper(key, paper)
    PROVE  /\ key = "final" => papersOut'["final"] = paper
           /\ key # "final" /\ "final" \notin DOMAIN papersOut => "final" \notin DOMAIN papersOut'
<1>1. papersOut' = [k \in DOMAIN papersOut \cup {key} |-> IF k = key THEN paper ELSE papersOut[k]]
  BY DEF StorePaper
<1> QED BY <1>1

\* So the paper that is written from it does.
LEMMA PaperKeeps ==
    ASSUME ReportInv, HeardInv, [ReportNext]_reportVars
    PROVE  NoPaperYet' /\ GuidedPaperSeesTheCouncil'
<1> USE DEF HeardInv
<1>1. StatusTyped /\ catalogue \in Catalogue
  BY DEF ReportInv
<1>2. CASE WritePaper \/ FallBack
  <2>1. /\ at \in {"stream", "invoke", "fallback"} /\ at' = "done"
        /\ UNCHANGED <<recorded, gate, losses>>
    BY <1>2 DEF WritePaper, FallBack
  <2>2. PICK paper : /\ \/ paper = Payload(DeterministicMap(catalogue), TRUE)
                        \/ \E reply \in Reply(catalogue) :
                              paper = Payload(ParseModelMap(reply, catalogue), FALSE)
                     /\ StorePaper("final", paper)
    BY <1>2 DEF WritePaper, FallBack
  <2>3. papersOut'["final"] = paper
    BY <2>2, FinalPaper
  <2>4. paper.map = NoMap \/ paper.map.items = catalogue
    BY <1>1, <2>2, PaperItems
  <2>5. NoPaperYet'
    BY <2>1 DEF NoPaperYet
  <2>6. ASSUME losses = 0, gate = "passed" PROVE \A r \in Spoken : Reports(catalogue, r)
    BY <2>1, <2>6 DEF CatalogueIsWhole
  <2>7. GuidedPaperSeesTheCouncil'
    <3> SUFFICES ASSUME losses = 0, gate = "passed", papersOut'["final"].map # NoMap,
                        NEW r \in Spoken
                 PROVE  Reports(papersOut'["final"].map.items, r)
      BY <2>1 DEF GuidedPaperSeesTheCouncil, Seen, Spoken, Reports
    <3> QED BY <2>3, <2>4, <2>6
  <2> QED BY <2>5, <2>7
<1>3. ASSUME losses' = 0 => "final" \notin DOMAIN papersOut'
      PROVE  NoPaperYet' /\ GuidedPaperSeesTheCouncil'
  BY <1>3 DEF NoPaperYet, GuidedPaperSeesTheCouncil, Seen
<1>4. CASE FailRun
  <2>1. at = "council" /\ UNCHANGED losses
        /\ (UNCHANGED papersOut \/ \E paper : StorePaper("emergency", paper))
    BY <1>4 DEF FailRun, Holding
  <2>2. losses = 0 => "final" \notin DOMAIN papersOut
    BY <2>1 DEF NoPaperYet
  <2>3. losses = 0 => "final" \notin DOMAIN papersOut'
    <3>1. CASE UNCHANGED papersOut
      BY <2>2, <3>1
    <3>2. CASE \E paper : StorePaper("emergency", paper)
      <4>1. PICK paper : StorePaper("emergency", paper)
        BY <3>2
      <4>2. "emergency" # "final"
        OBVIOUS
      <4> QED BY <2>2, <4>1, <4>2, FinalPaper
    <3> QED BY <2>1, <3>1, <3>2
  <2> QED BY <1>3, <2>1, <2>3
<1>5. CASE \/ RecordRow \/ ParkCouncil \/ OverrunGate \/ ResumeCouncil \/ Synthesize
           \/ RefuseReply \/ FailCall \/ LoseSession
  <2>1. UNCHANGED papersOut /\ at # "done"
    BY <1>5 DEF RecordRow, ParkCouncil, OverrunGate, ResumeCouncil, Synthesize, RefuseReply,
                FailCall, LoseSession, Holding
  <2>2. losses' = 0 => losses = 0
    <3>1. losses' = losses \/ losses' = losses + 1
      BY <1>5 DEF RecordRow, ParkCouncil, OverrunGate, ResumeCouncil, Synthesize, RefuseReply,
                  FailCall, LoseSession
    <3> QED BY <1>1, <3>1 DEF StatusTyped
  <2> QED BY <1>3, <2>1, <2>2 DEF NoPaperYet
<1>6. CASE ProjectGraph \/ UNCHANGED reportVars
  <2>1. UNCHANGED <<recorded, at, gate, papersOut, losses>>
    BY <1>6 DEF ProjectGraph, reportVars
  <2> QED BY <2>1 DEF NoPaperYet, GuidedPaperSeesTheCouncil, Seen, Spoken, Reports
<1> QED BY <1>2, <1>4, <1>5, <1>6 DEF ReportNext

\* Whatever a council that was parked for guidance recorded, before the park or behind it,
\* its paper is written from a catalogue that says it, unless a session or a projection was
\* lost; and of any paper's catalogue nothing is dropped on the way to the reader.
THEOREM GuidedPapersLoseNothing == ReportSpec => []NothingIsLostOnTheWay
<1>1. ReportInv /\ [ReportNext]_reportVars => ReportInv'
  BY QuietSteps, WritingSteps DEF ReportNext
<1>2. ReportInv /\ HeardInv /\ [ReportNext]_reportVars => HeardInv'
  <2> SUFFICES ASSUME ReportInv, HeardInv, [ReportNext]_reportVars PROVE HeardInv'
    OBVIOUS
  <2>1. RowsTyped /\ StatusTyped /\ BriefIsWhole /\ CatalogueIsWhole
    BY DEF ReportInv, HeardInv
  <2> QED BY <2>1, BriefKeeps, CatalogueKeeps, PaperKeeps DEF HeardInv
<1>3. ReportInv /\ HeardInv => NothingIsLostOnTheWay
  BY ReadersSeeEveryItem DEF HeardInv, NothingIsLostOnTheWay
<1> QED BY ReportInitOK, HeardInitially, <1>1, <1>2, <1>3, PTL DEF ReportSpec

-----------------------------------------------------------------------------
(***************************************************************************)
(* PART 3.  What a pass remembers: the shared frontier, which absorbs one  *)
(* event after the other.                                                  *)
(***************************************************************************)

\* A fold of the first n events, step by step; there is one, and only one.
Absorbing(f, a, list, n) ==
    f = [i \in 0 .. n |-> IF i = 0 THEN a ELSE Absorb(f[i - 1], list[i])]

\* There is such a fold.
LEMMA AbsorbingExists ==
    ASSUME NEW a, NEW list, NEW N \in Nat
    PROVE  \E f : Absorbing(f, a, list, N)
<1> DEFINE T == {n \in Nat : \E f : Absorbing(f, a, list, n)}
<1>1. 0 \in T
  <2>1. \A i \in 0 .. 0 : i = 0
    OBVIOUS
  <2>2. Absorbing([i \in 0 .. 0 |-> a], a, list, 0)
    BY <2>1 DEF Absorbing
  <2> QED BY <2>2
<1>2. ASSUME NEW n \in T PROVE n + 1 \in T
  <2>1. n \in Nat /\ \E f : Absorbing(f, a, list, n)
    OBVIOUS
  <2>2. PICK f : Absorbing(f, a, list, n)
    BY <2>1
  <2> DEFINE new == Absorb(f[n], list[n + 1])
             g == [i \in 0 .. n + 1 |-> IF i = n + 1 THEN new ELSE f[i]]
  <2>3. \A i \in 0 .. n : f[i] = IF i = 0 THEN a ELSE Absorb(f[i - 1], list[i])
    BY <2>2 DEF Absorbing
  <2>4. ASSUME NEW i \in 0 .. n + 1
        PROVE  g[i] = IF i = 0 THEN a ELSE Absorb(g[i - 1], list[i])
    <3> HIDE DEF T
    <3>1. CASE i = n + 1
      <4>1. i # 0 /\ i - 1 = n /\ n \in 0 .. n + 1 /\ n # n + 1
        BY <2>1, <3>1
      <4>2. g[i] = new /\ g[i - 1] = f[n]
        BY <3>1, <4>1
      <4> HIDE DEF g
      <4> QED BY <3>1, <4>1, <4>2
    <3>2. CASE i # n + 1
      <4>1. i \in 0 .. n /\ g[i] = f[i]
        BY <2>1, <3>2
      <4>2. i # 0 => i - 1 \in 0 .. n + 1 /\ i - 1 # n + 1
        BY <2>1, <4>1
      <4>3. i # 0 => g[i - 1] = f[i - 1]
        BY <4>2
      <4> HIDE DEF g
      <4> QED BY <2>3, <4>1, <4>3
    <3> QED BY <3>1, <3>2
  <2>5. g = [i \in 0 .. n + 1 |-> g[i]]
    OBVIOUS
  <2> HIDE DEF g
  <2>6. Absorbing(g, a, list, n + 1)
    BY <2>4, <2>5 DEF Absorbing
  <2> QED BY <2>1, <2>6
<1>3. T \in SUBSET Nat
  OBVIOUS
<1> HIDE DEF T
<1>4. N \in T
  BY <1>1, <1>2, <1>3, EveryNumber
<1> QED BY <1>4 DEF T

\* Two folds of lists that begin alike agree as far as both go.
LEMMA AbsorbingAgree ==
    ASSUME NEW a, NEW s, NEW t, NEW n \in Nat, NEW m \in Nat, n <= m, Alike(s, t, n),
           NEW f, NEW g, Absorbing(f, a, s, n), Absorbing(g, a, t, m)
    PROVE  f[n] = g[n]
<1> DEFINE T == {k \in Nat : k <= n => f[k] = g[k]}
<1>0. /\ \A i \in 0 .. n : f[i] = IF i = 0 THEN a ELSE Absorb(f[i - 1], s[i])
      /\ \A i \in 0 .. m : g[i] = IF i = 0 THEN a ELSE Absorb(g[i - 1], t[i])
      /\ \A i \in 1 .. n : s[i] = t[i]
  BY DEF Absorbing, Alike
<1>1. 0 \in T
  <2>1. 0 \in 0 .. n /\ 0 \in 0 .. m
    OBVIOUS
  <2> QED BY <1>0, <2>1
<1>2. ASSUME NEW k \in T PROVE k + 1 \in T
  <2> SUFFICES ASSUME k + 1 <= n PROVE f[k + 1] = g[k + 1]
    OBVIOUS
  <2>1. /\ k \in Nat /\ k <= n /\ k + 1 \in 0 .. n /\ k + 1 \in 0 .. m /\ k + 1 \in 1 .. n
        /\ k + 1 # 0 /\ (k + 1) - 1 = k
    OBVIOUS
  <2>2. f[k] = g[k]
    BY <2>1
  <2> QED BY <1>0, <2>1, <2>2
<1>3. T \in SUBSET Nat
  OBVIOUS
<1> HIDE DEF T
<1>4. n \in T
  BY <1>1, <1>2, <1>3, EveryNumber
<1> QED BY <1>4 DEF T

\* Absorbed is the last value of any such fold, hence the recurrence on one more event.
LEMMA AbsorbedIs ==
    ASSUME NEW a, NEW list, Len(list) \in Nat
    PROVE  \E f : Absorbing(f, a, list, Len(list)) /\ Absorbed(a, list) = f[Len(list)]
<1> DEFINE f == CHOOSE g : Absorbing(g, a, list, Len(list))
<1>1. Absorbed(a, list) = f[Len(list)]
  BY DEF Absorbed, Absorbing
<1>2. Absorbing(f, a, list, Len(list))
  BY AbsorbingExists
<1> QED BY <1>1, <1>2

\* Nothing to absorb.
LEMMA AbsorbedNothing ==
    ASSUME NEW a
    PROVE  Absorbed(a, <<>>) = a
<1>1. Len(<<>>) = 0
  OBVIOUS
<1>2. PICK f : Absorbing(f, a, <<>>, 0) /\ Absorbed(a, <<>>) = f[0]
  BY <1>1, AbsorbedIs
<1>3. 0 \in 0 .. 0
  OBVIOUS
<1> QED BY <1>2, <1>3 DEF Absorbing

\* One more event.
LEMMA AbsorbedAppend ==
    ASSUME NEW S, NEW a, NEW list \in Seq(S), NEW r \in S
    PROVE  Absorbed(a, Append(list, r)) = Absorb(Absorbed(a, list), r)
<1>a. PICK n \in Nat : n = Len(list)
  OBVIOUS
<1>b. PICK more : more = Append(list, r)
  OBVIOUS
<1>1. /\ Len(list) = n /\ Len(more) = n + 1 /\ more[n + 1] = r
      /\ \A i \in 1 .. n : list[i] = more[i]
  BY <1>a, <1>b, AppendProperties
<1>2. PICK f : Absorbing(f, a, list, n) /\ Absorbed(a, list) = f[n]
  BY <1>1, AbsorbedIs
<1>3. PICK g : Absorbing(g, a, more, n + 1) /\ Absorbed(a, more) = g[n + 1]
  <2>1. Len(more) \in Nat
    BY <1>1
  <2> QED BY <1>1, <2>1, AbsorbedIs
<1>4. g[n + 1] = Absorb(g[n], more[n + 1])
  <2>1. n + 1 \in 0 .. n + 1 /\ n + 1 # 0 /\ (n + 1) - 1 = n
    OBVIOUS
  <2>2. \A i \in 0 .. n + 1 : g[i] = IF i = 0 THEN a ELSE Absorb(g[i - 1], more[i])
    BY <1>3 DEF Absorbing
  <2> QED BY <2>1, <2>2
<1>5. f[n] = g[n]
  <2>1. Alike(list, more, n) /\ n <= n + 1 /\ n + 1 \in Nat
    BY <1>1 DEF Alike
  <2> QED BY <1>2, <1>3, <2>1, AbsorbingAgree
<1> QED BY <1>1, <1>2, <1>3, <1>4, <1>5, <1>b

\* What has been said in two parts.
LEMMA AbsorbedConcat ==
    ASSUME NEW E, NEW a, NEW x \in Seq(E), NEW y \in Seq(E)
    PROVE  Absorbed(a, x \o y) = Absorbed(Absorbed(a, x), y)
<1> DEFINE T == {s \in Seq(E) : Absorbed(a, x \o s) = Absorbed(Absorbed(a, x), s)}
<1>1. <<>> \in T
  <2>1. <<>> \in Seq(E) /\ x \o <<>> = x
    OBVIOUS
  <2> QED BY <2>1, AbsorbedNothing
<1>2. ASSUME NEW s \in T, NEW e \in E PROVE Append(s, e) \in T
  <2>1. s \in Seq(E) /\ Absorbed(a, x \o s) = Absorbed(Absorbed(a, x), s)
    OBVIOUS
  <2>2. x \o s \in Seq(E) /\ x \o Append(s, e) = Append(x \o s, e) /\ Append(s, e) \in Seq(E)
    BY <2>1
  <2>a. \A z \in Seq(E) : Absorbed(a, Append(z, e)) = Absorb(Absorbed(a, z), e)
    BY AbsorbedAppend
  <2>3. Absorbed(a, Append(x \o s, e)) = Absorb(Absorbed(a, x \o s), e)
    BY <2>2, <2>a
  <2>4. Absorbed(Absorbed(a, x), Append(s, e)) = Absorb(Absorbed(Absorbed(a, x), s), e)
    BY <2>1, AbsorbedAppend
  <2> QED BY <2>1, <2>2, <2>3, <2>4
<1>3. T \in SUBSET Seq(E)
  OBVIOUS
<1> HIDE DEF T
<1>4. y \in T
  BY <1>1, <1>2, <1>3, EverySequence
<1> QED BY <1>4 DEF T

\* The events of the ledger.
Said == (DOMAIN PhaseKinds) \X Member

KindOf(e) == PhaseKinds[e[1]]

Frontiers == [COLLECTIVE_EVENT_TYPES -> Seq(Said)]

\* What the seats see of the frontier is what was said of it.
Indexed(f, said) ==
    \A kind \in Projected : Range(f[kind]) = {e \in said : KindOf(e) = kind}

\* One more event.
LEMMA AbsorbIndexes ==
    ASSUME NEW f \in Frontiers, NEW said, Indexed(f, said), NEW e \in Said
    PROVE  Absorb(f, e) \in Frontiers /\ Indexed(Absorb(f, e), said \cup {e})
<1> DEFINE kind == KindOf(e)
           slot == IF kind = "DebateCapsule" THEN "CHALLENGE_RAISED" ELSE kind
           v == IF kind = "CONSENSUS_DRAFTED" THEN <<e>>
                ELSE IF kind \in {"Claim", "Blindspot"} /\ Contains(f[slot], e) THEN f[slot]
                ELSE Append(f[slot], e)
<1>1. Absorb(f, e) = IF kind \notin COLLECTIVE_EVENT_TYPES THEN f ELSE [f EXCEPT ![slot] = v]
  BY DEF Absorb, KindOf
<1>2. Projected \subseteq COLLECTIVE_EVENT_TYPES
  BY DEF Projected, COLLECTIVE_EVENT_TYPES
<1>3. CASE kind \notin COLLECTIVE_EVENT_TYPES
  <2>1. \A k \in Projected : {x \in said \cup {e} : KindOf(x) = k} = {x \in said : KindOf(x) = k}
    BY <1>2, <1>3
  <2>2. Absorb(f, e) = f
    BY <1>1, <1>3
  <2> QED BY <2>1, <2>2 DEF Indexed
<1>4. CASE kind \in COLLECTIVE_EVENT_TYPES
  <2>1. slot \in COLLECTIVE_EVENT_TYPES /\ (slot \in Projected => slot = kind)
        /\ (kind \in Projected => slot = kind)
    BY <1>4 DEF COLLECTIVE_EVENT_TYPES, Projected
  <2>2. f[slot] \in Seq(Said)
    BY <2>1 DEF Frontiers
  <2> HIDE DEF slot
  <2>3. v \in Seq(Said)
    <3>1. Append(f[slot], e) \in Seq(Said) /\ <<e>> \in Seq(Said)
      BY <2>2
    <3> QED BY <2>2, <3>1
  <2>4. kind \in Projected => Range(v) = Range(f[slot]) \cup {e}
    <3>1. kind \in Projected => kind # "CONSENSUS_DRAFTED"
      BY DEF Projected
    <3>2. Range(Append(f[slot], e)) = Range(f[slot]) \cup {e}
      BY <2>2, RangeAppend
    <3>3. Contains(f[slot], e) => e \in Range(f[slot])
      BY <2>2 DEF Contains, Range
    <3> QED BY <3>1, <3>2, <3>3
  <2> HIDE DEF v, kind
  <2>5. Absorb(f, e) = [f EXCEPT ![slot] = v]
    BY <1>1, <1>4
  <2>6. Absorb(f, e) \in Frontiers
    BY <2>1, <2>3, <2>5 DEF Frontiers
  <2>7. ASSUME NEW k \in Projected
        PROVE  Range(Absorb(f, e)[k]) = {x \in said \cup {e} : KindOf(x) = k}
    <3>0. Range(f[k]) = {x \in said : KindOf(x) = k}
      BY DEF Indexed
    <3>1. CASE k = slot
      <4>1. Absorb(f, e)[k] = v /\ k = kind
        BY <1>2, <2>1, <2>5, <3>1 DEF Frontiers
      <4>2. Range(v) = Range(f[k]) \cup {e}
        BY <2>4, <3>1, <4>1
      <4>3. KindOf(e) = k
        BY <4>1 DEF kind
      <4> QED BY <3>0, <4>1, <4>2, <4>3
    <3>2. CASE k # slot
      <4>1. Absorb(f, e)[k] = f[k]
        BY <1>2, <2>5, <3>2 DEF Frontiers
      <4>2. KindOf(e) # k
        BY <2>1, <3>2 DEF kind
      <4> QED BY <3>0, <4>1, <4>2
    <3> QED BY <3>1, <3>2
  <2> QED BY <2>6, <2>7 DEF Indexed
<1> QED BY <1>3, <1>4

\* Whatever has been said: each event counts, and nothing else.
LEMMA AbsorbedIndexes ==
    ASSUME NEW said \in Seq(Said)
    PROVE  /\ Absorbed(NoFrontier, said) \in Frontiers
           /\ Indexed(Absorbed(NoFrontier, said), Range(said))
<1> DEFINE Good(s) == /\ Absorbed(NoFrontier, s) \in Frontiers
                      /\ Indexed(Absorbed(NoFrontier, s), Range(s))
           T == {s \in Seq(Said) : Good(s)}
<1>1. <<>> \in T
  <2>1. NoFrontier \in Frontiers
    BY DEF NoFrontier, Frontiers
  <2>2. Range(<<>>) = {}
    BY DEF Range
  <2>3. \A kind \in Projected : NoFrontier[kind] = <<>>
    BY DEF NoFrontier, Projected, COLLECTIVE_EVENT_TYPES
  <2>4. Indexed(NoFrontier, {})
    BY <2>2, <2>3 DEF Indexed
  <2>5. Absorbed(NoFrontier, <<>>) = NoFrontier
    BY AbsorbedNothing
  <2>6. Good(<<>>)
    BY <2>1, <2>2, <2>4, <2>5
  <2>7. <<>> \in Seq(Said)
    OBVIOUS
  <2> HIDE DEF Good
  <2> QED BY <2>6, <2>7
<1>2. ASSUME NEW s \in T, NEW e \in Said PROVE Append(s, e) \in T
  <2>1. s \in Seq(Said) /\ Good(s) /\ Append(s, e) \in Seq(Said)
    OBVIOUS
  <2>2. Absorbed(NoFrontier, Append(s, e)) = Absorb(Absorbed(NoFrontier, s), e)
    BY <2>1, AbsorbedAppend
  <2>3. Range(Append(s, e)) = Range(s) \cup {e}
    BY <2>1, RangeAppend
  <2>4. Good(Append(s, e))
    BY <2>1, <2>2, <2>3, AbsorbIndexes
  <2> QED BY <2>1, <2>4
<1>3. T \in SUBSET Seq(Said)
  OBVIOUS
<1> HIDE DEF T
<1>4. said \in T
  BY <1>1, <1>2, <1>3, EverySequence
<1> QED BY <1>4 DEF T

-----------------------------------------------------------------------------
(* What each seat sees of the frontier: blocks, of which each weighs less. *)

\* The largest first.
Descending(s, weight) == \A i, j \in DOMAIN s : i < j => weight[s[i]] >= weight[s[j]]

\* N blocks, of which the n-th has what weighs N - n.
Blocks(parts, N, S) == parts = [i \in 1 .. N |-> parts[i]] /\ \A i \in 1 .. N : parts[i] \in Seq(S)

Weighed(parts, N, weight) == \A i \in 1 .. N : \A x \in Range(parts[i]) : weight[x] = N - i

\* One more block of what weighs less.
LEMMA DescendingConcat ==
    ASSUME NEW S, NEW weight \in [S -> Nat], NEW s \in Seq(S), NEW t \in Seq(S), NEW w \in Nat,
           Descending(s, weight), \A i \in DOMAIN s : weight[s[i]] > w,
           \A x \in Range(t) : weight[x] = w
    PROVE  /\ Descending(s \o t, weight)
           /\ \A i \in DOMAIN (s \o t) : weight[(s \o t)[i]] >= w
<1>1. /\ s \o t \in Seq(S)
      /\ \A i \in DOMAIN s : i \in DOMAIN (s \o t) /\ (s \o t)[i] = s[i]
      /\ \A k \in DOMAIN (s \o t) : k \notin DOMAIN s =>
             k - Len(s) \in DOMAIN t /\ (s \o t)[k] = t[k - Len(s)]
  BY ConcatHas
<1> DEFINE both == s \o t
<1> HIDE DEF both
<1>2. both \in Seq(S) /\ DOMAIN both = 1 .. Len(both) /\ DOMAIN s = 1 .. Len(s)
      /\ Len(s) \in Nat /\ Len(both) \in Nat
  BY <1>1 DEF both
<1>3. \A k \in DOMAIN both : k \notin DOMAIN s => weight[both[k]] = w
  <2>1. \A i \in DOMAIN t : weight[t[i]] = w
    BY DEF Range
  <2> QED BY <1>1, <2>1 DEF both
<1>4. \A k \in DOMAIN both : k \in DOMAIN s => weight[both[k]] > w /\ both[k] = s[k]
  BY <1>1 DEF both
<1>5. \A k \in DOMAIN both : weight[both[k]] \in Nat
  BY <1>2
<1>6. \A k \in DOMAIN both : weight[both[k]] >= w
  BY <1>3, <1>4, <1>5
<1>7. ASSUME NEW i \in DOMAIN both, NEW j \in DOMAIN both, i < j
      PROVE  weight[both[i]] >= weight[both[j]]
  <2>1. CASE j \in DOMAIN s
    <3>1. i \in DOMAIN s
      BY <1>2, <1>7, <2>1
    <3> QED BY <1>4, <1>7, <2>1, <3>1 DEF Descending
  <2>2. CASE j \notin DOMAIN s
    BY <1>3, <1>5, <1>6, <2>2
  <2> QED BY <2>1, <2>2
<1> QED BY <1>6, <1>7 DEF Descending, both

\* Blocks one after the other.
LEMMA BlocksDescend ==
    ASSUME NEW S, NEW weight \in [S -> Nat], NEW N \in Nat, NEW parts,
           Blocks(parts, N, S), Weighed(parts, N, weight)
    PROVE  /\ FlattenSeq(parts) \in Seq(S) /\ Descending(FlattenSeq(parts), weight)
           /\ \A x : x \in Range(FlattenSeq(parts)) <=> \E i \in 1 .. N : x \in Range(parts[i])
<1> DEFINE first(n) == [i \in 1 .. n |-> parts[i]]
           Good(n) == LET flat == FlattenSeq(first(n))
                      IN  /\ flat \in Seq(S) /\ Descending(flat, weight)
                          /\ \A i \in DOMAIN flat : weight[flat[i]] >= N - n
           T == {n \in Nat : n <= N => Good(n)}
<1>1. 0 \in T
  <2>1. first(0) = <<>>
    OBVIOUS
  <2>2. FlattenSeq(first(0)) = <<>>
    BY <2>1, FlattenNothing
  <2> HIDE DEF first
  <2>3. Good(0)
    <3>1. <<>> \in Seq(S) /\ DOMAIN <<>> = {}
      OBVIOUS
    <3>2. Descending(<<>>, weight)
      BY <3>1 DEF Descending
    <3> QED BY <2>2, <3>1, <3>2
  <2> HIDE DEF Good
  <2> QED BY <2>3
<1>2. ASSUME NEW n \in T PROVE n + 1 \in T
  <2> SUFFICES ASSUME n + 1 <= N PROVE Good(n + 1)
    OBVIOUS
  <2>1. n \in Nat /\ n <= N /\ Good(n) /\ n + 1 \in 1 .. N
    OBVIOUS
  <2>2. parts[n + 1] \in Seq(S) /\ \A i \in 1 .. n : parts[i] \in Seq(S)
    BY <2>1 DEF Blocks
  <2>3. first(n) \in Seq(Seq(S))
    BY <2>1, <2>2
  <2>4. first(n + 1) = Append(first(n), parts[n + 1])
    <3>1. Len(first(n)) = n /\ DOMAIN first(n) = 1 .. n
      BY <2>1
    <3> QED BY <2>1, <3>1
  <2> HIDE DEF first
  <2>5. FlattenSeq(first(n + 1)) = FlattenSeq(first(n)) \o parts[n + 1]
    BY <2>2, <2>3, <2>4, FlattenAppend
  <2> DEFINE flat == FlattenSeq(first(n))
             w == N - (n + 1)
  <2>6. /\ flat \in Seq(S) /\ Descending(flat, weight)
        /\ \A i \in DOMAIN flat : weight[flat[i]] >= N - n
    BY <2>1
  <2> HIDE DEF flat
  <2>7. w \in Nat /\ w = N - n - 1
    BY <2>1
  <2>8. \A x \in Range(parts[n + 1]) : weight[x] = w
    BY <2>1 DEF Weighed
  <2>9. \A i \in DOMAIN flat : weight[flat[i]] > w
    <3> SUFFICES ASSUME NEW i \in DOMAIN flat PROVE weight[flat[i]] > w
      OBVIOUS
    <3>1. weight[flat[i]] \in Nat /\ weight[flat[i]] >= N - n
      BY <2>6
    <3> QED BY <2>1, <2>7, <3>1
  <2> HIDE DEF w
  <2>10. /\ Descending(flat \o parts[n + 1], weight)
         /\ \A i \in DOMAIN (flat \o parts[n + 1]) : weight[(flat \o parts[n + 1])[i]] >= w
    BY <2>2, <2>6, <2>7, <2>8, <2>9, DescendingConcat
  <2>11. flat \o parts[n + 1] \in Seq(S)
    BY <2>2, <2>6
  <2> QED BY <2>5, <2>10, <2>11 DEF flat, w
<1>3. T \in SUBSET Nat
  OBVIOUS
<1> HIDE DEF T
<1>4. N \in T
  BY <1>1, <1>2, <1>3, EveryNumber
<1>5. Good(N)
  BY <1>4 DEF T
<1>6. first(N) = parts
  BY DEF Blocks
<1>7. MadeOf(FlattenSeq(parts), parts, N, S)
  BY FlattenParts DEF Blocks
<1>8. \A x : x \in Range(FlattenSeq(parts)) <=> \E i \in 1 .. N : x \in Range(parts[i])
  <2> DEFINE whole == FlattenSeq(parts)
  <2> HIDE DEF whole
  <2>1. /\ whole \in Seq(S) /\ DOMAIN whole = 1 .. Len(whole)
        /\ \A i \in 1 .. N : \E off \in Nat : Placed(whole, parts[i], off)
        /\ \A k \in 1 .. Len(whole) : \E i \in 1 .. N : \E off \in Nat :
              Placed(whole, parts[i], off) /\ k - off \in 1 .. Len(parts[i])
    BY <1>7 DEF MadeOf, whole
  <2>2. \A i \in 1 .. N : DOMAIN parts[i] = 1 .. Len(parts[i])
    BY DEF Blocks
  <2>3. ASSUME NEW x \in Range(whole) PROVE \E i \in 1 .. N : x \in Range(parts[i])
    <3>1. PICK k \in 1 .. Len(whole) : whole[k] = x
      BY <2>1 DEF Range
    <3>2. PICK i \in 1 .. N : \E off \in Nat :
             Placed(whole, parts[i], off) /\ k - off \in 1 .. Len(parts[i])
      BY <2>1
    <3>3. PICK off \in Nat : Placed(whole, parts[i], off) /\ k - off \in 1 .. Len(parts[i])
      BY <3>2
    <3>4. off + (k - off) = k
      OBVIOUS
    <3>5. whole[k] = parts[i][k - off]
      BY <3>3, <3>4 DEF Placed
    <3> QED BY <2>2, <3>1, <3>3, <3>5 DEF Range
  <2>4. ASSUME NEW i \in 1 .. N, NEW x \in Range(parts[i]) PROVE x \in Range(whole)
    <3>1. PICK m \in 1 .. Len(parts[i]) : parts[i][m] = x
      BY <2>2 DEF Range
    <3>2. PICK off \in Nat : Placed(whole, parts[i], off)
      BY <2>1
    <3>3. off + m \in DOMAIN whole /\ whole[off + m] = x
      BY <2>1, <3>1, <3>2 DEF Placed
    <3> QED BY <3>3 DEF Range
  <2> QED BY <2>3, <2>4 DEF whole
<1> QED BY <1>5, <1>6, <1>8

\* The events a cut may show.
InView == {e \in Said : KindOf(e) \in Projected}

\* What the frontier shows of what was said.
LEMMA SnapshotShows ==
    ASSUME frontier \in Frontiers, NEW said \in SUBSET Said, Indexed(frontier, said)
    PROVE  /\ evidence_snapshot \in Seq(InView)
           /\ Range(evidence_snapshot) = {e \in said : KindOf(e) \in Projected}
<1>1. ASSUME NEW k \in Projected
      PROVE  frontier[k] \in Seq(InView) /\ Range(frontier[k]) = {e \in said : KindOf(e) = k}
  <2>1. k \in COLLECTIVE_EVENT_TYPES
    BY DEF Projected, COLLECTIVE_EVENT_TYPES
  <2>2. frontier[k] \in Seq(Said) /\ Range(frontier[k]) = {e \in said : KindOf(e) = k}
    BY <2>1 DEF Frontiers, Indexed
  <2>3. Range(frontier[k]) \subseteq InView
    BY <2>2 DEF InView
  <2> QED BY <2>2, <2>3, OfItsElements
<1> DEFINE a == frontier["Claim"]  b == frontier["Blindspot"]  c == frontier["DissentCertificate"]
<1>2. /\ a \in Seq(InView) /\ b \in Seq(InView) /\ c \in Seq(InView)
      /\ Range(a) = {e \in said : KindOf(e) = "Claim"}
      /\ Range(b) = {e \in said : KindOf(e) = "Blindspot"}
      /\ Range(c) = {e \in said : KindOf(e) = "DissentCertificate"}
  BY <1>1 DEF Projected
<1>3. evidence_snapshot = (a \o b) \o c
  BY DEF evidence_snapshot
<1> HIDE DEF a, b, c
<1>4. a \o b \in Seq(InView) /\ (a \o b) \o c \in Seq(InView)
  BY <1>2
<1>5. Range((a \o b) \o c) = (Range(a) \cup Range(b)) \cup Range(c)
  <2>1. \A x, y \in Seq(InView) : Range(x \o y) = Range(x) \cup Range(y)
    BY RangeOfBoth
  <2>2. Range(a \o b) = Range(a) \cup Range(b)
    BY <1>2, <2>1
  <2>3. Range((a \o b) \o c) = Range(a \o b) \cup Range(c)
    BY <1>2, <1>4, <2>1
  <2> QED BY <2>2, <2>3
<1> QED BY <1>2, <1>3, <1>4, <1>5 DEF Projected

\* What a seat is shown of it: all of it, by the weights of its role.
LEMMA CutShows ==
    ASSUME frontier \in Frontiers, NEW said \in SUBSET Said, Indexed(frontier, said),
           NEW s \in Member
    PROVE  LET c == perspective_recall(s)
           IN  /\ c \in Seq(Said)
               /\ Range(c) = {e \in said : KindOf(e) \in Projected}
               /\ \A i, j \in DOMAIN c : i < j => Weight[s][KindOf(c[i])] >= Weight[s][KindOf(c[j])]
<1> DEFINE shown == evidence_snapshot
           N == MaxWeight + 1
           weight == [e \in InView |-> Weight[s][KindOf(e)]]
           parts == [i \in 1 .. N |-> Weighing(s, N - i)]
           c == perspective_recall(s)
<1>0. MaxWeight \in Nat /\ N \in Nat
  BY SeatMemoryAssumption
<1>1. shown \in Seq(InView) /\ Range(shown) = {e \in said : KindOf(e) \in Projected}
  BY SnapshotShows
<1>2. \A e \in InView : weight[e] \in 0 .. MaxWeight /\ weight[e] = Weight[s][KindOf(e)]
  BY SeatMemoryAssumption DEF InView, Projected, COLLECTIVE_EVENT_TYPES
<1>3. weight \in [InView -> Nat]
  BY <1>0, <1>2
<1>4. c = FlattenSeq(parts)
  <2> DEFINE q == [i \in 1 .. MaxWeight + 1 |-> Weighing(s, MaxWeight + 1 - i)]
  <2>1. perspective_recall(s) = FlattenSeq(q)
    BY DEF perspective_recall
  <2>2. parts = q
    <3>1. \A i \in 1 .. N : N - i = MaxWeight + 1 - i
      BY <1>0
    <3> QED BY <3>1
  <2> HIDE DEF q
  <2> QED BY <2>1, <2>2 DEF c
<1>5. \A i \in 1 .. N : /\ parts[i] \in Seq(InView)
                        /\ Range(parts[i]) = {e \in Range(shown) : weight[e] = N - i}
  <2> SUFFICES ASSUME NEW i \in 1 .. N
               PROVE  /\ parts[i] \in Seq(InView)
                      /\ Range(parts[i]) = {e \in Range(shown) : weight[e] = N - i}
    OBVIOUS
  <2> DEFINE U == {e \in ToSet(shown) : Weight[s][PhaseKinds[e[1]]] = N - i}
  <2>1. parts[i] = Chosen(shown, U)
    BY DEF Weighing
  <2>2. ToSet(shown) = Range(shown) /\ Range(shown) \subseteq InView
    <3>1. ToSet(shown) = Range(shown)
      BY <1>1 DEF ToSet, Range
    <3>2. Range(shown) \subseteq InView
      BY <1>1 DEF Range
    <3> QED BY <3>1, <3>2
  <2> HIDE DEF shown, parts, N, weight
  <2>3. Range(shown) \cap U = {e \in Range(shown) : weight[e] = N - i}
    BY <1>2, <2>2 DEF KindOf
  <2> HIDE DEF U
  <2> QED BY <1>1, <2>1, <2>3, ChosenHas, ChosenType
<1>6. parts = [i \in 1 .. N |-> parts[i]]
  OBVIOUS
<1> HIDE DEF parts, weight, shown, N, c
<1>7. Blocks(parts, N, InView) /\ Weighed(parts, N, weight)
  BY <1>5, <1>6 DEF Blocks, Weighed
<1>8. /\ c \in Seq(InView) /\ Descending(c, weight)
      /\ \A x : x \in Range(c) <=> \E i \in 1 .. N : x \in Range(parts[i])
  BY <1>0, <1>3, <1>4, <1>7, BlocksDescend
<1>9. Range(c) = Range(shown)
  <2>1. Range(c) \subseteq Range(shown)
    BY <1>5, <1>8
  <2>2. ASSUME NEW e \in Range(shown) PROVE e \in Range(c)
    <3>1. e \in InView
      BY <1>1 DEF Range
    <3>2. PICK w \in 0 .. MaxWeight : weight[e] = w
      BY <1>2, <3>1
    <3>3. N - w \in 1 .. N /\ N - (N - w) = w
      BY <1>0 DEF N
    <3>4. e \in Range(parts[N - w])
      BY <1>5, <3>2, <3>3
    <3> QED BY <1>8, <3>3, <3>4
  <2> QED BY <2>1, <2>2
<1>10. c \in Seq(Said)
  BY <1>8 DEF InView
<1>11. ASSUME NEW i \in DOMAIN c, NEW j \in DOMAIN c, i < j
       PROVE  Weight[s][KindOf(c[i])] >= Weight[s][KindOf(c[j])]
  <2>1. c[i] \in InView /\ c[j] \in InView
    BY <1>8
  <2> QED BY <1>2, <1>8, <1>11, <2>1 DEF Descending
<1> QED BY <1>1, <1>9, <1>10, <1>11 DEF c

-----------------------------------------------------------------------------
(* A seat's own memory: what it builds and shows is of episodes in its log. *)

\* A phase, as an episode.
Episode == DOMAIN PhaseKinds

\* A node of a graph, and a mind.
NodeSet == [kind : {"task", "thought", "summary"}, of : SUBSET Nat,
            state : {"active", "flushed", "folded"}]

MindSet == [nodes : Seq(NodeSet), log : Seq(Episode), raw : Seq(Episode)]

\* What a mind has built, or kept as it was, is of episodes in its log.
MindOK(mind) ==
    /\ mind \in MindSet /\ Len(mind.raw) <= MaxFallback
    /\ Range(mind.raw) \subseteq Range(mind.log)
    /\ \A n \in DOMAIN mind.nodes : mind.nodes[n].of \subseteq DOMAIN mind.log

\* A sequence and one more.
LEMMA AppendHas ==
    ASSUME NEW S, NEW s \in Seq(S), NEW x \in S
    PROVE  /\ Append(s, x) \in Seq(S)
           /\ \A n \in DOMAIN Append(s, x) :
                 Append(s, x)[n] = x \/ (n \in DOMAIN s /\ Append(s, x)[n] = s[n])
<1>1. /\ Append(s, x) \in Seq(S) /\ DOMAIN Append(s, x) = 1 .. Len(s) + 1
      /\ Append(s, x)[Len(s) + 1] = x /\ DOMAIN s = 1 .. Len(s) /\ Len(s) \in Nat
      /\ \A n \in 1 .. Len(s) : Append(s, x)[n] = s[n]
  OBVIOUS
<1>2. \A n \in 1 .. Len(s) + 1 : n \in 1 .. Len(s) \/ n = Len(s) + 1
  BY <1>1
<1> QED BY <1>1, <1>2

\* A mind that has just been opened.
LEMMA OpenedOK == MindOK(Opened) /\ Opened.log = <<>>
<1>1. Node("task", {}) \in NodeSet /\ Node("task", {}).of = {}
  BY DEF Node, NodeSet
<1>2. <<>> \in Seq(Episode) /\ Range(<<>>) = {} /\ Len(<<>>) = 0
  BY DEF Range
<1> DEFINE nodes == <<Node("task", {})>>
<1>3. nodes \in Seq(NodeSet) /\ \A n \in DOMAIN nodes : nodes[n].of = {}
  <2>1. \A x \in NodeSet : <<x>> \in Seq(NodeSet) /\ \A n \in DOMAIN <<x>> : <<x>>[n] = x
    OBVIOUS
  <2> QED BY <1>1, <2>1
<1> HIDE DEF nodes
<1>4. Opened = [nodes |-> nodes, log |-> <<>>, raw |-> <<>>]
  BY DEF Opened, nodes
<1>5. MaxFallback \in Nat
  BY SeatMemoryAssumption
<1>6. Opened \in MindSet
  BY <1>2, <1>3, <1>4 DEF MindSet
<1> QED BY <1>2, <1>3, <1>4, <1>5, <1>6 DEF MindOK

\* A text: pieces, each of which tells of episodes of the log.
TextOf(mind) == Seq(SUBSET Range(mind.log))

\* The graph, as it is printed.
LEMMA StatesShown ==
    ASSUME NEW mind, MindOK(mind), NEW states
    PROVE  InState(mind, states) \in TextOf(mind)
<1> DEFINE T == {n \in ToSet(mind.nodes) : n.state \in states}
           shown == Chosen(mind.nodes, T)
<1>1. InState(mind, states) = [i \in DOMAIN shown |-> Tells(mind, shown[i].of)]
  BY DEF InState
<1>2. mind.nodes \in Seq(NodeSet) /\ mind.log \in Seq(Episode)
  BY DEF MindOK, MindSet
<1> HIDE DEF T
<1>3. shown \in Seq(NodeSet) /\ Range(shown) \subseteq Range(mind.nodes)
  BY <1>2, ChosenType, ChosenHas
<1> HIDE DEF shown
<1>4. ASSUME NEW i \in DOMAIN shown PROVE Tells(mind, shown[i].of) \subseteq Range(mind.log)
  <2>1. PICK n \in DOMAIN mind.nodes : shown[i] = mind.nodes[n]
    BY <1>3 DEF Range
  <2>2. shown[i].of \subseteq DOMAIN mind.log
    BY <2>1 DEF MindOK
  <2> QED BY <2>2 DEF Tells, Range
<1> DEFINE text == [i \in DOMAIN shown |-> Tells(mind, shown[i].of)]
           S == SUBSET Range(mind.log)
<1>5. \A i \in DOMAIN shown : text[i] \in S
  BY <1>4
<1>6. DOMAIN shown = 1 .. Len(shown) /\ Len(shown) \in Nat
  BY <1>3
<1> HIDE DEF S
<1>7. text \in Seq(S)
  BY <1>5, <1>6
<1> QED BY <1>1, <1>7 DEF TextOf, S

\* The raw episodes.
LEMMA RawShown ==
    ASSUME NEW mind, MindOK(mind)
    PROVE  Raw(mind) \in TextOf(mind)
<1> DEFINE S == SUBSET Range(mind.log)
<1>1. mind.raw \in Seq(Episode) /\ Range(mind.raw) \subseteq Range(mind.log)
  BY DEF MindOK, MindSet
<1>2. \A i \in DOMAIN mind.raw : {mind.raw[i]} \in S
  BY <1>1 DEF Range
<1>3. DOMAIN mind.raw = 1 .. Len(mind.raw) /\ Len(mind.raw) \in Nat
  BY <1>1
<1> HIDE DEF S
<1>4. [i \in DOMAIN mind.raw |-> {mind.raw[i]}] \in Seq(S)
  BY <1>2, <1>3
<1> QED BY <1>4 DEF Raw, TextOf, S

\* The log, with its summaries in place.
LEMMA LogShown ==
    ASSUME NEW mind, MindOK(mind)
    PROVE  Organized(mind) \in TextOf(mind)
<1> DEFINE n == Len(mind.log)
           Guarded(i) == i = 1 \/ i >= n - 1
           summaries == {m \in ToSet(mind.nodes) : m.kind = "summary"}
           EndsAt(i) == {m \in summaries : i \in m.of /\ \A j \in m.of : j <= i}
           chosen(i) == CHOOSE m \in EndsAt(i) : TRUE
           Piece(i) == IF Guarded(i) THEN <<{mind.log[i]}>>
                       ELSE IF EndsAt(i) # {} THEN <<Tells(mind, chosen(i).of)>>
                       ELSE IF \E m \in summaries : i \in m.of THEN <<>>
                       ELSE <<{mind.log[i]}>>
           parts == [i \in 1 .. n |-> Piece(i)]
           S == SUBSET Range(mind.log)
<1>1. Organized(mind) = FlattenSeq(parts)
  BY Zenon DEF Organized
<1>2. mind.nodes \in Seq(NodeSet) /\ mind.log \in Seq(Episode) /\ n \in Nat
      /\ DOMAIN mind.log = 1 .. n
  BY DEF MindOK, MindSet
<1>3. \A i \in 1 .. n : {mind.log[i]} \in S
  BY <1>2 DEF Range
<1>4. ASSUME NEW i \in 1 .. n, EndsAt(i) # {} PROVE Tells(mind, chosen(i).of) \in S
  <2> DEFINE c == chosen(i)
  <2>1. c \in EndsAt(i)
    BY <1>4
  <2>2. c \in ToSet(mind.nodes)
    BY <2>1
  <2> HIDE DEF c
  <2>3. PICK k \in DOMAIN mind.nodes : c = mind.nodes[k]
    BY <2>2 DEF ToSet
  <2>4. c.of \subseteq DOMAIN mind.log
    BY <2>3 DEF MindOK
  <2>5. Tells(mind, c.of) \in S
    BY <2>4 DEF Tells, Range
  <2> QED BY <2>5 DEF c
<1>5. \A i \in 1 .. n : EndsAt(i) # {} => Tells(mind, chosen(i).of) \in S
  BY <1>4
<1> HIDE DEF S, chosen, EndsAt, summaries, Guarded
<1>6. \A x \in S : <<x>> \in Seq(S)
  OBVIOUS
<1>7. <<>> \in Seq(S)
  OBVIOUS
<1>8. \A i \in 1 .. n : Piece(i) \in Seq(S)
  BY <1>3, <1>5, <1>6, <1>7, Zenon
<1> HIDE DEF Piece
<1>9. parts = [i \in 1 .. n |-> parts[i]] /\ \A i \in 1 .. n : parts[i] \in Seq(S)
  BY <1>8
<1> HIDE DEF parts
<1>10. FlattenSeq(parts) \in Seq(S)
  BY <1>2, <1>9, FlattenParts
<1> QED BY <1>1, <1>10 DEF TextOf, S

\* What a seat is told is cut off, but is what its mind holds.
LEMMA WithinShown ==
    ASSUME NEW mind, MindOK(mind), NEW text \in TextOf(mind)
    PROVE  Within(text, mind) \in TextOf(mind) /\ Len(Within(text, mind)) <= RecallBudget
<1> DEFINE S == SUBSET Range(mind.log)
           all == text \o Raw(mind)
<1>1. text \in Seq(S) /\ Raw(mind) \in Seq(S)
  BY RawShown DEF TextOf
<1> HIDE DEF S
<1>2. all \in Seq(S)
  BY <1>1
<1>3. RecallBudget \in Nat
  BY SeatMemoryAssumption
<1> DEFINE k == IF Len(all) < RecallBudget THEN Len(all) ELSE RecallBudget
<1>4. Within(text, mind) = SubSeq(all, 1, k)
  BY DEF Within
<1> HIDE DEF all
<1>5. k \in 0 .. Len(all) /\ k <= RecallBudget
  BY <1>2, <1>3
<1> HIDE DEF k
<1>6. SubSeq(all, 1, k) \in Seq(S) /\ Len(SubSeq(all, 1, k)) = k
  <2>1. \A i \in 1 .. k : all[i] \in S
    BY <1>2, <1>5
  <2> QED BY <1>5, <2>1, SubSeqProperties
<1> QED BY <1>4, <1>5, <1>6 DEF TextOf, S

\* The model puts nodes in another state or sums them up: no episode is added.
LEMMA ManagedOK ==
    ASSUME NEW mind, MindOK(mind), NEW after \in Managed(mind)
    PROVE  MindOK(after) /\ after.log = mind.log
<1>0. /\ mind = [nodes |-> mind.nodes, log |-> mind.log, raw |-> mind.raw]
      /\ mind.nodes \in Seq(NodeSet) /\ mind.log \in Seq(Episode) /\ mind.raw \in Seq(Episode)
      /\ DOMAIN mind.nodes = 1 .. Len(mind.nodes) /\ Len(mind.nodes) \in Nat
      /\ \A n \in DOMAIN mind.nodes : mind.nodes[n] \in NodeSet
  BY DEF MindOK, MindSet
<1>a. ASSUME NEW new \in Seq(NodeSet), \A n \in DOMAIN new : new[n].of \subseteq DOMAIN mind.log,
             after = [mind EXCEPT !.nodes = new]
      PROVE  MindOK(after) /\ after.log = mind.log
  <2>1. after = [nodes |-> new, log |-> mind.log, raw |-> mind.raw]
    BY <1>0, <1>a
  <2>2. after \in MindSet
    BY <1>0, <2>1 DEF MindSet
  <2>3. after.nodes = new /\ after.log = mind.log /\ after.raw = mind.raw
    BY <2>1
  <2> QED BY <1>a, <2>2, <2>3 DEF MindOK
<1>1. CASE after = mind
  BY <1>1
<1>2. CASE \E n \in Active(mind) : after = Flushed(mind, n)
  <2>1. PICK n \in DOMAIN mind.nodes : after = Flushed(mind, n)
    BY <1>2 DEF Active
  <2> DEFINE new == [mind.nodes EXCEPT ![n].state = "flushed"]
  <2>2. after = [mind EXCEPT !.nodes = new]
    BY <1>0, <2>1 DEF Flushed
  <2> DEFINE node == [mind.nodes[n] EXCEPT !.state = "flushed"]
  <2>3. node \in NodeSet /\ node.of = mind.nodes[n].of
    BY <1>0 DEF NodeSet
  <2>4. new = [mind.nodes EXCEPT ![n] = node]
    OBVIOUS
  <2> HIDE DEF new, node
  <2>5. new \in Seq(NodeSet) /\ DOMAIN new = DOMAIN mind.nodes
    BY <1>0, <2>3, <2>4
  <2>6. \A k \in DOMAIN new : new[k].of = mind.nodes[k].of
    BY <1>0, <2>3, <2>4, <2>5
  <2>7. \A k \in DOMAIN new : new[k].of \subseteq DOMAIN mind.log
    BY <2>5, <2>6 DEF MindOK
  <2> QED BY <1>a, <2>2, <2>5, <2>7
<1>3. CASE \E span \in SUBSET (DOMAIN mind.nodes) : after = Summarized(mind, span)
  <2>1. PICK span \in SUBSET (DOMAIN mind.nodes) : after = Summarized(mind, span)
    BY <1>3
  <2> DEFINE kept == [n \in DOMAIN mind.nodes |->
                        IF n \in span THEN [mind.nodes[n] EXCEPT !.state = "folded"]
                        ELSE mind.nodes[n]]
             sum == Node("summary", UNION {mind.nodes[n].of : n \in span})
             new == Append(kept, sum)
  <2>2. after = [mind EXCEPT !.nodes = new]
    BY <1>0, <2>1, Zenon DEF Summarized
  <2>3. \A n \in DOMAIN mind.nodes :
           LET f == [mind.nodes[n] EXCEPT !.state = "folded"]
           IN  f \in NodeSet /\ f.of = mind.nodes[n].of
    BY <1>0 DEF NodeSet
  <2>4. kept \in Seq(NodeSet) /\ \A n \in DOMAIN kept : kept[n].of = mind.nodes[n].of
    <3>1. \A n \in DOMAIN mind.nodes : kept[n] \in NodeSet /\ kept[n].of = mind.nodes[n].of
      BY <1>0, <2>3
    <3>2. DOMAIN kept = 1 .. Len(mind.nodes) /\ kept = [n \in 1 .. Len(mind.nodes) |-> kept[n]]
      BY <1>0
    <3> HIDE DEF kept
    <3> QED BY <1>0, <3>1, <3>2
  <2>5. DOMAIN kept = DOMAIN mind.nodes
    OBVIOUS
  <2> HIDE DEF kept
  <2>6. DOMAIN mind.log \subseteq Nat
    BY <1>0
  <2>7. UNION {mind.nodes[n].of : n \in span} \subseteq DOMAIN mind.log
    BY <2>1 DEF MindOK
  <2>8. sum \in NodeSet /\ sum.of \subseteq DOMAIN mind.log
    BY <2>6, <2>7 DEF Node, NodeSet
  <2> HIDE DEF sum
  <2>9. new \in Seq(NodeSet)
    BY <2>4, <2>8, AppendHas
  <2>10. \A n \in DOMAIN new : new[n] = sum \/ (n \in DOMAIN kept /\ new[n] = kept[n])
    BY <2>4, <2>8, AppendHas
  <2>11. \A n \in DOMAIN new : new[n].of \subseteq DOMAIN mind.log
    BY <2>4, <2>5, <2>8, <2>10 DEF MindOK
  <2> HIDE DEF new
  <2> QED BY <1>a, <2>2, <2>9, <2>11
<1>4. after = mind \/ (\E n \in Active(mind) : after = Flushed(mind, n))
      \/ \E span \in SUBSET (DOMAIN mind.nodes) : after = Summarized(mind, span)
  <2>1. \A i, j \in DOMAIN mind.nodes : i .. j \in SUBSET (DOMAIN mind.nodes)
    BY <1>0
  <2> DEFINE Spans == {i .. j : i, j \in DOMAIN mind.nodes} \ {{}}
             spans == {x \in Spans : Cardinality(x) > 1}
  <2>2. Managed(mind) = {mind} \cup {Flushed(mind, n) : n \in Active(mind)}
                           \cup {Summarized(mind, span) : span \in spans}
    BY DEF Managed
  <2>3. \A span \in spans : span \in SUBSET (DOMAIN mind.nodes)
    BY <2>1
  <2> HIDE DEF spans
  <2> QED BY <2>2, <2>3
<1> QED BY <1>1, <1>2, <1>3, <1>4

\* An episode more in the log, in the graph or in the raw list.
LEMMA RememberedOK ==
    ASSUME NEW old, MindOK(old), NEW p \in Episode
    PROVE  LET mind == [old EXCEPT !.log = Append(@, p)]
               kept == Append(mind.raw, p)
           IN  /\ MindOK(mind) /\ mind.log = Append(old.log, p)
               /\ LET built == [mind EXCEPT !.nodes = Append(@, Node("thought", {Len(mind.log)}))]
                  IN  MindOK(built) /\ built.log = mind.log
               /\ LET newest == SubSeq(kept, IF Len(kept) > MaxFallback
                                             THEN Len(kept) - MaxFallback + 1 ELSE 1, Len(kept))
                      raw == [mind EXCEPT !.raw = newest]
                  IN  MindOK(raw) /\ raw.log = mind.log
<1> DEFINE mind == [old EXCEPT !.log = Append(@, p)]
           node == Node("thought", {Len(mind.log)})
           built == [mind EXCEPT !.nodes = Append(@, node)]
           kept == Append(mind.raw, p)
           from == IF Len(kept) > MaxFallback THEN Len(kept) - MaxFallback + 1 ELSE 1
           newest == SubSeq(kept, from, Len(kept))
           raw == [mind EXCEPT !.raw = newest]
<1>0. /\ old = [nodes |-> old.nodes, log |-> old.log, raw |-> old.raw]
      /\ old.nodes \in Seq(NodeSet) /\ old.log \in Seq(Episode) /\ old.raw \in Seq(Episode)
  BY DEF MindOK, MindSet
<1> DEFINE log == Append(old.log, p)
<1>1. mind = [nodes |-> old.nodes, log |-> log, raw |-> old.raw]
  <2>1. mind = [old EXCEPT !.log = log]
    OBVIOUS
  <2> HIDE DEF mind, log
  <2> QED BY <1>0, <2>1
<1>2. mind.nodes = old.nodes /\ mind.log = log /\ mind.raw = old.raw
  BY <1>1
<1>3. /\ log \in Seq(Episode) /\ Len(log) = Len(old.log) + 1 /\ Range(log) = Range(old.log) \cup {p}
      /\ DOMAIN log = 1 .. Len(log) /\ DOMAIN old.log \subseteq DOMAIN log /\ Len(old.log) \in Nat
  BY <1>0, RangeAppend
<1> HIDE DEF log
<1>4. mind \in MindSet
  BY <1>0, <1>1, <1>3 DEF MindSet
<1> HIDE DEF mind
<1>5. MindOK(mind)
  BY <1>2, <1>3, <1>4 DEF MindOK
<1>6. MindOK(built) /\ built.log = mind.log
  <2>1. node \in NodeSet /\ node.of \subseteq DOMAIN log
    BY <1>2, <1>3 DEF Node, NodeSet
  <2> HIDE DEF node
  <2> DEFINE nodes == Append(old.nodes, node)
  <2>2. nodes \in Seq(NodeSet)
    BY <1>0, <2>1, AppendHas
  <2>3. \A n \in DOMAIN nodes :
           nodes[n] = node \/ (n \in DOMAIN old.nodes /\ nodes[n] = old.nodes[n])
    BY <1>0, <2>1, AppendHas
  <2>4. \A n \in DOMAIN nodes : nodes[n].of \subseteq DOMAIN log
    BY <1>3, <2>1, <2>3 DEF MindOK
  <2>0. built = [mind EXCEPT !.nodes = nodes]
    BY <1>2, Zenon
  <2> HIDE DEF nodes, built
  <2>5. built = [nodes |-> nodes, log |-> log, raw |-> old.raw]
    BY <1>1, <2>0
  <2>6. built \in MindSet
    BY <1>0, <1>3, <2>2, <2>5 DEF MindSet
  <2>7. built.nodes = nodes /\ built.log = log /\ built.raw = old.raw
    BY <2>5
  <2> HIDE DEF built
  <2>8. Range(old.raw) \subseteq Range(log) /\ Len(old.raw) <= MaxFallback
    BY <1>3 DEF MindOK
  <2> QED BY <1>2, <2>4, <2>6, <2>7, <2>8 DEF MindOK
<1>7. MindOK(raw) /\ raw.log = mind.log
  <2>0. MaxFallback \in Nat
    BY SeatMemoryAssumption
  <2>1. kept \in Seq(Episode) /\ Len(kept) \in Nat /\ Range(kept) = Range(old.raw) \cup {p}
    BY <1>0, <1>2, RangeAppend
  <2>2. Range(kept) \subseteq Range(log)
    BY <1>3, <2>1 DEF MindOK
  <2> HIDE DEF kept
  <2>3. from \in Nat \ {0} /\ Len(kept) + 1 <= MaxFallback + from
    <3>1. CASE Len(kept) > MaxFallback
      BY <2>0, <2>1, <3>1
    <3>2. CASE ~(Len(kept) > MaxFallback)
      BY <2>0, <2>1, <3>2
    <3> QED BY <3>1, <3>2
  <2>4. from \in Nat \ {0}
    BY <2>3
  <2> HIDE DEF from
  <2>5. /\ newest \in Seq(Episode) /\ Len(newest) <= MaxFallback
        /\ \A i \in DOMAIN newest : \E k \in DOMAIN kept : newest[i] = kept[k]
    <3>1. \A i \in from .. Len(kept) : i \in DOMAIN kept /\ kept[i] \in Episode
      BY <2>1, <2>4
    <3>2. newest = SubSeq(kept, from, Len(kept))
      OBVIOUS
    <3>3. /\ newest \in Seq(Episode)
          /\ Len(newest) = IF from <= Len(kept) THEN Len(kept) - from + 1 ELSE 0
          /\ \A i \in 1 .. Len(newest) : newest[i] = kept[from + i - 1]
      BY <2>1, <2>4, <3>1, SubSeqProperties
    <3> HIDE DEF newest
    <3>4. Len(newest) <= MaxFallback
      BY <2>0, <2>1, <2>3, <2>4, <3>3
    <3>5. ASSUME NEW i \in DOMAIN newest PROVE \E k \in DOMAIN kept : newest[i] = kept[k]
      <4>1. i \in 1 .. Len(newest)
        BY <3>3
      <4>2. from + i - 1 \in from .. Len(kept)
        BY <2>1, <2>4, <3>3, <4>1
      <4> QED BY <3>1, <3>3, <4>1, <4>2
    <3> QED BY <3>3, <3>4, <3>5
  <2> HIDE DEF newest
  <2>6. Range(newest) \subseteq Range(log)
    BY <2>2, <2>5 DEF Range
  <2>m. raw = [mind EXCEPT !.raw = newest]
    OBVIOUS
  <2> HIDE DEF raw
  <2>7. raw = [nodes |-> old.nodes, log |-> log, raw |-> newest]
    BY <1>1, <2>m
  <2>8. raw \in MindSet
    BY <1>0, <1>3, <2>5, <2>7 DEF MindSet
  <2>9. raw.nodes = old.nodes /\ raw.log = log /\ raw.raw = newest
    BY <2>7
  <2> QED BY <1>2, <1>3, <2>5, <2>6, <2>8, <2>9 DEF MindOK
<1> HIDE DEF built, raw
<1> QED BY <1>2, <1>5, <1>6, <1>7 DEF mind, built, raw, newest, kept, from, node, log

-----------------------------------------------------------------------------
(* Phases in their turn. *)

\* Some of the phases, in their order.
InTurn(T) == Chosen([p \in DOMAIN PhaseKinds |-> p], T)

\* The phases are numbered.
LEMMA EpisodesCount ==
    /\ Len(PhaseKinds) \in Nat /\ Episode = 1 .. Len(PhaseKinds)
    /\ [p \in DOMAIN PhaseKinds |-> p] \in Seq(Episode)
    /\ Range([p \in DOMAIN PhaseKinds |-> p]) = Episode
<1>1. Len(PhaseKinds) \in Nat /\ DOMAIN PhaseKinds = 1 .. Len(PhaseKinds)
  BY SeatMemoryAssumption
<1>2. [p \in DOMAIN PhaseKinds |-> p] \in Seq(1 .. Len(PhaseKinds))
  BY <1>1
<1> QED BY <1>1, <1>2 DEF Episode, Range

\* They are the phases of the set.
LEMMA InTurnHas ==
    ASSUME NEW T
    PROVE  InTurn(T) \in Seq(Episode) /\ Range(InTurn(T)) = T \cap Episode
<1>1. InTurn(T) \in Seq(Episode)
  BY EpisodesCount, ChosenType DEF InTurn
<1>2. Range(InTurn(T)) = Range([p \in DOMAIN PhaseKinds |-> p]) \cap T
  BY EpisodesCount, ChosenHas DEF InTurn
<1> QED BY <1>1, <1>2, EpisodesCount

\* None of them.
LEMMA InTurnNothing == InTurn({}) = <<>>
<1>1. InTurn({}) \in Seq(Episode) /\ Range(InTurn({})) = {}
  BY InTurnHas
<1> DEFINE s == InTurn({})
<1>2. s \in Seq(Episode) /\ Range(s) = {}
  BY <1>1
<1> HIDE DEF s
<1>3. DOMAIN s = {}
  BY <1>2 DEF Range
<1>4. s = <<>>
  BY <1>2, <1>3
<1> QED BY <1>4 DEF s

\* A phase after all the others is their last.
LEMMA InTurnNext ==
    ASSUME NEW c \in Episode, NEW T \in SUBSET Nat, \A t \in T : t < c
    PROVE  InTurn(T \cup {c}) = Append(InTurn(T), c)
<1> DEFINE U == T \cup {c}
           first(n) == [p \in 1 .. n |-> p]
           Good(n) == Chosen(first(n), U) = IF n < c THEN Chosen(first(n), T)
                                            ELSE Append(Chosen(first(n), T), c)
           N == {n \in Nat : Good(n)}
<1>0. c \in Nat /\ c >= 1
  BY EpisodesCount
<1>1. 0 \in N
  <2>1. first(0) = <<>>
    OBVIOUS
  <2>2. Chosen(first(0), U) = <<>> /\ Chosen(first(0), T) = <<>>
    BY <2>1, ChosenNothing
  <2> QED BY <1>0, <2>2
<1>2. ASSUME NEW n \in N PROVE n + 1 \in N
  <2>1. n \in Nat /\ Good(n)
    OBVIOUS
  <2>2. first(n) \in Seq(Nat) /\ n + 1 \in Nat
    BY <2>1
  <2>3. first(n + 1) = Append(first(n), n + 1)
    BY <2>1
  <2> DEFINE a == first(n)
             b == first(n + 1)
  <2>a. a \in Seq(Nat) /\ b = Append(a, n + 1) /\ n + 1 \in Nat
    BY <2>2, <2>3
  <2>b. \A s \in Seq(Nat) : \A e \in Nat : \A V :
           Chosen(Append(s, e), V) = IF e \in V THEN Append(Chosen(s, V), e) ELSE Chosen(s, V)
    BY ChosenAppend
  <2>4. /\ Chosen(b, U) = IF n + 1 \in U THEN Append(Chosen(a, U), n + 1) ELSE Chosen(a, U)
        /\ Chosen(b, T) = IF n + 1 \in T THEN Append(Chosen(a, T), n + 1) ELSE Chosen(a, T)
    <3> HIDE DEF a, b, U
    <3>1. \A V : Chosen(Append(a, n + 1), V)
                    = IF n + 1 \in V THEN Append(Chosen(a, V), n + 1) ELSE Chosen(a, V)
      BY <2>a, <2>b, Zenon
    <3>2. \A V : Chosen(b, V)
                    = IF n + 1 \in V THEN Append(Chosen(a, V), n + 1) ELSE Chosen(a, V)
      BY <2>a, <3>1, Zenon
    <3> QED BY <3>2, Zenon
  <2>5. Chosen(a, U) = IF n < c THEN Chosen(a, T) ELSE Append(Chosen(a, T), c)
    BY <2>1
  <2> HIDE DEF a, b
  <2>6. Chosen(b, U) = IF n + 1 < c THEN Chosen(b, T) ELSE Append(Chosen(b, T), c)
    <3>1. CASE n + 1 < c
      BY <1>0, <2>1, <2>4, <2>5, <3>1
    <3>2. CASE n + 1 = c
      <4>1. n < c /\ n + 1 \notin T /\ n + 1 \in U /\ ~(n + 1 < c)
        BY <1>0, <2>1, <3>2
      <4> QED BY <2>4, <2>5, <3>2, <4>1
    <3>3. CASE n + 1 > c
      <4>1. ~(n < c) /\ n + 1 \notin T /\ n + 1 \notin U /\ ~(n + 1 < c)
        BY <1>0, <2>1, <3>3
      <4> QED BY <2>4, <2>5, <4>1
    <3> QED BY <1>0, <2>1, <3>1, <3>2, <3>3
  <2> QED BY <2>1, <2>6 DEF b
<1>3. N = Nat
  <2> HIDE DEF N
  <2>1. N \in SUBSET Nat
    BY DEF N
  <2> QED BY <1>1, <1>2, <2>1, EveryNumber
<1> DEFINE all == Len(PhaseKinds)
<1>4. all \in Nat /\ ~(all < c) /\ first(all) = [p \in DOMAIN PhaseKinds |-> p]
  BY <1>0, EpisodesCount DEF Episode
<1>5. Good(all)
  BY <1>3, <1>4
<1> HIDE DEF first
<1> QED BY <1>4, <1>5 DEF InTurn

-----------------------------------------------------------------------------
(***************************************************************************)
(* The invariant of a pass.                                                *)
(***************************************************************************)

\* A pass is going on.
Running == pace \notin {"off", "ended"}

\* A row of the roll.
RollRow == [{} -> {"completed", "absent"}] \cup [Member -> {"completed", "absent"}]

\* Whose turn it is.
PassTyped ==
    /\ pace \in {"off", "recall", "deliberate", "remember", "emit", "store", "ended"}
    /\ nth \in DOMAIN Members /\ (pace \notin {"recall", "remember"} => nth = 1)
    /\ spoke \in SUBSET Member
    /\ adapter \in {"brain", "graph"} /\ mishaps \in 0 .. MaxMishaps

\* The checkpoint counts phases, and no more are forgotten.
CountsOK ==
    /\ stored.phases \in 0 .. Len(PhaseKinds)
    /\ stored.since \in 0 .. stored.phases /\ forgotten \in 0 .. stored.phases
    /\ Running => stored.phases < Len(PhaseKinds)

\* Who spoke was there, and what is uncommitted is what they said.
RowsOK ==
    /\ attendance \in RollRow /\ roll \in [Episode -> RollRow]
    /\ pace \in {"remember", "emit", "store"} =>
          \A s \in spoke : DOMAIN attendance = Member /\ attendance[s] = "completed"

\* Only a phase that is being stored has events to commit: its own.
LedgerOK ==
    /\ events \in Seq(Said) /\ uncommitted \in Seq(Said)
    /\ Range(uncommitted) = IF pace = "store" THEN {Current} \X spoke ELSE {}

\* A view of the frontier is a list of events.
CutsOK == cut \in [Member -> Seq(Said)]

\* The phases of which a seat has an episode.
Past(s, since, done, said) == {p \in Episode : p > since /\ p <= done /\ <<p, s>> \in said}

\* The seat has an episode of the current phase.
Memorized(i) ==
    Members[i] \in spoke /\ (pace \in {"emit", "store"} \/ (pace = "remember" /\ i < nth))

\* The phases of its log.
OwnPhases(i) ==
    Past(Members[i], forgotten, stored.phases, Range(events))
        \cup IF Memorized(i) THEN {Current} ELSE {}

\* Every seat has a mind.
MindsOK(m) == m \in [Member -> MindSet] /\ \A s \in Member : MindOK(m[s])

\* A log is its phases in turn, in a pass and in a snapshot.
LogsOK == \A i \in DOMAIN Members : minds[Members[i]].log = InTurn(OwnPhases(i))

SnapshotOK(m) ==
    /\ MindsOK(m)
    /\ \A s \in Member :
          m[s].log = InTurn(Past(s, stored.since, stored.phases, Range(events)))

\* What the pass has, and what it could be given back.
MindsKept ==
    /\ MindsOK(minds) /\ (Running => LogsOK)
    /\ stored.memory # NoSnapshot => SnapshotOK(stored.memory[1])

\* A piece of text of phases in which the seat spoke.
OwnWords(s, said) == SUBSET {p \in Episode : <<p, s>> \in said}

\* No seat is told of anything else.
ToldOK ==
    /\ DOMAIN told = Member
    /\ \A s \in Member :
          told[s] \in Seq(OwnWords(s, Range(events))) /\ Len(told[s]) <= RecallBudget

\* All of it.
MemoryInv ==
    /\ PassTyped /\ CountsOK
    /\ RowsOK /\ AttendanceIsTheLedger
    /\ LedgerOK /\ PhasesAreWhole
    /\ FrontierIsTheLedger /\ CutsOK /\ RolesShareTheFrontier
    /\ MindsKept /\ ToldOK

-----------------------------------------------------------------------------
(* The order of the seats and of the steps, and the beginning of a pass. *)

\* The seats, each once.
LEMMA TheMembers ==
    /\ Members \in Seq(Member) /\ Len(Members) \in Nat /\ Len(Members) >= 1
    /\ DOMAIN Members = 1 .. Len(Members)
    /\ \A i \in DOMAIN Members : Members[i] \in Member
    /\ \A s \in Member : \E i \in DOMAIN Members : s = Members[i]
    /\ \A i, j \in DOMAIN Members : Members[i] = Members[j] => i = j
<1>1. Members \in Seq(Member) /\ Members # <<>> /\ IsInjective(Members)
  BY SeatMemoryAssumption
<1>2. Len(Members) \in Nat /\ DOMAIN Members = 1 .. Len(Members)
      /\ \A i \in DOMAIN Members : Members[i] \in Member
  BY <1>1
<1>3. Len(Members) >= 1
  BY <1>1, <1>2
<1>4. Member = {Members[i] : i \in DOMAIN Members}
  BY DEF Member, ToSet
<1>5. \A i, j \in DOMAIN Members : Members[i] = Members[j] => i = j
  BY <1>1 DEF IsInjective
<1>6. \A s \in Member : \E i \in DOMAIN Members : s = Members[i]
  BY <1>4
<1> QED BY <1>1, <1>2, <1>3, <1>5, <1>6

\* The steps of a phase.
LEMMA AfterTheSteps ==
    /\ After("recall") = "deliberate" /\ After("deliberate") = "remember"
    /\ After("remember") = "emit" /\ After("emit") = "store"
<1>1. /\ DOMAIN Steps = 1 .. 5 /\ Steps[1] = "recall" /\ Steps[2] = "deliberate"
      /\ Steps[3] = "remember" /\ Steps[4] = "emit" /\ Steps[5] = "store"
  BY DEF Steps
<1>2. \A i \in DOMAIN Steps : i = 1 \/ i = 2 \/ i = 3 \/ i = 4 \/ i = 5
  BY <1>1
<1> HIDE DEF Steps
<1>3. (CHOOSE i \in DOMAIN Steps : Steps[i] = "recall") = 1
  BY <1>1, <1>2
<1>4. (CHOOSE i \in DOMAIN Steps : Steps[i] = "deliberate") = 2
  BY <1>1, <1>2
<1>5. (CHOOSE i \in DOMAIN Steps : Steps[i] = "remember") = 3
  BY <1>1, <1>2
<1>6. (CHOOSE i \in DOMAIN Steps : Steps[i] = "emit") = 4
  BY <1>1, <1>2
<1> QED BY <1>1, <1>3, <1>4, <1>5, <1>6 DEF After

\* The next seat, or the next step.
LEMMA NextTurnTyped ==
    ASSUME PassTyped, NextTurn, pace \in {"recall", "remember"}
    PROVE  /\ nth' \in DOMAIN Members
           /\ \/ pace' = pace /\ nth < Len(Members) /\ nth' = nth + 1
              \/ pace' = After(pace) /\ nth = Len(Members) /\ nth' = 1
<1>1. nth \in 1 .. Len(Members) /\ Len(Members) \in Nat
  BY TheMembers DEF PassTyped
<1>2. CASE nth < Len(Members)
  <2>1. nth' = nth + 1 /\ pace' = pace
    BY <1>2 DEF NextTurn
  <2>2. nth + 1 \in 1 .. Len(Members)
    BY <1>1, <1>2
  <2> QED BY <1>2, <2>1, <2>2, TheMembers
<1>3. CASE ~(nth < Len(Members))
  <2>1. nth' = 1 /\ pace' = After(pace)
    BY <1>3 DEF NextTurn
  <2>2. nth = Len(Members) /\ 1 \in 1 .. Len(Members)
    BY <1>1, <1>3
  <2> QED BY <2>1, <2>2, TheMembers
<1> QED BY <1>2, <1>3

\* Nothing is uncommitted but in the last step: the audit row of a call commits nothing.
LEMMA NothingToCommit ==
    ASSUME LedgerOK, pace # "store"
    PROVE  /\ uncommitted = <<>>
           /\ CommitSession => UNCHANGED <<events, uncommitted>>
<1>1. events \in Seq(Said) /\ uncommitted \in Seq(Said) /\ Range(uncommitted) = {}
  BY DEF LedgerOK
<1>2. uncommitted = <<>>
  <2>1. DOMAIN uncommitted = {}
    BY <1>1 DEF Range
  <2> QED BY <1>1, <2>1
<1>3. events \o <<>> = events
  <2>1. \A S : \A t \in Seq(S) : t \o <<>> = t
    BY ConcatEmptySeq
  <2> QED BY <1>1, <2>1, Zenon
<1> QED BY <1>2, <1>3 DEF CommitSession

\* The attendance of a phase that polled nobody.
LEMMA NoRow == NoSeat \in RollRow /\ DOMAIN NoSeat = {}
<1>1. NoSeat \in [{} -> {"completed", "absent"}]
  BY DEF NoSeat
<1> QED BY <1>1 DEF RollRow, NoSeat

\* What is not of the ledger's or the checkpoint's is kept where they are.
LEMMA EmptyPast ==
    ASSUME NEW s, NEW done \in Nat, NEW said
    PROVE  Past(s, done, done, said) = {}
BY EpisodesCount DEF Past

\* It holds before the first pass.
LEMMA MemoryInitially == MemoryInit => MemoryInv
<1> SUFFICES ASSUME MemoryInit PROVE MemoryInv
  OBVIOUS
<1> USE DEF MemoryInit
<1>1. PassTyped
  BY TheMembers, SeatMemoryAssumption DEF PassTyped
<1>2. CountsOK
  <2>1. stored.phases = 0 /\ stored.since = 0 /\ forgotten = 0
    OBVIOUS
  <2> QED BY <2>1, EpisodesCount DEF CountsOK, Running
<1>3. RowsOK /\ AttendanceIsTheLedger
  <2>1. attendance = NoSeat /\ roll = [p \in Episode |-> NoSeat] /\ events = <<>> /\ pace = "off"
    BY DEF Episode
  <2>2. RowsOK
    BY <2>1, NoRow DEF RowsOK
  <2>3. ToSet(events) = {}
    BY <2>1 DEF ToSet
  <2> QED BY <2>1, <2>2, <2>3 DEF AttendanceIsTheLedger, Episode
<1>4. LedgerOK /\ PhasesAreWhole
  <2>1. events = <<>> /\ uncommitted = <<>> /\ pace = "off" /\ ToSet(events) = {}
    BY DEF ToSet
  <2>2. Range(uncommitted) = {}
    BY <2>1 DEF Range
  <2> QED BY <2>1, <2>2 DEF LedgerOK, PhasesAreWhole
<1>5. FrontierIsTheLedger /\ RolesShareTheFrontier
  BY DEF FrontierIsTheLedger, RolesShareTheFrontier
<1>6. CutsOK
  <2>1. cut = [s \in Member |-> <<>>]
    OBVIOUS
  <2> QED BY <2>1 DEF CutsOK
<1>7. MindsKept
  <2>1. minds = [s \in Member |-> Opened] /\ stored.memory = NoSnapshot /\ pace = "off"
    OBVIOUS
  <2>2. \A s \in Member : minds[s] = Opened
    BY <2>1
  <2>3. MindOK(Opened) /\ Opened \in MindSet
    BY OpenedOK DEF MindOK
  <2>4. MindsOK(minds)
    BY <2>1, <2>2, <2>3 DEF MindsOK
  <2> QED BY <2>1, <2>4 DEF MindsKept, Running
<1>8. ToldOK
  <2>1. told = [s \in Member |-> <<>>]
    OBVIOUS
  <2>2. RecallBudget \in Nat
    BY SeatMemoryAssumption
  <2>3. ASSUME NEW S PROVE <<>> \in Seq(S) /\ Len(<<>>) = 0
    OBVIOUS
  <2> QED BY <2>1, <2>2, <2>3 DEF ToldOK
<1> QED BY <1>1, <1>2, <1>3, <1>4, <1>5, <1>6, <1>7, <1>8 DEF MemoryInv

\* Where the ledger, the checkpoint and the roll do not change.
LEMMA LedgerUntouched ==
    ASSUME MemoryInv, UNCHANGED <<events, roll>>, stored' = stored
    PROVE  AttendanceIsTheLedger' /\ PhasesAreWhole'
BY DEF MemoryInv, AttendanceIsTheLedger, PhasesAreWhole

\* A pass goes on from the checkpoint, with the memory it holds or without.
LEMMA OpenPassKeeps == MemoryInv /\ OpenPass => MemoryInv'
<1> SUFFICES ASSUME MemoryInv, OpenPass PROVE MemoryInv'
  OBVIOUS
<1>0. /\ pace = "off" /\ stored.phases < Len(PhaseKinds) /\ pace' = "recall"
      /\ nth' = 1 /\ spoke' = {} /\ adapter' \in {"brain", "graph"}
      /\ mishaps' \in 0 .. MaxMishaps
      /\ minds' = Restored /\ forgotten' = (IF Usable THEN stored.since ELSE stored.phases)
      /\ frontier' = (IF stored.phases = 0 THEN NoFrontier ELSE History)
      /\ UNCHANGED <<attendance, roll, events, uncommitted, stored, told, cut>>
  <2>1. mishaps \in 0 .. MaxMishaps /\ adapter \in {"brain", "graph"} /\ MaxMishaps \in Nat
    BY SeatMemoryAssumption DEF MemoryInv, PassTyped
  <2>2. mishaps' \in 0 .. MaxMishaps /\ adapter' \in {"brain", "graph"}
    BY <2>1 DEF OpenPass, Mishap
  <2> QED BY <2>2 DEF OpenPass
<1>1. PassTyped'
  BY <1>0, TheMembers DEF PassTyped
<1>2. CountsOK'
  <2>1. /\ stored.phases \in 0 .. Len(PhaseKinds) /\ stored.since \in 0 .. stored.phases
        /\ stored.phases < Len(PhaseKinds)
    BY <1>0 DEF MemoryInv, CountsOK
  <2>2. forgotten' \in 0 .. stored.phases
    BY <1>0, <2>1, EpisodesCount
  <2> QED BY <1>0, <2>1, <2>2 DEF CountsOK, Running
<1>3. RowsOK' /\ AttendanceIsTheLedger' /\ PhasesAreWhole'
  BY <1>0, LedgerUntouched DEF MemoryInv, RowsOK
<1>4. LedgerOK' /\ uncommitted = <<>>
  BY <1>0, NothingToCommit DEF MemoryInv, LedgerOK
<1>5. FrontierIsTheLedger'
  <2>1. events \in Seq(Said) /\ events' \o uncommitted' = events
    BY <1>0, <1>4 DEF LedgerOK
  <2>2. stored.phases = 0 => events = <<>>
    <3>1. \A e \in ToSet(events) : e[1] <= stored.phases
      BY DEF MemoryInv, PhasesAreWhole
    <3>2. \A i \in DOMAIN events : events[i] \in Said /\ events[i] \in ToSet(events)
      BY <2>1 DEF ToSet
    <3>3. \A e \in Said : e[1] >= 1 /\ e[1] \in Nat
      BY EpisodesCount DEF Said, Episode
    <3>4. ASSUME stored.phases = 0, NEW i \in DOMAIN events PROVE FALSE
      <4>1. events[i] \in Said /\ events[i][1] <= stored.phases
        BY <3>1, <3>2
      <4>2. events[i][1] >= 1 /\ events[i][1] \in Nat
        BY <3>3, <4>1
      <4> QED BY <3>4, <4>1, <4>2
    <3>5. stored.phases = 0 => DOMAIN events = {}
      BY <3>4
    <3> QED BY <2>1, <3>5
  <2>3. frontier' = Absorbed(NoFrontier, events)
    BY <1>0, <2>2, AbsorbedNothing DEF History
  <2> QED BY <2>1, <2>3 DEF FrontierIsTheLedger
<1>6. CutsOK' /\ RolesShareTheFrontier'
  BY <1>0 DEF MemoryInv, CutsOK, RolesShareTheFrontier
<1>7. MindsKept'
  <2>0. stored.memory # NoSnapshot => SnapshotOK(stored.memory[1])
    BY DEF MemoryInv, MindsKept
  <2>1. /\ MindsOK(Restored)
        /\ \A s \in Member :
              Restored[s].log = InTurn(Past(s, forgotten', stored.phases, Range(events)))
    <3>1. CASE Usable
      <4>1. Restored = stored.memory[1] /\ forgotten' = stored.since
        BY <1>0, <3>1 DEF Restored
      <4>2. SnapshotOK(stored.memory[1])
        BY <2>0, <3>1 DEF Usable
      <4> QED BY <4>1, <4>2 DEF SnapshotOK
    <3>2. CASE ~Usable
      <4>1. Restored = [s \in Member |-> Opened] /\ forgotten' = stored.phases
        BY <1>0, <3>2 DEF Restored
      <4>2. \A s \in Member : Restored[s] = Opened
        BY <4>1
      <4>3. MindOK(Opened) /\ Opened \in MindSet /\ Opened.log = <<>>
        BY OpenedOK DEF MindOK
      <4>4. MindsOK(Restored)
        BY <4>1, <4>2, <4>3 DEF MindsOK
      <4>5. stored.phases \in Nat
        BY EpisodesCount DEF MemoryInv, CountsOK
      <4>6. \A s \in Member : Past(s, forgotten', stored.phases, Range(events)) = {}
        BY <4>1, <4>5, EmptyPast
      <4> QED BY <4>2, <4>3, <4>4, <4>6, InTurnNothing
    <3> QED BY <3>1, <3>2
  <2>2. \A i \in DOMAIN Members :
           OwnPhases(i)' = Past(Members[i], forgotten', stored.phases, Range(events))
    BY <1>0 DEF OwnPhases, Memorized
  <2>3. MindsOK(minds)' /\ LogsOK'
    BY <1>0, <2>1, <2>2, TheMembers DEF LogsOK, MindsOK
  <2>4. (stored.memory # NoSnapshot => SnapshotOK(stored.memory[1]))'
    BY <1>0, <2>0 DEF SnapshotOK
  <2> QED BY <2>3, <2>4 DEF MindsKept
<1>8. ToldOK'
  BY <1>0 DEF MemoryInv, ToldOK
<1> QED BY <1>1, <1>2, <1>3, <1>4, <1>5, <1>6, <1>7, <1>8 DEF MemoryInv

-----------------------------------------------------------------------------
(* Recalling and deliberating. *)

\* A step that commits nothing and stores nothing.
LEMMA SnapshotUntouched ==
    ASSUME MemoryInv, UNCHANGED events, stored' = stored
    PROVE  (stored.memory # NoSnapshot => SnapshotOK(stored.memory[1]))'
<1>1. stored.memory # NoSnapshot => SnapshotOK(stored.memory[1])
  BY DEF MemoryInv, MindsKept
<1> QED BY <1>1 DEF SnapshotOK

\* The log of a seat, and what a text of it can tell of.
LEMMA OfItsOwn ==
    ASSUME MemoryInv, pace = "recall", NEW i \in DOMAIN Members,
           NEW text \in TextOf(minds[Members[i]])
    PROVE  text \in Seq(OwnWords(Members[i], Range(events)))
<1> DEFINE s == Members[i]
           log == minds[s].log
           R == Range(log)
<1>1. log = InTurn(OwnPhases(i))
  BY DEF MemoryInv, MindsKept, LogsOK, Running
<1>2. OwnPhases(i) = Past(s, forgotten, stored.phases, Range(events))
  BY DEF OwnPhases, Memorized
<1>3. R = OwnPhases(i) \cap Episode
  BY <1>1, InTurnHas
<1>4. R \subseteq {p \in Episode : <<p, s>> \in Range(events)}
  BY <1>2, <1>3 DEF Past
<1>5. SUBSET R \subseteq OwnWords(s, Range(events))
  BY <1>4 DEF OwnWords
<1>6. text \in Seq(SUBSET R)
  BY DEF TextOf
<1> HIDE DEF R, s
<1>7. text \in Seq(OwnWords(s, Range(events)))
  BY <1>5, <1>6, Widen
<1> QED BY <1>7 DEF s

\* A seat is told of its own log, whatever the memory model made of its graph.
LEMMA RecallKeeps == MemoryInv /\ Recall => MemoryInv'
<1> SUFFICES ASSUME MemoryInv, Recall PROVE MemoryInv'
  OBVIOUS
<1> DEFINE mind == minds[Turn]
<1>a. /\ PassTyped /\ CountsOK /\ RowsOK /\ LedgerOK /\ CutsOK /\ MindsKept /\ ToldOK
      /\ FrontierIsTheLedger
  BY DEF MemoryInv
<1>b. pace = "recall" /\ NextTurn
      /\ UNCHANGED <<spoke, attendance, roll, frontier, stored, adapter, cut, forgotten>>
  BY DEF Recall
<1>c. UNCHANGED <<events, uncommitted>> /\ uncommitted = <<>>
  BY <1>a, <1>b, NothingToCommit DEF Recall
<1>d. Turn \in Member /\ MindOK(mind)
  BY <1>a, TheMembers DEF PassTyped, MindsKept, MindsOK, Turn
<1>e. /\ nth' \in DOMAIN Members /\ pace' \in {"recall", "deliberate"}
      /\ (pace' # "recall" => nth' = 1)
  BY <1>a, <1>b, NextTurnTyped, AfterTheSteps
<1>f. mishaps' \in 0 .. MaxMishaps
  <2>1. mishaps \in 0 .. MaxMishaps /\ MaxMishaps \in Nat
    BY <1>a, SeatMemoryAssumption DEF PassTyped
  <2>2. UNCHANGED mishaps \/ Mishap
    BY DEF Recall
  <2> QED BY <2>1, <2>2 DEF Mishap
<1>g. \E text \in TextOf(mind) : told' = [told EXCEPT ![Turn] = Within(text, mind)]
  <2>1. active_frontier(mind) \in TextOf(mind) /\ pretty_print(mind) \in TextOf(mind)
    BY <1>d, StatesShown DEF active_frontier, pretty_print
  <2>2. Raw(mind) \in TextOf(mind)
    BY <1>d, RawShown
  <2>3. \A after \in Managed(mind) : Organized(after) \in TextOf(mind)
    BY <1>d, ManagedOK, LogShown DEF TextOf
  <2> DEFINE Tell(text) == told' = [told EXCEPT ![Turn] = Within(text, mind)]
  <2>4. \/ Tell(active_frontier(mind)) \/ Tell(pretty_print(mind)) \/ Tell(Raw(mind))
        \/ \E after \in Managed(mind) : Tell(Organized(after))
    BY DEF Recall
  <2> HIDE DEF mind
  <2> QED BY <2>1, <2>2, <2>3, <2>4
<1>h. minds' = minds \/ \E after \in Managed(mind) : minds' = [minds EXCEPT ![Turn] = after]
  BY DEF Recall
<1>1. PassTyped'
  BY <1>a, <1>b, <1>e, <1>f DEF PassTyped
<1>2. CountsOK'
  BY <1>a, <1>b, <1>e DEF CountsOK, Running
<1>3. RowsOK' /\ AttendanceIsTheLedger' /\ PhasesAreWhole'
  BY <1>a, <1>b, <1>c, <1>e, LedgerUntouched DEF RowsOK
<1>4. LedgerOK'
  BY <1>a, <1>b, <1>c, <1>e DEF LedgerOK
<1>5. FrontierIsTheLedger'
  BY <1>a, <1>b, <1>c DEF FrontierIsTheLedger
<1>6. CutsOK' /\ RolesShareTheFrontier'
  BY <1>a, <1>b, <1>e DEF CutsOK, RolesShareTheFrontier
<1>7. MindsKept'
  <2>1. \A i \in DOMAIN Members : OwnPhases(i)' = OwnPhases(i)
    BY <1>b, <1>c, <1>e DEF OwnPhases, Memorized
  <2>2. MindsOK(minds) /\ LogsOK
    BY <1>a, <1>b DEF MindsKept, Running
  <2>3. MindsOK(minds') /\ \A s \in Member : minds'[s].log = minds[s].log
    <3>1. CASE minds' = minds
      BY <2>2, <3>1
    <3>2. CASE \E after \in Managed(mind) : minds' = [minds EXCEPT ![Turn] = after]
      <4>1. PICK after \in Managed(mind) : minds' = [minds EXCEPT ![Turn] = after]
        BY <3>2
      <4>2. MindOK(after) /\ after.log = mind.log /\ after \in MindSet
        BY <1>d, ManagedOK DEF MindOK
      <4>3. minds' \in [Member -> MindSet]
        BY <1>d, <2>2, <4>1, <4>2 DEF MindsOK
      <4>4. \A s \in Member : minds'[s] = IF s = Turn THEN after ELSE minds[s]
        BY <1>d, <2>2, <4>1 DEF MindsOK
      <4> QED BY <2>2, <4>2, <4>3, <4>4 DEF MindsOK
    <3> QED BY <1>h, <3>1, <3>2
  <2>4. MindsOK(minds)' /\ LogsOK'
    BY <2>1, <2>2, <2>3, TheMembers DEF LogsOK, MindsOK
  <2> QED BY <1>b, <1>c, <2>4, SnapshotUntouched DEF MindsKept
<1>8. ToldOK'
  <2>1. PICK text \in TextOf(mind) : told' = [told EXCEPT ![Turn] = Within(text, mind)]
    BY <1>g
  <2>2. Within(text, mind) \in TextOf(mind) /\ Len(Within(text, mind)) <= RecallBudget
    BY <1>d, WithinShown
  <2>3. Within(text, mind) \in Seq(OwnWords(Turn, Range(events)))
    BY <1>a, <1>b, <2>2, OfItsOwn DEF PassTyped, Turn
  <2>4. DOMAIN told' = Member
        /\ \A s \in Member : told'[s] = IF s = Turn THEN Within(text, mind) ELSE told[s]
    BY <1>a, <1>d, <2>1 DEF ToldOK
  <2> QED BY <1>a, <1>c, <2>2, <2>3, <2>4 DEF ToldOK
<1> QED BY <1>1, <1>2, <1>3, <1>4, <1>5, <1>6, <1>7, <1>8 DEF MemoryInv

\* Every seat is shown the frontier, which is the ledger.
LEMMA DeliberateKeeps == MemoryInv /\ Deliberate => MemoryInv'
<1> SUFFICES ASSUME MemoryInv, Deliberate PROVE MemoryInv'
  OBVIOUS
<1>a. /\ PassTyped /\ CountsOK /\ RowsOK /\ LedgerOK /\ CutsOK /\ MindsKept /\ ToldOK
      /\ FrontierIsTheLedger
  BY DEF MemoryInv
<1>b. /\ pace = "deliberate" /\ cut' = [s \in Member |-> perspective_recall(s)]
      /\ UNCHANGED <<nth, roll, minds, frontier, events, uncommitted, stored, adapter, told,
                     forgotten>>
  BY DEF Deliberate
<1>c. uncommitted = <<>> /\ nth = 1
  BY <1>a, <1>b, NothingToCommit DEF PassTyped
<1>d. /\ spoke' \in SUBSET Member
      /\ pace' = "remember" \/ (pace' = "store" /\ spoke' = {})
  BY AfterTheSteps DEF Deliberate
<1>e. mishaps' \in 0 .. MaxMishaps
  <2>1. mishaps \in 0 .. MaxMishaps /\ MaxMishaps \in Nat
    BY <1>a, SeatMemoryAssumption DEF PassTyped
  <2>2. UNCHANGED mishaps \/ Mishap
    BY DEF Deliberate
  <2> QED BY <2>1, <2>2 DEF Mishap
<1>f. /\ attendance' \in RollRow
      /\ \A s \in spoke' : DOMAIN attendance' = Member /\ attendance'[s] = "completed"
  <2>1. \A absent : Attended(absent) \in RollRow /\ DOMAIN Attended(absent) = Member
                    /\ \A s \in Member \ absent : Attended(absent)[s] = "completed"
    BY DEF Attended, RollRow
  <2>2. \/ spoke' = Member /\ attendance' = Attended({})
        \/ \E mute \in SUBSET Member :
              spoke' = Member \ mute /\ attendance' \in {Attended(mute), Attended({})}
        \/ spoke' = {} /\ attendance' = NoSeat
    BY DEF Deliberate
  <2> QED BY <2>1, <2>2, NoRow
<1>1. PassTyped'
  BY <1>a, <1>b, <1>c, <1>d, <1>e DEF PassTyped
<1>2. CountsOK'
  BY <1>a, <1>b, <1>d DEF CountsOK, Running
<1>3. RowsOK' /\ AttendanceIsTheLedger' /\ PhasesAreWhole'
  BY <1>a, <1>b, <1>f, LedgerUntouched DEF RowsOK
<1>4. LedgerOK'
  <2>1. Range(uncommitted) = {}
    BY <1>a, <1>b DEF LedgerOK
  <2>2. pace' = "store" => {Current'} \X spoke' = {}
    BY <1>d
  <2> QED BY <1>a, <1>b, <2>1, <2>2 DEF LedgerOK
<1>5. FrontierIsTheLedger'
  BY <1>a, <1>b DEF FrontierIsTheLedger
<1>6. CutsOK' /\ RolesShareTheFrontier'
  <2>1. events \in Seq(Said) /\ events \o uncommitted = events
    BY <1>a, <1>c, ConcatEmptySeq DEF LedgerOK
  <2>2. frontier = Absorbed(NoFrontier, events)
    BY <1>a, <1>b, <2>1 DEF FrontierIsTheLedger
  <2>3. frontier \in Frontiers /\ Indexed(frontier, Range(events))
    BY <2>1, <2>2, AbsorbedIndexes
  <2>4. Range(events) \in SUBSET Said /\ ToSet(events) = Range(events)
    BY <2>1 DEF ToSet, Range
  <2>5. \A s \in Member :
           /\ cut'[s] = perspective_recall(s) /\ cut'[s] \in Seq(Said)
           /\ Range(cut'[s]) = {e \in Range(events) : KindOf(e) \in Projected}
           /\ \A i, j \in DOMAIN cut'[s] :
                 i < j => Weight[s][KindOf(cut'[s][i])] >= Weight[s][KindOf(cut'[s][j])]
    BY <1>b, <2>3, <2>4, CutShows
  <2>6. CutsOK'
    BY <1>b, <2>5 DEF CutsOK
  <2>7. \A s \in Member : ToSet(cut'[s]) = Range(cut'[s])
    BY DEF ToSet, Range
  <2>8. RolesShareTheFrontier'
    BY <1>b, <2>4, <2>5, <2>7 DEF RolesShareTheFrontier, KindOf
  <2> QED BY <2>6, <2>8
<1>7. MindsKept'
  <2>0. \A i \in DOMAIN Members : i \in Nat /\ ~(i < 1)
    BY TheMembers
  <2>1. \A i \in DOMAIN Members : ~Memorized(i) /\ ~Memorized(i)'
    BY <1>b, <1>c, <1>d, <2>0 DEF Memorized
  <2>2. \A i \in DOMAIN Members : OwnPhases(i)' = OwnPhases(i)
    BY <1>b, <2>1 DEF OwnPhases
  <2>3. MindsOK(minds)' /\ LogsOK'
    BY <1>a, <1>b, <2>2 DEF MindsKept, MindsOK, LogsOK, Running
  <2> QED BY <1>b, <2>3, SnapshotUntouched DEF MindsKept
<1>8. ToldOK'
  BY <1>a, <1>b DEF ToldOK
<1> QED BY <1>1, <1>2, <1>3, <1>4, <1>5, <1>6, <1>7, <1>8 DEF MemoryInv

-----------------------------------------------------------------------------
(* Remembering and appending. *)

\* The phase that runs is one after those of the checkpoint.
LEMMA TheCurrent ==
    ASSUME CountsOK, Running
    PROVE  /\ Current \in Episode /\ Current = stored.phases + 1 /\ stored.phases \in Nat
           /\ forgotten \in Nat /\ forgotten < Current
           /\ \A s, since, said : Past(s, since, stored.phases, said) \in SUBSET Nat
           /\ \A s, since, said : \A p \in Past(s, since, stored.phases, said) : p < Current
<1>1. /\ stored.phases \in Nat /\ stored.phases < Len(PhaseKinds) /\ Len(PhaseKinds) \in Nat
      /\ forgotten \in Nat /\ forgotten <= stored.phases
  BY EpisodesCount DEF CountsOK
<1>2. Current \in Episode /\ Current = stored.phases + 1 /\ forgotten < Current
  BY <1>1, EpisodesCount DEF Current
<1>3. \A p \in Episode : p \in Nat
  BY EpisodesCount
<1>4. \A s, since, said : \A p \in Past(s, since, stored.phases, said) :
         p \in Nat /\ p <= stored.phases
  BY <1>3 DEF Past
<1>5. \A p \in Nat : p <= stored.phases => p < Current
  BY <1>1, <1>2
<1> QED BY <1>1, <1>2, <1>4, <1>5

\* A seat that was polled remembers what it said: the current phase is the last in its log.
LEMMA TurnRemembered ==
    ASSUME PassTyped, CountsOK, Running, NEW new, MindOK(new),
           minds \in [Member -> MindSet], LogsOK, Turn \in spoke, pace = "remember",
           new.log = Append(minds[Turn].log, Current)
    PROVE  new.log = InTurn(OwnPhases(nth) \cup {Current})
<1>1. nth \in DOMAIN Members /\ Turn = Members[nth] /\ nth \in Nat
  BY TheMembers DEF PassTyped, Turn
<1>2. ~Memorized(nth)
  BY <1>1 DEF Memorized
<1> DEFINE T == Past(Members[nth], forgotten, stored.phases, Range(events))
<1>3. OwnPhases(nth) = T
  BY <1>2 DEF OwnPhases
<1>4. T \in SUBSET Nat /\ Current \in Episode /\ \A t \in T : t < Current
  BY TheCurrent
<1> HIDE DEF T
<1>5. InTurn(T \cup {Current}) = Append(InTurn(T), Current)
  BY <1>4, InTurnNext
<1>6. minds[Turn].log = InTurn(T)
  BY <1>1, <1>3 DEF LogsOK
<1> QED BY <1>3, <1>5, <1>6

\* A seat that spoke has one episode more.
LEMMA RememberKeeps == MemoryInv /\ Remember => MemoryInv'
<1> SUFFICES ASSUME MemoryInv, Remember PROVE MemoryInv'
  OBVIOUS
<1>a. /\ PassTyped /\ CountsOK /\ RowsOK /\ LedgerOK /\ CutsOK /\ MindsKept /\ ToldOK
      /\ FrontierIsTheLedger /\ RolesShareTheFrontier
  BY DEF MemoryInv
<1>b. pace = "remember" /\ NextTurn
      /\ UNCHANGED <<spoke, attendance, roll, frontier, stored, adapter, told, cut, forgotten>>
  BY DEF Remember
<1>c. UNCHANGED <<events, uncommitted>> /\ uncommitted = <<>>
  <2>1. uncommitted = <<>> /\ (CommitSession => UNCHANGED <<events, uncommitted>>)
    BY <1>a, <1>b, NothingToCommit
  <2>2. CommitSession \/ UNCHANGED <<events, uncommitted>>
    BY DEF Remember
  <2> QED BY <2>1, <2>2
<1>d. /\ Turn \in Member /\ nth \in DOMAIN Members /\ Turn = Members[nth] /\ nth \in Nat
      /\ Running
  BY <1>a, <1>b, TheMembers DEF PassTyped, Turn, Running
<1>e. /\ nth' \in DOMAIN Members
      /\ \/ pace' = "remember" /\ nth < Len(Members) /\ nth' = nth + 1
         \/ pace' = "emit" /\ nth = Len(Members) /\ nth' = 1
  BY <1>a, <1>b, NextTurnTyped, AfterTheSteps
<1>f. mishaps' \in 0 .. MaxMishaps
  <2>1. mishaps \in 0 .. MaxMishaps /\ MaxMishaps \in Nat
    BY <1>a, SeatMemoryAssumption DEF PassTyped
  <2>2. UNCHANGED mishaps \/ Mishap
    BY DEF Remember
  <2> QED BY <2>1, <2>2 DEF Mishap
<1>g. \/ Turn \notin spoke /\ minds' = minds
      \/ /\ Turn \in spoke
         /\ \E new : /\ MindOK(new) /\ new.log = Append(minds[Turn].log, Current)
                     /\ minds' = [minds EXCEPT ![Turn] = new]
  <2>1. CASE Turn \notin spoke
    BY <2>1 DEF Remember, Attending
  <2>2. CASE Turn \in spoke
    <3> DEFINE old == minds[Turn]
               mind == [old EXCEPT !.log = Append(@, Current)]
               built == [mind EXCEPT !.nodes = Append(@, Node("thought", {Len(mind.log)}))]
               kept == Append(mind.raw, Current)
               newest == SubSeq(kept, IF Len(kept) > MaxFallback
                                      THEN Len(kept) - MaxFallback + 1 ELSE 1, Len(kept))
               raw == [mind EXCEPT !.raw = newest]
    <3>1. MindOK(old) /\ Current \in Episode
      BY <1>a, <1>d, TheCurrent DEF MindsKept, MindsOK
    <3>2. /\ MindOK(mind) /\ mind.log = Append(old.log, Current)
          /\ MindOK(built) /\ built.log = mind.log
          /\ MindOK(raw) /\ raw.log = mind.log
      BY <3>1, RememberedOK, Zenon
    <3>3. \/ minds' = [minds EXCEPT ![Turn] = built]
          \/ minds' = [minds EXCEPT ![Turn] = mind]
          \/ minds' = [minds EXCEPT ![Turn] = raw]
      BY <2>2, Zenon DEF Remember, Attending
    <3> HIDE DEF mind, built, raw
    <3> QED BY <2>2, <3>2, <3>3
  <2> QED BY <2>1, <2>2
<1>1. PassTyped'
  BY <1>a, <1>b, <1>e, <1>f DEF PassTyped
<1>2. CountsOK'
  BY <1>a, <1>b, <1>d, <1>e DEF CountsOK
<1>3. RowsOK' /\ AttendanceIsTheLedger' /\ PhasesAreWhole'
  BY <1>a, <1>b, <1>c, <1>e, LedgerUntouched DEF RowsOK
<1>4. LedgerOK'
  BY <1>a, <1>b, <1>c, <1>e DEF LedgerOK
<1>5. FrontierIsTheLedger'
  BY <1>a, <1>b, <1>c DEF FrontierIsTheLedger
<1>6. CutsOK' /\ RolesShareTheFrontier'
  BY <1>a, <1>b, <1>c DEF CutsOK, RolesShareTheFrontier
<1>7. MindsKept'
  <2>1. MindsOK(minds) /\ LogsOK
    BY <1>a, <1>d DEF MindsKept
  <2>2. ASSUME NEW i \in DOMAIN Members
        PROVE  OwnPhases(i)' = IF i = nth /\ Turn \in spoke THEN OwnPhases(i) \cup {Current}
                               ELSE OwnPhases(i)
    <3>1. i \in Nat /\ Len(Members) \in Nat /\ i <= Len(Members)
      BY TheMembers
    <3>2. Memorized(i)' <=> (Members[i] \in spoke /\ i <= nth)
      BY <1>b, <1>d, <1>e, <3>1 DEF Memorized
    <3>3. Memorized(i) <=> (Members[i] \in spoke /\ i < nth)
      BY <1>b DEF Memorized
    <3>4. CASE i = nth /\ Turn \in spoke
      <4>1. Memorized(i)' /\ ~Memorized(i)
        BY <1>d, <3>2, <3>3, <3>4
      <4> QED BY <1>b, <1>c, <3>4, <4>1 DEF OwnPhases, Current
    <3>5. CASE ~(i = nth /\ Turn \in spoke)
      <4>1. Memorized(i)' <=> Memorized(i)
        BY <1>d, <3>1, <3>2, <3>3, <3>5
      <4> QED BY <1>b, <1>c, <3>5, <4>1 DEF OwnPhases, Current
    <3> QED BY <3>4, <3>5
  <2>3. MindsOK(minds') /\ LogsOK'
    <3>1. CASE Turn \notin spoke /\ minds' = minds
      BY <2>1, <2>2, <3>1 DEF LogsOK
    <3>2. CASE /\ Turn \in spoke
               /\ \E new : /\ MindOK(new) /\ new.log = Append(minds[Turn].log, Current)
                           /\ minds' = [minds EXCEPT ![Turn] = new]
      <4>1. PICK new : /\ MindOK(new) /\ new.log = Append(minds[Turn].log, Current)
                       /\ minds' = [minds EXCEPT ![Turn] = new]
        BY <3>2
      <4>2. new \in MindSet
        BY <4>1 DEF MindOK
      <4>3. minds' \in [Member -> MindSet]
            /\ \A s \in Member : minds'[s] = IF s = Turn THEN new ELSE minds[s]
        BY <1>d, <2>1, <4>1, <4>2 DEF MindsOK
      <4>4. new.log = InTurn(OwnPhases(nth) \cup {Current})
        BY <1>a, <1>b, <1>d, <2>1, <3>2, <4>1, TurnRemembered DEF MindsOK
      <4>5. ASSUME NEW i \in DOMAIN Members PROVE minds'[Members[i]].log = InTurn(OwnPhases(i)')
        <5>1. CASE i = nth
          BY <1>d, <2>2, <3>2, <4>3, <4>4, <5>1
        <5>2. CASE i # nth
          <6>1. Members[i] # Turn /\ Members[i] \in Member
            BY <1>d, <5>2, TheMembers
          <6> QED BY <2>1, <2>2, <4>3, <5>2, <6>1 DEF LogsOK
        <5> QED BY <5>1, <5>2
      <4>6. MindsOK(minds')
        BY <2>1, <4>1, <4>3 DEF MindsOK
      <4> QED BY <4>5, <4>6 DEF LogsOK
    <3> QED BY <1>g, <3>1, <3>2
  <2> QED BY <1>b, <1>c, <2>3, SnapshotUntouched DEF MindsKept, MindsOK
<1>8. ToldOK'
  BY <1>a, <1>b, <1>c DEF ToldOK
<1> QED BY <1>1, <1>2, <1>3, <1>4, <1>5, <1>6, <1>7, <1>8 DEF MemoryInv

\* The events of the phase are new, and the frontier absorbs them.
LEMMA EmitKeeps == MemoryInv /\ Emit => MemoryInv'
<1> SUFFICES ASSUME MemoryInv, Emit PROVE MemoryInv'
  OBVIOUS
<1> DEFINE turns == [i \in DOMAIN Members |-> <<Current, Members[i]>>]
           theirs == {Current} \X spoke
           said == Chosen(turns, theirs)
<1>a. /\ PassTyped /\ CountsOK /\ RowsOK /\ LedgerOK /\ CutsOK /\ MindsKept /\ ToldOK
      /\ FrontierIsTheLedger /\ RolesShareTheFrontier /\ PhasesAreWhole
  BY DEF MemoryInv
<1>b. /\ pace = "emit" /\ pace' = "store"
      /\ uncommitted' = uncommitted \o Chosen(said, ToSet(said) \ ToSet(events))
      /\ frontier' = Absorbed(frontier, said)
      /\ UNCHANGED <<nth, spoke, attendance, roll, minds, events, stored, adapter, told, cut,
                     forgotten, mishaps>>
  BY AfterTheSteps DEF Emit
<1>c. uncommitted = <<>> /\ Running /\ spoke \in SUBSET Member
  BY <1>a, <1>b, NothingToCommit DEF Running, PassTyped
<1>d. Current \in Episode /\ Current > stored.phases /\ stored.phases \in Nat
  BY <1>a, <1>c, TheCurrent, EpisodesCount
<1>e. said \in Seq(Said) /\ Range(said) = theirs
  <2>1. turns \in Seq(Said)
    <3>1. \A i \in DOMAIN Members : <<Current, Members[i]>> \in Said
      BY <1>d, TheMembers DEF Said, Episode
    <3> HIDE DEF Said
    <3> QED BY <3>1, TheMembers
  <2>2. Range(turns) = {Current} \X Member
    <3>1. \A i \in DOMAIN turns : turns[i] \in {Current} \X Member
      BY TheMembers
    <3>2. \A x \in {Current} \X Member : \E i \in DOMAIN turns : x = turns[i]
      <4>1. TAKE x \in {Current} \X Member
      <4>2. x[2] \in Member /\ x = <<Current, x[2]>>
        OBVIOUS
      <4>3. PICK i \in DOMAIN Members : x[2] = Members[i]
        BY <4>2, TheMembers
      <4> QED BY <4>2, <4>3
    <3> QED BY <3>1, <3>2 DEF Range
  <2> HIDE DEF turns
  <2>3. said \in Seq(Said) /\ Range(said) = Range(turns) \cap theirs
    BY <2>1, ChosenType, ChosenHas
  <2>4. theirs \subseteq {Current} \X Member
    BY <1>c
  <2> QED BY <2>2, <2>3, <2>4
<1> HIDE DEF said
<1>f. uncommitted' = said
  <2>1. \A e \in ToSet(events) : e[1] <= stored.phases
    BY <1>a DEF PhasesAreWhole
  <2>2. \A e \in theirs : e[1] = Current
    OBVIOUS
  <2>3. ToSet(said) = Range(said)
    BY DEF ToSet, Range
  <2>4. \A e \in Range(said) : e \notin ToSet(events)
    <3>1. ASSUME NEW e \in Range(said), e \in ToSet(events) PROVE FALSE
      <4>1. e[1] = Current /\ e[1] <= stored.phases
        BY <1>e, <2>1, <2>2, <3>1
      <4> QED BY <1>d, <4>1, EpisodesCount
    <3> QED BY <3>1
  <2>5. Chosen(said, ToSet(said) \ ToSet(events)) = said
    BY <1>e, <2>3, <2>4, ChosenAll
  <2> QED BY <1>b, <1>c, <1>e, <2>5, ConcatEmptySeq
<1>1. PassTyped'
  BY <1>a, <1>b DEF PassTyped
<1>2. CountsOK'
  BY <1>a, <1>b, <1>c DEF CountsOK
<1>3. RowsOK' /\ AttendanceIsTheLedger' /\ PhasesAreWhole'
  BY <1>a, <1>b, LedgerUntouched DEF RowsOK
<1>4. LedgerOK'
  <2>1. Range(uncommitted') = {Current'} \X spoke'
    BY <1>b, <1>e, <1>f DEF Current
  <2> QED BY <1>a, <1>b, <1>e, <1>f, <2>1 DEF LedgerOK
<1>5. FrontierIsTheLedger'
  <2>1. events \in Seq(Said) /\ events \o <<>> = events
    BY <1>a, ConcatEmptySeq DEF LedgerOK
  <2>2. frontier = Absorbed(NoFrontier, events)
    BY <1>a, <1>b, <1>c, <2>1 DEF FrontierIsTheLedger
  <2>3. Absorbed(NoFrontier, events \o said) = Absorbed(Absorbed(NoFrontier, events), said)
    BY <1>e, <2>1, AbsorbedConcat
  <2> QED BY <1>b, <1>f, <2>2, <2>3 DEF FrontierIsTheLedger
<1>6. CutsOK' /\ RolesShareTheFrontier'
  BY <1>a, <1>b DEF CutsOK, RolesShareTheFrontier
<1>7. MindsKept'
  <2>1. \A i \in DOMAIN Members : OwnPhases(i)' = OwnPhases(i)
    BY <1>b DEF OwnPhases, Memorized, Current
  <2>2. MindsOK(minds)' /\ LogsOK'
    BY <1>a, <1>b, <1>c, <2>1 DEF MindsKept, MindsOK, LogsOK
  <2> QED BY <1>b, <2>2, SnapshotUntouched DEF MindsKept
<1>8. ToldOK'
  BY <1>a, <1>b DEF ToldOK
<1> QED BY <1>1, <1>2, <1>3, <1>4, <1>5, <1>6, <1>7, <1>8 DEF MemoryInv

-----------------------------------------------------------------------------
(* The checkpoint, and the loss of a pass. *)

\* A log is the same set of phases after one more that says the same of the earlier ones.
LEMMA PastAfter ==
    ASSUME CountsOK, Running, NEW s \in Member, NEW old \in SUBSET Said, NEW who \in SUBSET Member,
           \A e \in old : e[1] <= stored.phases
    PROVE  Past(s, forgotten, Current, old \cup ({Current} \X who))
             = Past(s, forgotten, stored.phases, old) \cup IF s \in who THEN {Current} ELSE {}
<1> DEFINE all == old \cup ({Current} \X who)
<1>1. /\ Current \in Episode /\ Current = stored.phases + 1 /\ stored.phases \in Nat
      /\ forgotten \in Nat /\ forgotten < Current
  BY TheCurrent
<1>2. \A p \in Episode : p \in Nat
  BY EpisodesCount
<1>3. \A p \in Episode : <<p, s>> \in all <=> (<<p, s>> \in old \/ (p = Current /\ s \in who))
  OBVIOUS
<1>4. \A p \in Episode : <<p, s>> \in old => p <= stored.phases
  <2>1. \A p : <<p, s>>[1] = p
    OBVIOUS
  <2> QED BY <2>1
<1> HIDE DEF all
<1>5. ASSUME NEW p \in Episode
      PROVE  (p > forgotten /\ p <= Current /\ <<p, s>> \in all)
               <=> ((p > forgotten /\ p <= stored.phases /\ <<p, s>> \in old)
                      \/ (p = Current /\ s \in who))
  <2>1. p \in Nat /\ (p <= stored.phases => p <= Current)
    BY <1>1, <1>2
  <2>2. p = Current => p > forgotten /\ p <= Current /\ ~(p <= stored.phases)
    BY <1>1
  <2>3. <<p, s>> \in all <=> (<<p, s>> \in old \/ (p = Current /\ s \in who))
    BY <1>3
  <2>4. <<p, s>> \in old => p <= stored.phases
    BY <1>4
  <2> QED BY <2>1, <2>2, <2>3, <2>4, Zenon
<1>6. Past(s, forgotten, Current, all)
        = {p \in Episode : (p > forgotten /\ p <= stored.phases /\ <<p, s>> \in old)
                              \/ (p = Current /\ s \in who)}
  BY <1>5 DEF Past
<1>7. Past(s, forgotten, stored.phases, old) \cup (IF s \in who THEN {Current} ELSE {})
        = {p \in Episode : (p > forgotten /\ p <= stored.phases /\ <<p, s>> \in old)
                              \/ (p = Current /\ s \in who)}
  BY <1>1 DEF Past
<1> QED BY <1>6, <1>7 DEF all

\* The phase is committed as a whole.
LEMMA StoreKeeps == MemoryInv /\ Store => MemoryInv'
<1> SUFFICES ASSUME MemoryInv, Store PROVE MemoryInv'
  OBVIOUS
<1>a. /\ PassTyped /\ CountsOK /\ RowsOK /\ LedgerOK /\ CutsOK /\ MindsKept /\ ToldOK
      /\ FrontierIsTheLedger /\ PhasesAreWhole /\ AttendanceIsTheLedger
  BY DEF MemoryInv
<1>b. /\ pace = "store" /\ nth' = 1 /\ spoke' = {} /\ attendance' = NoSeat
      /\ events' = events \o uncommitted /\ uncommitted' = <<>> /\ roll' = Recorded
      /\ cut' = [s \in Member |-> <<>>]
      /\ UNCHANGED <<minds, frontier, adapter, told, forgotten>>
  BY DEF Store, CommitSession
<1>c. /\ stored'.phases = Current /\ stored'.since = forgotten
      /\ stored'.memory \in {<<minds>>, NoSnapshot}
  <2>1. PICK snapshot \in {<<minds>>, NoSnapshot} :
           stored' = [phases |-> Current, memory |-> snapshot, of |-> adapter,
                      since |-> forgotten]
    BY DEF Store
  <2> QED BY <2>1
<1>d. /\ pace' \in {"recall", "off", "ended"}
      /\ pace' = "recall" => Current # Len(PhaseKinds)
  BY DEF Store
<1>e. mishaps' \in 0 .. MaxMishaps
  <2>1. mishaps \in 0 .. MaxMishaps /\ MaxMishaps \in Nat
    BY <1>a, SeatMemoryAssumption DEF PassTyped
  <2>2. UNCHANGED mishaps \/ Mishap
    BY DEF Store
  <2> QED BY <2>1, <2>2 DEF Mishap
<1>f. /\ Running /\ Current \in Episode /\ Current = stored.phases + 1 /\ stored.phases \in Nat
      /\ forgotten \in Nat /\ forgotten < Current
  BY <1>a, <1>b, TheCurrent DEF Running
<1>g. /\ events \in Seq(Said) /\ uncommitted \in Seq(Said)
      /\ Range(uncommitted) = {Current} \X spoke /\ spoke \in SUBSET Member
  BY <1>a, <1>b DEF LedgerOK, PassTyped
<1>h. /\ events' \in Seq(Said) /\ Range(events') = Range(events) \cup ({Current} \X spoke)
      /\ Range(events) \in SUBSET Said /\ ToSet(events) = Range(events)
      /\ ToSet(events') = Range(events')
  <2>1. events' \in Seq(Said) /\ Range(events') = Range(events) \cup Range(uncommitted)
    <3>1. \A S : \A x, y \in Seq(S) : Range(x \o y) = Range(x) \cup Range(y)
      BY RangeOfBoth, Zenon
    <3>2. \A x, y \in Seq(Said) : Range(x \o y) = Range(x) \cup Range(y)
      BY <3>1, Zenon
    <3>3. events \in Seq(Said) /\ uncommitted \in Seq(Said)
      BY <1>g
    <3>4. Range(events \o uncommitted) = Range(events) \cup Range(uncommitted)
      BY <3>2, <3>3, Zenon
    <3> QED BY <1>b, <3>3, <3>4
  <2>2. Range(events) \in SUBSET Said
    BY <1>g DEF Range
  <2>3. ToSet(events) = Range(events) /\ ToSet(events') = Range(events')
    BY DEF ToSet, Range
  <2> QED BY <1>g, <2>1, <2>2, <2>3
<1>i. \A e \in Range(events) : e[1] <= stored.phases
  BY <1>a, <1>h DEF PhasesAreWhole
<1>1. PassTyped'
  BY <1>a, <1>b, <1>d, <1>e, TheMembers DEF PassTyped
<1>2. CountsOK'
  <2>1. Current \in 0 .. Len(PhaseKinds) /\ Current <= Len(PhaseKinds) /\ forgotten \in 0 .. Current
        /\ Len(PhaseKinds) \in Nat
    BY <1>f, EpisodesCount
  <2>2. Running' => Current < Len(PhaseKinds)
    BY <1>d, <1>f, <2>1 DEF Running
  <2> QED BY <1>b, <1>c, <2>1, <2>2 DEF CountsOK
<1>3. RowsOK' /\ AttendanceIsTheLedger'
  <2>1. attendance \in RollRow /\ roll \in [Episode -> RollRow]
        /\ \A s \in spoke : DOMAIN attendance = Member /\ attendance[s] = "completed"
    BY <1>a, <1>b DEF RowsOK
  <2>2. /\ roll' \in [Episode -> RollRow]
        /\ \A p \in Episode : p # Current => roll'[p] = roll[p]
        /\ attendance # NoSeat => roll'[Current] = attendance
    BY <1>b, <1>f, <2>1 DEF Recorded
  <2>3. RowsOK'
    BY <1>b, <1>d, <2>2, NoRow DEF RowsOK
  <2>4. ASSUME NEW p \in Episode, p > Current PROVE roll'[p] = NoSeat
    <3>1. p # Current /\ p > stored.phases
      BY <1>f, <2>4, EpisodesCount
    <3>2. roll[p] = NoSeat
      BY <1>a, <3>1 DEF AttendanceIsTheLedger, Episode
    <3> QED BY <2>2, <3>1, <3>2
  <2>5. ASSUME NEW p \in Episode, NEW s \in Member, <<p, s>> \in Range(events')
        PROVE  DOMAIN roll'[p] = Member /\ roll'[p][s] = "completed"
    <3>1. CASE <<p, s>> \in Range(events)
      <4>1. p <= stored.phases
        <5>1. <<p, s>>[1] = p
          OBVIOUS
        <5> QED BY <1>i, <3>1, <5>1
      <4>2. p # Current
        BY <1>f, <4>1
      <4>3. DOMAIN roll[p] = Member /\ roll[p][s] = "completed"
        BY <1>a, <1>h, <3>1 DEF AttendanceIsTheLedger, Episode
      <4> QED BY <2>2, <4>2, <4>3
    <3>2. CASE p = Current /\ s \in spoke
      <4>1. DOMAIN attendance = Member /\ attendance[s] = "completed"
        BY <2>1, <3>2
      <4>2. attendance # NoSeat
        BY <4>1, NoRow
      <4> QED BY <2>2, <3>2, <4>1, <4>2
    <3> QED BY <1>h, <2>5, <3>1, <3>2
  <2>6. AttendanceIsTheLedger'
    BY <1>c, <1>h, <2>4, <2>5 DEF AttendanceIsTheLedger, Episode
  <2> QED BY <2>3, <2>6
<1>4. LedgerOK' /\ PhasesAreWhole'
  <2>1. Range(<<>>) = {} /\ <<>> \in Seq(Said)
    BY DEF Range
  <2>2. LedgerOK'
    BY <1>b, <1>d, <1>h, <2>1 DEF LedgerOK
  <2>3. ASSUME NEW e \in Range(events') PROVE e[1] <= Current
    <3>1. CASE e \in Range(events)
      <4>1. e \in Said
        BY <1>h, <3>1
      <4>2. e[1] \in Nat
        BY <4>1, EpisodesCount DEF Said, Episode
      <4> QED BY <1>f, <1>i, <3>1, <4>2
    <3>2. CASE e \in {Current} \X spoke
      <4>1. e[1] = Current
        BY <3>2
      <4> QED BY <1>f, <4>1
    <3> QED BY <1>h, <3>1, <3>2
  <2>4. PhasesAreWhole'
    BY <1>c, <1>h, <2>3 DEF PhasesAreWhole
  <2> QED BY <2>2, <2>4
<1>5. FrontierIsTheLedger'
  <2>1. events' \o uncommitted' = events \o uncommitted
    BY <1>b, <1>h, ConcatEmptySeq
  <2> QED BY <1>a, <1>b, <1>f, <2>1 DEF FrontierIsTheLedger, Running
<1>6. CutsOK' /\ RolesShareTheFrontier'
  BY <1>b, <1>d DEF CutsOK, RolesShareTheFrontier
<1>7. MindsKept'
  <2>0. MindsOK(minds) /\ LogsOK
    BY <1>a, <1>f DEF MindsKept
  <2> DEFINE old == Range(events)
             now == old \cup ({Current} \X spoke)
  <2>a. old \in SUBSET Said /\ \A e \in old : e[1] <= stored.phases
    BY <1>h, <1>i
  <2>b. Range(events') = now
    BY <1>h
  <2>c. \A s \in Member :
           Past(s, forgotten, Current, now)
             = Past(s, forgotten, stored.phases, old) \cup IF s \in spoke THEN {Current} ELSE {}
    <3> HIDE DEF old
    <3>1. \A s \in Member : \A o \in SUBSET Said : \A who \in SUBSET Member :
             (\A e \in o : e[1] <= stored.phases)
               => Past(s, forgotten, Current, o \cup ({Current} \X who))
                    = Past(s, forgotten, stored.phases, o)
                        \cup IF s \in who THEN {Current} ELSE {}
      BY <1>a, <1>f, PastAfter, Zenon
    <3> QED BY <1>g, <2>a, <3>1, Zenon
  <2>1. ASSUME NEW i \in DOMAIN Members
        PROVE  minds[Members[i]].log
                 = InTurn(Past(Members[i], forgotten, Current, Range(events')))
    <3>1. Members[i] \in Member
      BY TheMembers
    <3>2. Past(Members[i], forgotten, Current, Range(events'))
            = Past(Members[i], forgotten, stored.phases, Range(events))
                \cup IF Members[i] \in spoke THEN {Current} ELSE {}
      BY <2>b, <2>c, <3>1
    <3>3. OwnPhases(i) = Past(Members[i], forgotten, stored.phases, Range(events))
                           \cup IF Members[i] \in spoke THEN {Current} ELSE {}
      BY <1>b DEF OwnPhases, Memorized
    <3> QED BY <2>0, <3>2, <3>3 DEF LogsOK
  <2>2. \A i \in DOMAIN Members :
           OwnPhases(i)' = Past(Members[i], forgotten, Current, Range(events'))
    BY <1>b, <1>c DEF OwnPhases, Memorized
  <2>3. MindsOK(minds)' /\ LogsOK'
    BY <1>b, <2>0, <2>1, <2>2 DEF LogsOK, MindsOK
  <2>4. \A s \in Member :
           minds[s].log = InTurn(Past(s, forgotten, Current, Range(events')))
    BY <2>1, TheMembers
  <2>5. stored'.memory # NoSnapshot => stored'.memory[1] = minds
    BY <1>c
  <2>6. (stored.memory # NoSnapshot => SnapshotOK(stored.memory[1]))'
    BY <1>c, <2>0, <2>4, <2>5 DEF SnapshotOK
  <2> QED BY <2>3, <2>6 DEF MindsKept
<1>8. ToldOK'
  <2>1. ASSUME NEW s \in Member PROVE told[s] \in Seq(OwnWords(s, Range(events')))
    <3>1. OwnWords(s, Range(events)) \subseteq OwnWords(s, Range(events'))
      BY <1>h DEF OwnWords
    <3>2. told[s] \in Seq(OwnWords(s, Range(events)))
      BY <1>a DEF ToldOK
    <3> QED BY <3>1, <3>2, Widen
  <2> QED BY <1>a, <1>b, <2>1 DEF ToldOK
<1> QED BY <1>1, <1>2, <1>3, <1>4, <1>5, <1>6, <1>7, <1>8 DEF MemoryInv

\* Nothing that was committed is lost.
LEMMA CrashPassKeeps == MemoryInv /\ CrashPass => MemoryInv'
<1> SUFFICES ASSUME MemoryInv, CrashPass PROVE MemoryInv'
  OBVIOUS
<1>a. /\ PassTyped /\ CountsOK /\ RowsOK /\ LedgerOK /\ CutsOK /\ MindsKept /\ ToldOK
  BY DEF MemoryInv
<1>b. /\ pace' = "off" /\ uncommitted' = <<>> /\ nth' = 1 /\ spoke' = {}
      /\ attendance' = NoSeat /\ cut' = [s \in Member |-> <<>>]
      /\ UNCHANGED <<roll, minds, frontier, events, stored, adapter, told, forgotten>>
  BY DEF CrashPass
<1>c. mishaps' \in 0 .. MaxMishaps
  <2>1. mishaps \in 0 .. MaxMishaps /\ MaxMishaps \in Nat
    BY <1>a, SeatMemoryAssumption DEF PassTyped
  <2> QED BY <2>1 DEF CrashPass, Mishap
<1>1. PassTyped'
  BY <1>a, <1>b, <1>c, TheMembers DEF PassTyped
<1>2. CountsOK'
  BY <1>a, <1>b DEF CountsOK, Running
<1>3. RowsOK' /\ AttendanceIsTheLedger' /\ PhasesAreWhole'
  BY <1>a, <1>b, LedgerUntouched, NoRow DEF RowsOK
<1>4. LedgerOK'
  <2>1. Range(<<>>) = {} /\ <<>> \in Seq(Said)
    BY DEF Range
  <2> QED BY <1>a, <1>b, <2>1 DEF LedgerOK
<1>5. FrontierIsTheLedger' /\ CutsOK' /\ RolesShareTheFrontier'
  BY <1>b DEF FrontierIsTheLedger, CutsOK, RolesShareTheFrontier
<1>6. MindsKept'
  BY <1>a, <1>b, SnapshotUntouched DEF MindsKept, MindsOK, Running
<1>7. ToldOK'
  BY <1>a, <1>b DEF ToldOK
<1> QED BY <1>1, <1>2, <1>3, <1>4, <1>5, <1>6, <1>7 DEF MemoryInv

-----------------------------------------------------------------------------
(* The theorem. *)

\* The invariant of every behaviour.
LEMMA MemoryInvariant == MemorySpec => []MemoryInv
<1>1. MemoryInv /\ [MemoryNext]_memoryVars => MemoryInv'
  <2> SUFFICES ASSUME MemoryInv, [MemoryNext]_memoryVars PROVE MemoryInv'
    OBVIOUS
  <2>1. CASE UNCHANGED memoryVars
    BY <2>1 DEF memoryVars, MemoryInv, PassTyped, CountsOK, Running, RowsOK,
         AttendanceIsTheLedger, LedgerOK, Current, PhasesAreWhole, FrontierIsTheLedger, CutsOK,
         RolesShareTheFrontier, MindsKept, MindsOK, LogsOK, OwnPhases, Memorized, SnapshotOK,
         ToldOK
  <2>2. CASE MemoryNext
    BY <2>2, OpenPassKeeps, RecallKeeps, DeliberateKeeps, RememberKeeps, EmitKeeps, StoreKeeps,
       CrashPassKeeps DEF MemoryNext
  <2> QED BY <2>1, <2>2
<1> QED BY <1>1, MemoryInitially, PTL DEF MemorySpec

\* What it says of the variables.
LEMMA InvMeansTyped == MemoryInv => MemoryTypeOK
<1> SUFFICES ASSUME MemoryInv PROVE MemoryTypeOK
  OBVIOUS
<1>a. PassTyped /\ CountsOK /\ RowsOK /\ LedgerOK /\ MindsKept /\ ToldOK
  BY DEF MemoryInv
<1>1. pace \in {"off", "ended"} \cup ToSet(Steps)
  <2>1. /\ DOMAIN Steps = 1 .. 5 /\ Steps[1] = "recall" /\ Steps[2] = "deliberate"
        /\ Steps[3] = "remember" /\ Steps[4] = "emit" /\ Steps[5] = "store"
    BY DEF Steps
  <2> HIDE DEF Steps
  <2>2. {"recall", "deliberate", "remember", "emit", "store"} \subseteq ToSet(Steps)
    BY <2>1 DEF ToSet
  <2> QED BY <1>a, <2>2 DEF PassTyped
<1>2. \A row \in {attendance} \cup ToSet(roll) :
         DOMAIN row \in {{}, Member} /\ \A s \in DOMAIN row : row[s] \in {"completed", "absent"}
  <2>1. \A row \in RollRow :
           DOMAIN row \in {{}, Member} /\ \A s \in DOMAIN row : row[s] \in {"completed", "absent"}
    BY DEF RollRow
  <2>2. attendance \in RollRow /\ \A row \in ToSet(roll) : row \in RollRow
    BY <1>a DEF RowsOK, ToSet
  <2> QED BY <2>1, <2>2
<1>3. ToSet(events) \cup ToSet(uncommitted) \subseteq (DOMAIN PhaseKinds) \X Member
  <2>1. \A t \in Seq(Said) : ToSet(t) \subseteq Said
    BY DEF ToSet
  <2> QED BY <1>a, <2>1 DEF LedgerOK, Said
<1>4. \A s \in Member :
         /\ Len(minds[s].raw) <= MaxFallback /\ Len(told[s]) <= RecallBudget
         /\ \A n \in DOMAIN minds[s].nodes : minds[s].nodes[n].of \subseteq DOMAIN minds[s].log
  BY <1>a DEF MindsKept, MindsOK, MindOK, ToldOK
<1> QED BY <1>a, <1>1, <1>2, <1>3, <1>4 DEF MemoryTypeOK, PassTyped, CountsOK

\* What it says of the logs.
LEMMA InvMeansRemembered == MemoryInv => SeatsRemember
<1> SUFFICES ASSUME MemoryInv, Running PROVE SeatsRemember
  BY DEF SeatsRemember, Running
<1>a. PassTyped /\ CountsOK /\ LedgerOK /\ LogsOK
  BY DEF MemoryInv, MindsKept
<1>b. /\ Current \in Episode /\ Current = stored.phases + 1 /\ stored.phases \in Nat
      /\ forgotten \in Nat /\ forgotten < Current
  BY <1>a, TheCurrent
<1>c. ToSet(events) = Range(events)
  BY DEF ToSet, Range
<1> DEFINE Own(i, p) == /\ p > forgotten
                        /\ \/ p <= stored.phases /\ <<p, Members[i]>> \in ToSet(events)
                           \/ /\ p = Current /\ Members[i] \in spoke
                              /\ \/ pace \in {"emit", "store"}
                                 \/ pace = "remember" /\ i < nth
<1>1. ASSUME NEW i \in DOMAIN Members
      PROVE  minds[Members[i]].log = Chosen([p \in DOMAIN PhaseKinds |-> p],
                                            {p \in DOMAIN PhaseKinds : Own(i, p)})
  <2>1. \A p \in Episode : Own(i, p) <=> p \in OwnPhases(i)
    <3>1. ASSUME NEW p \in Episode PROVE Own(i, p) <=> p \in OwnPhases(i)
      <4>1. p = Current => p > forgotten
        BY <1>b
      <4>2. p \in OwnPhases(i)
              <=> ((p > forgotten /\ p <= stored.phases /\ <<p, Members[i]>> \in Range(events))
                    \/ (p = Current /\ Memorized(i)))
        BY DEF OwnPhases, Past
      <4> QED BY <1>c, <4>1, <4>2, Zenon DEF Memorized
    <3> QED BY <3>1
  <2>2. OwnPhases(i) \subseteq Episode
    BY <1>b DEF OwnPhases, Past
  <2>3. {p \in DOMAIN PhaseKinds : Own(i, p)} = OwnPhases(i)
    <3> HIDE DEF Own
    <3> QED BY <2>1, <2>2 DEF Episode
  <2>4. minds[Members[i]].log = InTurn(OwnPhases(i))
    BY <1>a DEF LogsOK
  <2> HIDE DEF Own
  <2> QED BY <2>3, <2>4 DEF InTurn
<1> QED BY <1>1, Zenon DEF SeatsRemember

\* What it says of the recalled text.
LEMMA InvMeansOwn == MemoryInv => RecallIsOwn
<1> SUFFICES ASSUME MemoryInv, NEW s \in Member, NEW piece \in ToSet(told[s]), NEW p \in piece
             PROVE  <<p, s>> \in ToSet(events)
  BY DEF RecallIsOwn
<1>1. told[s] \in Seq(OwnWords(s, Range(events)))
  BY DEF MemoryInv, ToldOK
<1>2. piece \in OwnWords(s, Range(events))
  BY <1>1 DEF ToSet
<1> QED BY <1>2 DEF OwnWords, ToSet, Range

\* What a pass remembers, in the frontier that its seats share and in each seat's own memory,
\* is what the phases that are checkpointed said, each event once, however often the pass was
\* cut off and resumed, and whatever adapter each of them had.
THEOREM MemoryIsOfTheLedger == MemorySpec => []MemoryFollowsTheLedger
<1>1. MemoryInv => MemoryFollowsTheLedger
  BY InvMeansTyped, InvMeansRemembered, InvMeansOwn DEF MemoryInv, MemoryFollowsTheLedger
<1> QED BY <1>1, MemoryInvariant, PTL
=============================================================================
