------------------------------ MODULE SeatMemory ------------------------------
(***************************************************************************)
(* What the council remembers from phase to phase: the shared frontier     *)
(* (packages/memory/collective.py), each seat's own memory (the MemoBrain  *)
(* adapter and the brain it drives, packages/memory/vendor/memobrain; the  *)
(* graph adapter where there is no real endpoint), and the order in which  *)
(* CouncilOrchestrator recalls, deliberates, remembers, appends and stores *)
(* its checkpoint.                                                         *)
(*                                                                         *)
(* Every answered call of the memory model commits the session of the run, *)
(* with whatever has been appended by then.  An event is <<phase, seat>>:  *)
(* each phase makes its seats say one kind of thing.  An episode is a      *)
(* phase, a piece of recalled text the set of phases it tells of.          *)
(***************************************************************************)
EXTENDS Naturals, Sequences, FiniteSets, SequencesExt, Selections

CONSTANTS
    Members,          \* the seats, in their order
    PhaseKinds,       \* the kind of event of each phase, in their order
    ManageThreshold,  \* MANAGE_THRESHOLD
    MaxFallback,      \* MAX_FALLBACK_ENTRIES
    Weight,           \* seat -> how much its role weighs each kind of event
    MaxWeight,        \* the largest of those
    RecallBudget,     \* DEFAULT_RECALL_BUDGET, in pieces of text
    MaxMishaps        \* bound: absences, failures, crashes, changes of the adapter

Member == ToSet(Members)

COLLECTIVE_EVENT_TYPES ==
    {"Claim", "CHALLENGE_RAISED", "EVIDENCE_PUBLISHED", "Blindspot", "DissentCertificate",
     "CONSENSUS_DRAFTED", "DebateCapsule"}

ASSUME SeatMemoryAssumption ==
    /\ {ManageThreshold, MaxFallback, MaxWeight, RecallBudget, MaxMishaps} \subseteq Nat
    /\ Members \in Seq(Member) /\ Members # <<>> /\ IsInjective(Members)
    /\ PhaseKinds \in Seq(STRING)
    /\ Weight \in [Member -> [COLLECTIVE_EVENT_TYPES -> 0 .. MaxWeight]]

VARIABLES
    pace,       \* "off" (no pass), a step of the phase, or "ended"
    nth,        \* the seat whose turn it is to recall or to remember
    spoke,      \* the seats that spoke in the phase
    attendance, \* seat_runs of the phase: seat -> status, empty if it failed
    roll,       \* council_rounds and scientist_runs: phase -> its attendance
    minds,      \* seat -> its memory, see Mind
    frontier,   \* the collective memory of the pass
    events,     \* the ledger: committed events
    uncommitted,  \* events appended since
    stored,     \* the checkpoint: how many phases, the seats' memory with it, the adapter it
                \* is of, and (history) how many phases it had forgotten
    adapter,    \* "brain" or "graph": the program's, for a pass
    told,       \* seat -> what it was last told of its own memory
    cut,        \* seat -> its view of the frontier in the phase that runs
    forgotten,  \* history: how many phases the seats of this pass were not given back
    mishaps

memoryVars == <<pace, nth, spoke, attendance, roll, minds, frontier, events, uncommitted, stored, adapter,
                told, cut, forgotten, mishaps>>

-----------------------------------------------------------------------------

Current == stored.phases + 1

NoSeat == [s \in {} |-> "absent"]

\* A snapshot, or the lack of one.
NoSnapshot == <<>>

\* A node of the graph and the episodes it is of, as places in `log`.
Node(kind, places) == [kind |-> kind, of |-> places, state |-> "active"]

\* open: every seat begins with the task.  The log (messages) holds every episode, the
\* raw list (fallback) those that the memory model could not digest.
Opened == [nodes |-> <<Node("task", {})>>, log |-> <<>>, raw |-> <<>>]

NoFrontier == [kind \in COLLECTIVE_EVENT_TYPES |-> <<>>]

MemoryInit ==
    /\ pace = "off" /\ nth = 1 /\ spoke = {} /\ attendance = NoSeat
    /\ roll = [p \in DOMAIN PhaseKinds |-> NoSeat]
    /\ minds = [s \in Member |-> Opened]
    /\ frontier = NoFrontier
    /\ events = <<>> /\ uncommitted = <<>>
    /\ stored = [phases |-> 0, memory |-> NoSnapshot, of |-> "brain", since |-> 0]
    /\ adapter = "brain"
    /\ told = [s \in Member |-> <<>>] /\ cut = told
    /\ forgotten = 0 /\ mishaps = 0

Mishap == mishaps < MaxMishaps /\ mishaps' = mishaps + 1

(***************************************************************************)
(* The shared frontier                                                     *)
(***************************************************************************)

\* _absorb_one: a claim and a blindspot by the id of its node, a consensus in place of the
\* last, a capsule's conflicts among the challenges.  Any other event is not indexed.
Absorb(f, e) ==
    LET kind == PhaseKinds[e[1]]
        slot == IF kind = "DebateCapsule" THEN "CHALLENGE_RAISED" ELSE kind
    IN  IF kind \notin COLLECTIVE_EVENT_TYPES THEN f
        ELSE [f EXCEPT ![slot] =
                IF kind = "CONSENSUS_DRAFTED" THEN <<e>>
                ELSE IF kind \in {"Claim", "Blindspot"} /\ Contains(@, e) THEN @
                ELSE Append(@, e)]

\* A mistake: a resumed pass starts with an empty frontier.
NoHistory == NoFrontier

\* absorb: one event after the other.
Absorbed(f, said) ==
    LET after[n \in 0 .. Len(said)] == IF n = 0 THEN f ELSE Absorb(after[n - 1], said[n])
    IN  after[Len(said)]

\* absorb_history, of what the ledger holds.
History == Absorbed(NoFrontier, events)

\* evidence_snapshot, and perspective_recall: every seat sees the same of it, what its
\* role weighs most first.
evidence_snapshot ==
    frontier["Claim"] \o frontier["Blindspot"] \o frontier["DissentCertificate"]

Weighing(s, w) ==
    Chosen(evidence_snapshot, {e \in ToSet(evidence_snapshot) : Weight[s][PhaseKinds[e[1]]] = w})

perspective_recall(s) == FlattenSeq([i \in 1 .. MaxWeight + 1 |-> Weighing(s, MaxWeight + 1 - i)])

(***************************************************************************)
(* A seat's own memory                                                     *)
(***************************************************************************)

Active(mind) == {n \in DOMAIN mind.nodes : mind.nodes[n].state = "active"}

Tells(mind, places) == {mind.log[i] : i \in places}

InState(mind, states) ==
    LET shown == Chosen(mind.nodes, {n \in ToSet(mind.nodes) : n.state \in states})
    IN  [i \in DOMAIN shown |-> Tells(mind, shown[i].of)]

\* pretty_print: a flushed node is still shown.  The graph adapter shows the active ones.
pretty_print(mind) == InState(mind, {"active", "flushed"})

active_frontier(mind) == InState(mind, {"active"})

\* _organize: the log, where a summary stands at the last place it covers for all of
\* them; but the first and the last two places are never touched, and a summary whose
\* last place is one of those is not written.
Organized(mind) ==
    LET n == Len(mind.log)
        Guarded(i) == i = 1 \/ i >= n - 1
        summaries == {m \in ToSet(mind.nodes) : m.kind = "summary"}
        EndsAt(i) == {m \in summaries : i \in m.of /\ \A j \in m.of : j <= i}
        Piece(i) == IF Guarded(i) THEN <<{mind.log[i]}>>
                    ELSE IF EndsAt(i) # {}
                         THEN <<Tells(mind, (CHOOSE m \in EndsAt(i) : TRUE).of)>>
                    ELSE IF \E m \in summaries : i \in m.of THEN <<>>
                    ELSE <<{mind.log[i]}>>
    IN  FlattenSeq([i \in 1 .. n |-> Piece(i)])

Raw(mind) == [i \in DOMAIN mind.raw |-> {mind.raw[i]}]

\* What recall_private returns of a text: the raw episodes go after it.
Within(text, mind) ==
    LET all == text \o Raw(mind)
    IN  SubSeq(all, 1, IF Len(all) < RecallBudget THEN Len(all) ELSE RecallBudget)

\* flush_node and fold_nodes.
Flushed(mind, n) == [mind EXCEPT !.nodes[n].state = "flushed"]

Summarized(mind, span) ==
    [mind EXCEPT !.nodes =
        Append([n \in DOMAIN @ |-> IF n \in span THEN [@[n] EXCEPT !.state = "folded"] ELSE @[n]],
               Node("summary", UNION {@[n].of : n \in span}))]

\* The operations the model may answer with: none, a node to flush, neighbours to fold.
Managed(mind) ==
    LET Spans == {i .. j : i, j \in DOMAIN mind.nodes} \ {{}}
    IN  {mind} \cup {Flushed(mind, n) : n \in Active(mind)}
          \cup {Summarized(mind, span) : span \in {x \in Spans : Cardinality(x) > 1}}

(***************************************************************************)
(* A pass                                                                  *)
(***************************************************************************)

\* A mistake: the adapter lives as long as the process.
StillThere == minds

\* restore: what the checkpoint holds, if this adapter wrote it.
Usable == stored.memory # NoSnapshot /\ stored.of = adapter'

Restored == IF Usable THEN stored.memory[1] ELSE [s \in Member |-> Opened]

OpenPass ==
    /\ pace = "off" /\ stored.phases < Len(PhaseKinds)
    /\ \/ adapter' = adapter /\ UNCHANGED mishaps
       \/ adapter' \in {"brain", "graph"} \ {adapter} /\ Mishap
    /\ minds' = Restored
    /\ forgotten' = IF Usable THEN stored.since ELSE stored.phases
    /\ frontier' = IF stored.phases = 0 THEN NoFrontier ELSE History
    /\ pace' = "recall" /\ nth' = 1 /\ spoke' = {}
    /\ UNCHANGED <<attendance, roll, events, uncommitted, stored, told, cut>>

\* The steps of a phase.  A mistake: its events are appended before it is remembered.
EmitFirst == <<"recall", "deliberate", "emit", "remember", "store">>

Steps == <<"recall", "deliberate", "remember", "emit", "store">>

After(name) == Steps[(CHOOSE i \in DOMAIN Steps : Steps[i] = name) + 1]

Turn == Members[nth]

NextTurn ==
    IF nth < Len(Members) THEN nth' = nth + 1 /\ UNCHANGED pace
    ELSE nth' = 1 /\ pace' = After(pace)

\* The audit row of a call that was answered commits the session.
CommitSession == events' = events \o uncommitted /\ uncommitted' = <<>>

\* recall, a seat at a time: a small graph as it is, a larger one after the model has
\* put it in order, or, if that fails, the raw episodes alone.
Recall ==
    /\ pace = "recall"
    /\ LET mind == minds[Turn]
           Tell(text) == told' = [told EXCEPT ![Turn] = Within(text, mind)]
       IN  IF adapter = "graph" \/ Cardinality(Active(mind)) < ManageThreshold THEN
              /\ Tell(IF adapter = "graph" THEN active_frontier(mind) ELSE pretty_print(mind))
              /\ UNCHANGED <<minds, mishaps, events, uncommitted>>
           ELSE
              \/ \E after \in Managed(mind) :
                    /\ minds' = [minds EXCEPT ![Turn] = after]
                    /\ \/ Tell(Organized(after)) /\ UNCHANGED mishaps
                       \/ Tell(Raw(mind)) /\ Mishap
                    /\ CommitSession
              \/ Tell(Raw(mind)) /\ Mishap /\ UNCHANGED <<minds, events, uncommitted>>
    /\ NextTurn
    /\ UNCHANGED <<spoke, attendance, roll, frontier, stored, adapter, cut, forgotten>>

\* Every seat of a phase that polled them is in its attendance, absent or not.
Attended(absent) == [s \in Member |-> IF s \in absent THEN "absent" ELSE "completed"]

\* The phase runs, each seat with its cut of the frontier: who is absent, or has nothing to
\* say, leaves no episode.  A phase that fails leaves nothing but that.
Deliberate ==
    /\ pace = "deliberate"
    /\ cut' = [s \in Member |-> perspective_recall(s)]
    /\ \/ /\ spoke' = Member /\ attendance' = Attended({})
          /\ pace' = After(pace) /\ UNCHANGED mishaps
       \/ \E mute \in (SUBSET Member) \ {{}} :
             /\ spoke' = Member \ mute /\ attendance' \in {Attended(mute), Attended({})}
             /\ pace' = After(pace) /\ Mishap
       \/ /\ spoke' = {} /\ attendance' = NoSeat
          /\ pace' = "store" /\ Mishap
    /\ UNCHANGED <<nth, roll, minds, frontier, events, uncommitted, stored, adapter, told,
                   forgotten>>

\* A mistake: an episode is remembered by whoever's turn it is, present or not.
Anybody == Member

Attending == spoke

\* memorize_episode: a new node; or none, when the patch cannot be applied, which nobody
\* is told; or, when the model does not answer, an entry of the bounded raw list.
Remember ==
    /\ pace = "remember"
    /\ IF Turn \notin Attending THEN UNCHANGED <<minds, mishaps, events, uncommitted>>
       ELSE
          LET mind == [minds[Turn] EXCEPT !.log = Append(@, Current)]
              built == [mind EXCEPT !.nodes = Append(@, Node("thought", {Len(mind.log)}))]
              kept == Append(mind.raw, Current)
              newest == SubSeq(kept, IF Len(kept) > MaxFallback
                                     THEN Len(kept) - MaxFallback + 1 ELSE 1, Len(kept))
          IN  \/ /\ minds' = [minds EXCEPT ![Turn] = built]
                 /\ UNCHANGED mishaps
                 /\ IF adapter = "brain" THEN CommitSession ELSE UNCHANGED <<events, uncommitted>>
              \/ /\ adapter = "brain" /\ Mishap /\ CommitSession
                 /\ minds' = [minds EXCEPT ![Turn] = mind]
              \/ /\ adapter = "brain" /\ Mishap /\ UNCHANGED <<events, uncommitted>>
                 /\ minds' = [minds EXCEPT ![Turn] = [mind EXCEPT !.raw = newest]]
    /\ NextTurn
    /\ UNCHANGED <<spoke, attendance, roll, frontier, stored, adapter, told, cut, forgotten>>

\* _emit: an event whose key is in the ledger is not appended again; the frontier absorbs
\* them all.
Emit ==
    /\ pace = "emit"
    /\ LET said == Chosen([i \in DOMAIN Members |-> <<Current, Members[i]>>], {Current} \X spoke)
       IN  /\ uncommitted' = uncommitted \o Chosen(said, ToSet(said) \ ToSet(events))
           /\ frontier' = Absorbed(frontier, said)
    /\ pace' = After(pace)
    /\ UNCHANGED <<nth, spoke, attendance, roll, minds, events, stored, adapter, told, cut, forgotten, mishaps>>

\* _persist_one_phase: the rows of a phase are its own, run again or not.
Recorded == IF attendance = NoSeat THEN roll ELSE [roll EXCEPT ![Current] = attendance]

\* The attendance and the checkpoint, with a snapshot of the seats' memory if one can be
\* taken, and the commit.  A pass goes on, or ends at the researcher's gate.
Store ==
    /\ pace = "store"
    /\ CommitSession /\ roll' = Recorded
    /\ \E snapshot \in {<<minds>>, NoSnapshot} :
          /\ stored' = [phases |-> Current, memory |-> snapshot, of |-> adapter,
                        since |-> forgotten]
          /\ IF snapshot = NoSnapshot THEN Mishap ELSE UNCHANGED mishaps
    /\ IF Current = Len(PhaseKinds) THEN pace' = "ended" ELSE pace' \in {"recall", "off"}
    /\ nth' = 1 /\ spoke' = {} /\ attendance' = NoSeat /\ cut' = [s \in Member |-> <<>>]
    /\ UNCHANGED <<minds, frontier, adapter, told, forgotten>>

\* The process dies or its session is lost: what is not committed is gone.
CrashPass ==
    /\ pace \notin {"off", "ended"} /\ Mishap
    /\ pace' = "off" /\ uncommitted' = <<>> /\ nth' = 1 /\ spoke' = {}
    /\ attendance' = NoSeat /\ cut' = [s \in Member |-> <<>>]
    /\ UNCHANGED <<roll, minds, frontier, events, stored, adapter, told, forgotten>>

MemoryNext ==
    OpenPass \/ Recall \/ Deliberate \/ Remember \/ Emit \/ Store \/ CrashPass

MemorySpec == MemoryInit /\ [][MemoryNext]_memoryVars

-----------------------------------------------------------------------------
(* Properties *)

\* Every variable holds a value of its type.
MemoryTypeOK ==
    /\ pace \in {"off", "ended"} \cup ToSet(Steps)
    /\ nth \in DOMAIN Members /\ spoke \subseteq Member
    /\ \A row \in {attendance} \cup ToSet(roll) :
          DOMAIN row \in {{}, Member} /\ \A s \in DOMAIN row : row[s] \in {"completed", "absent"}
    /\ ToSet(events) \cup ToSet(uncommitted) \subseteq (DOMAIN PhaseKinds) \X Member
    /\ \A s \in Member :
          /\ Len(minds[s].raw) <= MaxFallback
          /\ Len(told[s]) <= RecallBudget
          /\ \A n \in DOMAIN minds[s].nodes :
                minds[s].nodes[n].of \subseteq DOMAIN minds[s].log
    /\ stored.phases \in 0 .. Len(PhaseKinds) /\ forgotten \in 0 .. stored.phases
    /\ adapter \in {"brain", "graph"} /\ mishaps \in 0 .. MaxMishaps

\* collective.py: a view of the ledger, "never a second source of truth": whatever was
\* interrupted and resumed, each event counts once.
FrontierIsTheLedger ==
    pace \notin {"off", "ended"} => frontier = Absorbed(NoFrontier, events \o uncommitted)

\* A phase's events are permanent with its checkpoint and not before, so that a phase
\* that is run again never meets its own events.
PhasesAreWhole == \A e \in ToSet(events) : e[1] <= stored.phases

\* The seats of a resumed pass go on with the debate they were having: a seat's log is
\* the phases in which it spoke, but for those its memory was not restored from.
SeatsRemember ==
    pace \notin {"off", "ended"} =>
        \A i \in DOMAIN Members :
            LET Own(p) == /\ p > forgotten
                          /\ \/ p <= stored.phases /\ <<p, Members[i]>> \in ToSet(events)
                             \/ /\ p = Current /\ Members[i] \in spoke
                                /\ \/ pace \in {"emit", "store"}
                                   \/ pace = "remember" /\ i < nth
            IN  minds[Members[i]].log = Chosen([p \in DOMAIN PhaseKinds |-> p],
                                               {p \in DOMAIN PhaseKinds : Own(p)})

\* All argue from the same facts, all that earlier phases settled, by their roles' weights.
Projected == {"Claim", "Blindspot", "DissentCertificate"}

RolesShareTheFrontier ==
    pace \in {"remember", "emit", "store"} =>
        \A s \in Member :
            LET Kind(i) == PhaseKinds[cut[s][i][1]]
            IN  /\ ToSet(cut[s]) = {e \in ToSet(events) : PhaseKinds[e[1]] \in Projected}
                /\ \A i, j \in DOMAIN cut[s] : i < j => Weight[s][Kind(i)] >= Weight[s][Kind(j)]

\* The attendance audit tells of the checkpointed phases and agrees with what they said.
AttendanceIsTheLedger ==
    \A p \in DOMAIN PhaseKinds :
        /\ p > stored.phases => roll[p] = NoSeat
        /\ \A s \in Member : <<p, s>> \in ToSet(events) =>
              DOMAIN roll[p] = Member /\ roll[p][s] = "completed"

\* No seat is told of another's phase, of one it was absent from, or of one undone.
RecallIsOwn ==
    \A s \in Member : \A p \in UNION ToSet(told[s]) : <<p, s>> \in ToSet(events)

\* orchestrator.py 895-901 and jobs.py 715-723: what a pass remembers, shared and private,
\* is what the checkpointed phases said, however often it was cut off and resumed.
MemoryFollowsTheLedger ==
    /\ MemoryTypeOK
    /\ FrontierIsTheLedger /\ RolesShareTheFrontier /\ PhasesAreWhole
    /\ SeatsRemember /\ AttendanceIsTheLedger /\ RecallIsOwn
=============================================================================
