----------------------------- MODULE Knowledge -----------------------------
(***************************************************************************)
(* A researcher's knowledge bases: documents are uploaded, pasted or saved *)
(* from a finished task into a base, a task is linked to one base, and its *)
(* run turns the documents into sources (packages/knowledge, the           *)
(* knowledge-base routes of the API, and what the worker reads of them).   *)
(*                                                                         *)
(* A file goes to the object store before its row goes to the database,    *)
(* and the store knows no transactions.  Requests and the run hold their   *)
(* own transactions: what a run has written is locked until the next       *)
(* audited call commits it, and the foreign keys decide between it and a   *)
(* request that deletes what it refers to.                                 *)
(***************************************************************************)
EXTENDS Naturals, FiniteSets

CONSTANTS
    Base,      \* bound: knowledge bases ever created
    Document,  \* bound: documents ever stored
    Text,      \* what a document can say
    Librarian, \* requests that can be in progress at once
    Study    \* research tasks

ASSUME KnowledgeAssumption == Text # {}

VARIABLES
    bases,     \* base -> "none", "kept" or "deleted"
    documents, \* document -> its row, NotStored, or its row as it was deleted
    store,     \* keys of the private object store
    filing,    \* librarian -> the request it serves
    projects,  \* project -> [base, status] of its row, or NoProject
    reading,   \* project -> documents its current run has listed
    drafts,    \* sources a run has written and not committed: [project, document]
    cited      \* sources

knowVars == <<bases, documents, store, filing, projects, reading, drafts, cited>>

NotStored == [status |-> "none"]
NoProject == [status |-> "none"]
Unoccupied == [op |-> "none"]

\* store_named's and add_text_document's keys: content-addressed within a base; only a
\* file has an object.
KeyOf(kind, b, x) == [kind |-> kind, base |-> b, text |-> x]
Stored(d) == documents[d].status = "kept"

KnowInit ==
    /\ bases = [b \in Base |-> "none"]
    /\ documents = [d \in Document |-> NotStored]
    /\ store = {}
    /\ filing = [l \in Librarian |-> Unoccupied]
    /\ projects = [p \in Study |-> NoProject]
    /\ reading = [p \in Study |-> {}]
    /\ drafts = {} /\ cited = {}

-----------------------------------------------------------------------------
(* Bases and documents *)

CreateBase(b) ==
    /\ bases[b] = "none"
    /\ bases' = [bases EXCEPT ![b] = "kept"]
    /\ UNCHANGED <<documents, store, filing, projects, reading, drafts, cited>>

\* upload_document finds the base, then reads and parses the file in a thread.
AskToFile(l, b, x) ==
    /\ filing[l] = Unoccupied /\ bases[b] = "kept"
    /\ filing' = [filing EXCEPT ![l] = [op |-> "parse", key |-> KeyOf("file", b, x)]]
    /\ UNCHANGED <<bases, documents, store, projects, reading, drafts, cited>>

\* A pasted note has no object.
AskToNote(l, b, x) ==
    /\ filing[l] = Unoccupied /\ bases[b] = "kept"
    /\ filing' = [filing EXCEPT ![l] = [op |-> "row", key |-> KeyOf("note", b, x)]]
    /\ UNCHANGED <<bases, documents, store, projects, reading, drafts, cited>>

\* save_to_knowledge: the brief of a finished task, as a note, into any base of the account.
SaveBrief(l, p, b, x) == projects[p].status = "finished" /\ AskToNote(l, b, x)

\* The file is written, again if it is there.
StoreFile(l) ==
    /\ filing[l].op = "parse"
    /\ store' = store \cup {filing[l].key}
    /\ filing' = [filing EXCEPT ![l].op = "row"]
    /\ UNCHANGED <<bases, documents, projects, reading, drafts, cited>>

\* The row, if the base is still there and no other row has the key.
AddDocument(l, d) ==
    LET key == filing[l].key IN
    /\ filing[l].op = "row"
    /\ documents[d] = NotStored
    /\ bases[key.base] = "kept"
    /\ \A other \in Document : Stored(other) => documents[other].key # key
    /\ documents' = [documents EXCEPT ![d] = [status |-> "kept", key |-> key]]
    /\ filing' = [filing EXCEPT ![l] = Unoccupied]
    /\ UNCHANGED <<bases, store, projects, reading, drafts, cited>>

\* Refused: no text, a constraint of the database, a process that died.
GiveUpFiling(l) ==
    /\ filing[l] # Unoccupied
    /\ filing' = [filing EXCEPT ![l] = Unoccupied]
    /\ UNCHANGED <<bases, documents, store, projects, reading, drafts, cited>>

CitedIn(sources, d) == \E s \in sources : s.document = d

\* A mistake: the file goes with the row.
DeleteWithObject(d) ==
    /\ Stored(d)
    /\ ~CitedIn(cited \cup drafts, d)
    /\ documents' = [documents EXCEPT ![d].status = "deleted"]
    /\ store' = store \ {documents[d].key}
    /\ UNCHANGED <<bases, filing, projects, reading, drafts, cited>>

\* Not while a source refers to it; one that is not committed is waited for.
DeleteDocument(d) ==
    /\ Stored(d)
    /\ ~CitedIn(cited \cup drafts, d)
    /\ documents' = [documents EXCEPT ![d].status = "deleted"]
    /\ UNCHANGED <<bases, store, filing, projects, reading, drafts, cited>>

Linked(b) == {p \in Study : projects[p] # NoProject /\ projects[p].base = b}

\* Not while a task is linked to it; its documents go with it.
DeleteBase(b) ==
    /\ bases[b] = "kept"
    /\ Linked(b) = {}
    /\ bases' = [bases EXCEPT ![b] = "deleted"]
    /\ documents' = [d \in Document |->
            IF Stored(d) /\ documents[d].key.base = b THEN [documents[d] EXCEPT !.status = "deleted"] ELSE documents[d]]
    /\ UNCHANGED <<store, filing, projects, reading, drafts, cited>>

-----------------------------------------------------------------------------
(* A task linked to a base *)

LinkProject(p, b) ==
    /\ projects[p] = NoProject /\ bases[b] = "kept"
    /\ projects' = [projects EXCEPT ![p] = [status |-> "queued", base |-> b]]
    /\ UNCHANGED <<bases, documents, store, filing, reading, drafts, cited>>

\* _knowledge_documents: the base's rows, once, as the run starts.
ListDocuments(p) ==
    /\ projects[p].status = "queued"
    /\ projects' = [projects EXCEPT ![p].status = "running"]
    /\ reading' = [reading EXCEPT ![p] = {d \in Document : Stored(d) /\ documents[d].key.base = projects[p].base}]
    /\ UNCHANGED <<bases, documents, store, filing, drafts, cited>>

\* acquire_knowledge_documents: a listed document's source, unless the task has it; the
\* document must still be there.
CiteDocument(p, d) ==
    LET source == [project |-> p, document |-> d] IN
    /\ projects[p].status = "running" /\ d \in reading[p]
    /\ Stored(d)
    /\ source \notin cited \cup drafts
    /\ drafts' = drafts \cup {source}
    /\ UNCHANGED <<bases, documents, store, filing, projects, reading, cited>>

Of(p) == {s \in drafts \cup cited : s.project = p}

\* An audited model call in the middle of a phase.
CommitDrafts(p) ==
    /\ drafts \cap Of(p) # {}
    /\ cited' = cited \cup (drafts \cap Of(p))
    /\ drafts' = drafts \ Of(p)
    /\ UNCHANGED <<bases, documents, store, filing, projects, reading>>

\* The run may have ended before it read anything.
FinishProject(p) ==
    /\ projects[p].status = "running"
    /\ projects' = [projects EXCEPT ![p].status = "finished"]
    /\ reading' = [reading EXCEPT ![p] = {}]
    /\ cited' = cited \cup (drafts \cap Of(p))
    /\ drafts' = drafts \ Of(p)
    /\ UNCHANGED <<bases, documents, store, filing>>

\* A listed document that is gone fails the insert and the run; so does a crash.  The
\* next run lists the base anew.
LoseRun(p) ==
    /\ projects[p].status = "running"
    /\ projects' = [projects EXCEPT ![p].status = "queued"]
    /\ reading' = [reading EXCEPT ![p] = {}]
    /\ drafts' = drafts \ Of(p)
    /\ UNCHANGED <<bases, documents, store, filing, cited>>

\* delete_task_cascade; TaskDesk has the delete of a task that runs.
DeleteProject(p) ==
    /\ projects[p] # NoProject /\ projects[p].status # "running"
    /\ projects' = [projects EXCEPT ![p] = NoProject]
    /\ cited' = cited \ Of(p)
    /\ UNCHANGED <<bases, documents, store, filing, reading, drafts>>

Filing(l) ==
    \/ \E b \in Base, x \in Text : AskToFile(l, b, x) \/ AskToNote(l, b, x) \/ \E p \in Study : SaveBrief(l, p, b, x)
    \/ StoreFile(l)
    \/ \E d \in Document : AddDocument(l, d)
    \/ GiveUpFiling(l)

StudySteps(p) ==
    \/ \E b \in Base : LinkProject(p, b)
    \/ ListDocuments(p) \/ CommitDrafts(p)
    \/ \E d \in Document : CiteDocument(p, d)
    \/ FinishProject(p) \/ LoseRun(p) \/ DeleteProject(p)

KnowNext ==
    \/ \E b \in Base : CreateBase(b) \/ DeleteBase(b)
    \/ \E d \in Document : DeleteDocument(d)
    \/ \E l \in Librarian : Filing(l)
    \/ \E p \in Study : StudySteps(p)

KnowSpec == KnowInit /\ [][KnowNext]_knowVars

-----------------------------------------------------------------------------
(* Properties *)

\* Every variable holds a value of its type.
KnowTypeOK ==
    LET Keys == [kind : {"file", "note"}, base : Base, text : Text]
        Sources == [project : Study, document : Document] IN
    /\ bases \in [Base -> {"none", "kept", "deleted"}]
    /\ documents \in [Document -> {NotStored} \cup [status : {"kept", "deleted"}, key : Keys]]
    /\ store \subseteq Keys
    /\ filing \in [Librarian -> {Unoccupied} \cup [op : {"parse", "row"}, key : Keys]]
    /\ projects \in [Study -> {NoProject} \cup [status : {"queued", "running", "finished"}, base : Base]]
    /\ drafts \cup cited \subseteq Sources
    /\ reading \in [Study -> SUBSET Document]

\* However uploads of one file, deletes of its document and runs that read it overlap,
\* the row of a file always has its object, and a source always has its document, in a
\* base that is still there and is the one its task is linked to.
DocumentsBackTheirSources ==
    /\ KnowTypeOK
    /\ \A d \in Document : Stored(d) /\ documents[d].key.kind = "file" => documents[d].key \in store
    /\ \A s \in cited \cup drafts :
           /\ Stored(s.document)
           /\ projects[s.project] # NoProject
           /\ documents[s.document].key.base = projects[s.project].base
    /\ \A p \in Study : projects[p] # NoProject => bases[projects[p].base] = "kept"
=============================================================================
