---------------------------- MODULE LibraryProofs ----------------------------
(***************************************************************************)
(* What an account keeps beside its tasks, for any number of bases,        *)
(* documents, requests, tasks, repositories and skills: a file's row has   *)
(* its object and a source its document (Knowledge), and a skill keeps its *)
(* text (Skills).                                                          *)
(***************************************************************************)
EXTENDS Knowledge, Skills, FiniteSetTheorems, TLAPS

-----------------------------------------------------------------------------
(***************************************************************************)
(* Knowledge bases                                                         *)
(***************************************************************************)

Keys == [kind : {"file", "note"}, base : Base, text : Text]
Rows == [status : {"kept", "deleted"}, key : Keys]
Requests == [op : {"parse", "row"}, key : Keys]
Projects == [status : {"queued", "running", "finished"}, base : Base]
Sources == [project : Study, document : Document]

\* The conjuncts of DocumentsBackTheirSources.
FilesHaveObjects ==
    \A d \in Document : Stored(d) /\ documents[d].key.kind = "file" => documents[d].key \in store

SourcesHaveDocuments ==
    \A s \in cited \cup drafts :
        /\ Stored(s.document)
        /\ projects[s.project] # NoProject
        /\ documents[s.document].key.base = projects[s.project].base

StudiesHaveBases == \A p \in Study : projects[p] # NoProject => bases[projects[p].base] = "kept"

\* What makes them inductive.  A file about to get its row has its object; a run has listed
\* only documents that were in its base, and nothing is listed or uncommitted but by a run.
FiledFilesHaveObjects ==
    \A l \in Librarian : filing[l].op = "row" /\ filing[l].key.kind = "file" => filing[l].key \in store

ListsAreOfTheBase ==
    \A p \in Study : \A d \in reading[p] :
        /\ projects[p] # NoProject /\ projects[p].status = "running"
        /\ documents[d] # NotStored
        /\ documents[d].key.base = projects[p].base

DraftsAreOfRuns == \A s \in drafts : projects[s.project].status = "running"

KnowInv ==
    /\ KnowTypeOK
    /\ FilesHaveObjects /\ SourcesHaveDocuments /\ StudiesHaveBases
    /\ FiledFilesHaveObjects /\ ListsAreOfTheBase /\ DraftsAreOfRuns

-----------------------------------------------------------------------------

\* The type invariant, part by part.
LEMMA Types ==
    KnowTypeOK <=>
        /\ bases \in [Base -> {"none", "kept", "deleted"}]
        /\ documents \in [Document -> {NotStored} \cup Rows]
        /\ store \subseteq Keys
        /\ filing \in [Librarian -> {Unoccupied} \cup Requests]
        /\ projects \in [Study -> {NoProject} \cup Projects]
        /\ drafts \subseteq Sources /\ cited \subseteq Sources
        /\ reading \in [Study -> SUBSET Document]
  BY DEF KnowTypeOK, Keys, Rows, Requests, Projects, Sources

\* Each value that marks an empty place is none of what can stand there.
LEMMA Markers ==
    /\ \A r \in Rows : r # NotStored /\ r.key \in Keys /\ r.status \in {"kept", "deleted"}
    /\ \A r \in Requests : r # Unoccupied /\ r.key \in Keys /\ r.op \in {"parse", "row"}
    /\ \A r \in Projects : r # NoProject /\ r.base \in Base /\ r.status \in {"queued", "running", "finished"}
    /\ NotStored.status = "none" /\ Unoccupied.op = "none" /\ NoProject.status = "none"
  <1>1. \A r \in Rows : r.key \in Keys /\ r.status \in {"kept", "deleted"}  BY DEF Rows
  <1>2. \A r \in Requests : r.key \in Keys /\ r.op \in {"parse", "row"}  BY DEF Requests
  <1>3. \A r \in Projects : r.base \in Base /\ r.status \in {"queued", "running", "finished"}
    BY DEF Projects
  <1>4. NotStored.status = "none" /\ Unoccupied.op = "none" /\ NoProject.status = "none"
    BY DEF NotStored, Unoccupied, NoProject
  <1> QED  BY <1>1, <1>2, <1>3, <1>4

\* A row that is kept or deleted, a request and a project are what their types say.
LEMMA Held ==
    ASSUME KnowTypeOK
    PROVE  /\ \A d \in Document : documents[d] # NotStored => documents[d] \in Rows
           /\ \A d \in Document : Stored(d) => documents[d] \in Rows
           /\ \A l \in Librarian : filing[l] # Unoccupied => filing[l] \in Requests
           /\ \A l \in Librarian : filing[l].op # "none" => filing[l] \in Requests
           /\ \A p \in Study : projects[p] # NoProject => projects[p] \in Projects
           /\ \A p \in Study : projects[p].status # "none" => projects[p] \in Projects
  BY Types, Markers DEF Stored

\* Nothing is stored, asked or linked at first.
LEMMA LibraryOpens == KnowInit => KnowInv
  <1> SUFFICES ASSUME KnowInit PROVE KnowInv  OBVIOUS
  <1> USE DEF KnowInit
  <1>1. KnowTypeOK  BY Types
  <1>2. FilesHaveObjects /\ SourcesHaveDocuments /\ StudiesHaveBases
    BY Markers DEF FilesHaveObjects, SourcesHaveDocuments, StudiesHaveBases, Stored
  <1>3. FiledFilesHaveObjects /\ ListsAreOfTheBase /\ DraftsAreOfRuns
    BY Markers DEF FiledFilesHaveObjects, ListsAreOfTheBase, DraftsAreOfRuns
  <1> QED  BY <1>1, <1>2, <1>3 DEF KnowInv

-----------------------------------------------------------------------------

\* The conjuncts of the invariant read only some of the variables.
LEMMA KeptApart ==
    ASSUME KnowInv,
           documents' = documents, store \subseteq store', store' \subseteq Keys,
           projects' = projects, drafts' = drafts, cited' = cited, reading' = reading,
           bases' \in [Base -> {"none", "kept", "deleted"}],
           \A b \in Base : bases[b] = "kept" => bases'[b] = "kept",
           filing' \in [Librarian -> {Unoccupied} \cup Requests],
           FiledFilesHaveObjects'
    PROVE  KnowInv'
  <1>1. KnowTypeOK'  BY Types DEF KnowInv, KnowTypeOK, Keys, Rows, Requests, Projects, Sources
  <1>2. FilesHaveObjects'  BY DEF KnowInv, FilesHaveObjects, Stored
  <1>3. SourcesHaveDocuments'  BY DEF KnowInv, SourcesHaveDocuments, Stored
  <1>4. StudiesHaveBases'  BY Held, Markers DEF KnowInv, StudiesHaveBases
  <1>5. ListsAreOfTheBase' /\ DraftsAreOfRuns'  BY DEF KnowInv, ListsAreOfTheBase, DraftsAreOfRuns
  <1> QED  BY <1>1, <1>2, <1>3, <1>4, <1>5 DEF KnowInv

\* A new base takes nothing from the others.
LEMMA Creating == ASSUME KnowInv, NEW b \in Base, CreateBase(b) PROVE KnowInv'
  <1> USE DEF CreateBase
  <1>1. bases' \in [Base -> {"none", "kept", "deleted"}]  BY Types DEF KnowInv
  <1>2. \A c \in Base : bases[c] = "kept" => bases'[c] = "kept"  BY Types DEF KnowInv
  <1>3. FiledFilesHaveObjects'  BY DEF KnowInv, FiledFilesHaveObjects
  <1> QED  BY <1>1, <1>2, <1>3, KeptApart, Types DEF KnowInv

\* A request that begins has no row to make of a file yet.
LEMMA Asking ==
    ASSUME KnowInv, NEW l \in Librarian, NEW b \in Base, NEW x \in Text,
           AskToFile(l, b, x) \/ AskToNote(l, b, x)
    PROVE  KnowInv'
  <1> USE DEF AskToFile, AskToNote, KeyOf
  <1>1. filing' \in [Librarian -> {Unoccupied} \cup Requests]
    BY Types DEF KnowInv, Requests, Keys
  <1>2. FiledFilesHaveObjects'  BY Types DEF KnowInv, FiledFilesHaveObjects
  <1> QED  BY <1>1, <1>2, KeptApart, Types DEF KnowInv

\* The object is there before the request goes for its row.
LEMMA Storing == ASSUME KnowInv, NEW l \in Librarian, StoreFile(l) PROVE KnowInv'
  <1> USE DEF StoreFile
  <1>0. filing[l] \in Requests /\ filing[l].key \in Keys  BY Held, Markers DEF KnowInv
  <1>1. filing' \in [Librarian -> {Unoccupied} \cup Requests]
    BY <1>0, Types DEF KnowInv, Requests
  <1>2. FiledFilesHaveObjects'
    BY <1>0, Types DEF KnowInv, FiledFilesHaveObjects, Requests
  <1>3. store' \subseteq Keys /\ store \subseteq store'  BY <1>0, Types DEF KnowInv
  <1> QED  BY <1>1, <1>2, <1>3, KeptApart, Types DEF KnowInv

\* A request that ends without a row leaves at most an object.
LEMMA GivingUp == ASSUME KnowInv, NEW l \in Librarian, GiveUpFiling(l) PROVE KnowInv'
  <1> USE DEF GiveUpFiling
  <1>1. filing' \in [Librarian -> {Unoccupied} \cup Requests]  BY Types DEF KnowInv
  <1>2. FiledFilesHaveObjects'  BY Types, Markers DEF KnowInv, FiledFilesHaveObjects
  <1> QED  BY <1>1, <1>2, KeptApart, Types DEF KnowInv

\* A new row is of a document that no list and no source had.
LEMMA Adding == ASSUME KnowInv, NEW l \in Librarian, NEW d \in Document, AddDocument(l, d) PROVE KnowInv'
  <1> USE DEF AddDocument
  <1> DEFINE key == filing[l].key
  <1>0. filing[l] \in Requests /\ key \in Keys  BY Held, Markers DEF KnowInv
  <1>1. documents' \in [Document -> {NotStored} \cup Rows]
    <2>1. [status |-> "kept", key |-> key] \in Rows  BY <1>0 DEF Rows
    <2> HIDE DEF key
    <2>2. documents' = [documents EXCEPT ![d] = [status |-> "kept", key |-> key]]  BY DEF key
    <2> QED  BY <2>1, <2>2, Types DEF KnowInv
  <1>2. filing' \in [Librarian -> {Unoccupied} \cup Requests]  BY Types DEF KnowInv
  <1>3. KnowTypeOK'
    BY <1>1, <1>2, Types DEF KnowInv, KnowTypeOK, Keys, Rows, Requests, Projects, Sources
  <1>4. /\ documents'[d] = [status |-> "kept", key |-> key]
        /\ \A e \in Document : e # d => documents'[e] = documents[e]
    BY Types DEF KnowInv
  <1>5. FilesHaveObjects'
    BY <1>4 DEF KnowInv, FilesHaveObjects, FiledFilesHaveObjects, Stored
  <1>6. SourcesHaveDocuments'
    BY <1>4, Types, Markers DEF KnowInv, SourcesHaveDocuments, Stored, Sources
  <1>7. StudiesHaveBases' /\ DraftsAreOfRuns'  BY DEF KnowInv, StudiesHaveBases, DraftsAreOfRuns
  <1>8. FiledFilesHaveObjects'  BY Types, Markers DEF KnowInv, FiledFilesHaveObjects
  <1>9. ListsAreOfTheBase'  BY <1>4, Types DEF KnowInv, ListsAreOfTheBase
  <1> QED  BY <1>3, <1>5, <1>6, <1>7, <1>8, <1>9 DEF KnowInv

\* A document is deleted that no source refers to; a list that has it still knows its base.
LEMMA Deleting == ASSUME KnowInv, NEW d \in Document, DeleteDocument(d) PROVE KnowInv'
  <1> USE DEF DeleteDocument
  <1>0. documents[d] \in Rows  BY Held DEF KnowInv
  <1> DEFINE gone == [documents[d] EXCEPT !.status = "deleted"]
  <1>1. gone \in Rows /\ gone.status = "deleted" /\ gone.key = documents[d].key  BY <1>0 DEF Rows
  <1>2. documents' = [documents EXCEPT ![d] = gone]  OBVIOUS
  <1> HIDE DEF gone, DeleteDocument
  <1>3. /\ documents' \in [Document -> {NotStored} \cup Rows]
        /\ documents'[d] = gone
        /\ \A e \in Document : e # d => documents'[e] = documents[e]
    BY <1>1, <1>2, Types DEF KnowInv
  <1>4. /\ bases' = bases /\ store' = store /\ filing' = filing /\ projects' = projects
        /\ reading' = reading /\ drafts' = drafts /\ cited' = cited
        /\ \A s \in cited \cup drafts : s.document # d
    BY DEF DeleteDocument, CitedIn
  <1>5. KnowTypeOK'
    BY <1>3, <1>4, Types DEF KnowInv, KnowTypeOK, Keys, Rows, Requests, Projects, Sources
  <1>6. FilesHaveObjects'  BY <1>1, <1>3, <1>4 DEF KnowInv, FilesHaveObjects, Stored
  <1>7. SourcesHaveDocuments'
    BY <1>3, <1>4, Types DEF KnowInv, SourcesHaveDocuments, Stored, Sources
  <1>8. StudiesHaveBases' /\ DraftsAreOfRuns' /\ FiledFilesHaveObjects'
    BY <1>4 DEF KnowInv, StudiesHaveBases, DraftsAreOfRuns, FiledFilesHaveObjects
  <1>9. ListsAreOfTheBase'  BY <1>1, <1>3, <1>4, Types, Markers DEF KnowInv, ListsAreOfTheBase
  <1> QED  BY <1>5, <1>6, <1>7, <1>8, <1>9 DEF KnowInv

\* No task is linked to a base that is deleted, so no source refers to its documents.
LEMMA DeletingBase == ASSUME KnowInv, NEW b \in Base, DeleteBase(b) PROVE KnowInv'
  <1> DEFINE inBase(d) == Stored(d) /\ documents[d].key.base = b
             gone(d) == [documents[d] EXCEPT !.status = "deleted"]
  <1>1. \A d \in Document : inBase(d) =>
            gone(d) \in Rows /\ gone(d).status = "deleted" /\ gone(d).key = documents[d].key
    <2> TAKE d \in Document
    <2> SUFFICES ASSUME Stored(d)
                 PROVE  gone(d) \in Rows /\ gone(d).status = "deleted" /\ gone(d).key = documents[d].key
      OBVIOUS
    <2>1. documents[d] \in Rows  BY Held DEF KnowInv
    <2> QED  BY <2>1 DEF Rows
  <1>2. documents' = [d \in Document |-> IF inBase(d) THEN gone(d) ELSE documents[d]]
    BY DEF DeleteBase
  <1> HIDE DEF gone
  <1>3. /\ documents' \in [Document -> {NotStored} \cup Rows]
        /\ \A d \in Document : inBase(d) => documents'[d] = gone(d)
        /\ \A d \in Document : ~inBase(d) => documents'[d] = documents[d]
    BY <1>1, <1>2, Types DEF KnowInv
  <1>4. /\ store' = store /\ filing' = filing /\ projects' = projects
        /\ reading' = reading /\ drafts' = drafts /\ cited' = cited
        /\ bases' = [bases EXCEPT ![b] = "deleted"]
        /\ \A p \in Study : projects[p] # NoProject => projects[p].base # b
    BY DEF DeleteBase, Linked
  <1>5. KnowTypeOK'
    BY <1>3, <1>4, Types DEF KnowInv, KnowTypeOK, Keys, Rows, Requests, Projects, Sources
  <1>6. FilesHaveObjects'  BY <1>1, <1>3, <1>4 DEF KnowInv, FilesHaveObjects, Stored
  <1>7. SourcesHaveDocuments'
    <2> SUFFICES ASSUME NEW s \in cited \cup drafts
                 PROVE  /\ documents'[s.document] = documents[s.document]
      BY <1>4 DEF KnowInv, SourcesHaveDocuments, Stored
    <2>1. s.document \in Document /\ s.project \in Study  BY Types DEF KnowInv, Sources
    <2>2. ~inBase(s.document)  BY <1>4, <2>1 DEF KnowInv, SourcesHaveDocuments
    <2> QED  BY <1>3, <2>1, <2>2
  <1>8. StudiesHaveBases'
    BY <1>4, Held, Markers, Types DEF KnowInv, StudiesHaveBases
  <1>9. DraftsAreOfRuns' /\ FiledFilesHaveObjects'
    BY <1>4 DEF KnowInv, DraftsAreOfRuns, FiledFilesHaveObjects
  <1>10. ListsAreOfTheBase'
    <2> SUFFICES ASSUME NEW p \in Study, NEW d \in reading[p]
                 PROVE  documents'[d] # NotStored /\ documents'[d].key = documents[d].key
      BY <1>4 DEF KnowInv, ListsAreOfTheBase
    <2>1. d \in Document /\ documents[d] # NotStored  BY Types DEF KnowInv, ListsAreOfTheBase
    <2> QED  BY <1>1, <1>3, <2>1, Markers
  <1> QED  BY <1>5, <1>6, <1>7, <1>8, <1>9, <1>10 DEF KnowInv

-----------------------------------------------------------------------------

\* The steps of a run and of its task leave the library as it is.
LEMMA LibraryApart ==
    ASSUME KnowInv,
           bases' = bases, documents' = documents, store' = store, filing' = filing,
           projects' \in [Study -> {NoProject} \cup Projects],
           drafts' \subseteq Sources, cited' \subseteq Sources,
           reading' \in [Study -> SUBSET Document],
           SourcesHaveDocuments', StudiesHaveBases', ListsAreOfTheBase', DraftsAreOfRuns'
    PROVE  KnowInv'
  <1>1. KnowTypeOK'  BY Types DEF KnowInv, KnowTypeOK, Keys, Rows, Requests, Projects, Sources
  <1>2. FilesHaveObjects' /\ FiledFilesHaveObjects'
    BY DEF KnowInv, FilesHaveObjects, FiledFilesHaveObjects, Stored
  <1> QED  BY <1>1, <1>2 DEF KnowInv

\* A task that did not exist has no list and no source.
LEMMA Linking == ASSUME KnowInv, NEW p \in Study, NEW b \in Base, LinkProject(p, b) PROVE KnowInv'
  <1> DEFINE row == [status |-> "queued", base |-> b]
  <1>0. row \in Projects /\ row.base = b /\ row.status = "queued"  BY DEF Projects
  <1>1. projects' = [projects EXCEPT ![p] = row] /\ projects[p] = NoProject /\ bases[b] = "kept"
    BY DEF LinkProject
  <1> HIDE DEF row
  <1>2. /\ projects' \in [Study -> {NoProject} \cup Projects] /\ projects'[p] = row
        /\ \A q \in Study : q # p => projects'[q] = projects[q]
    BY <1>0, <1>1, Types DEF KnowInv
  <1>3. /\ bases' = bases /\ documents' = documents /\ store' = store /\ filing' = filing
        /\ reading' = reading /\ drafts' = drafts /\ cited' = cited
    BY DEF LinkProject
  <1>4. SourcesHaveDocuments'
    BY <1>1, <1>2, <1>3, Types DEF KnowInv, SourcesHaveDocuments, Stored, Sources
  <1>5. StudiesHaveBases'  BY <1>0, <1>1, <1>2, <1>3 DEF KnowInv, StudiesHaveBases
  <1>6. ListsAreOfTheBase'  BY <1>1, <1>2, <1>3 DEF KnowInv, ListsAreOfTheBase
  <1>7. DraftsAreOfRuns'
    BY <1>1, <1>2, <1>3, Types, Markers DEF KnowInv, DraftsAreOfRuns, Sources
  <1> QED  BY <1>2, <1>3, <1>4, <1>5, <1>6, <1>7, LibraryApart, Types DEF KnowInv

\* What a run lists is stored, in its base.
LEMMA Listing == ASSUME KnowInv, NEW p \in Study, ListDocuments(p) PROVE KnowInv'
  <1> DEFINE row == [projects[p] EXCEPT !.status = "running"]
             list == {d \in Document : Stored(d) /\ documents[d].key.base = projects[p].base}
  <1>a. projects[p] \in Projects  BY Held, Markers DEF KnowInv, ListDocuments
  <1>0. row \in Projects /\ row.base = projects[p].base /\ row.status = "running"
    BY <1>a DEF Projects
  <1>1. /\ projects' = [projects EXCEPT ![p] = row] /\ reading' = [reading EXCEPT ![p] = list]
        /\ projects[p].status = "queued"
    BY DEF ListDocuments
  <1> HIDE DEF row
  <1>2. /\ projects' \in [Study -> {NoProject} \cup Projects] /\ projects'[p] = row
        /\ \A q \in Study : q # p => projects'[q] = projects[q]
        /\ reading' \in [Study -> SUBSET Document] /\ reading'[p] = list
        /\ \A q \in Study : q # p => reading'[q] = reading[q]
    BY <1>0, <1>1, Types DEF KnowInv
  <1>3. /\ bases' = bases /\ documents' = documents /\ store' = store /\ filing' = filing
        /\ drafts' = drafts /\ cited' = cited
    BY DEF ListDocuments
  <1>4. SourcesHaveDocuments'
    BY <1>a, <1>0, <1>2, <1>3, Types, Markers DEF KnowInv, SourcesHaveDocuments, Stored, Sources
  <1>5. StudiesHaveBases'
    BY <1>a, <1>0, <1>2, <1>3, Markers DEF KnowInv, StudiesHaveBases
  <1>6. ListsAreOfTheBase'
    BY <1>0, <1>2, <1>3, Held, Markers DEF KnowInv, ListsAreOfTheBase
  <1>7. DraftsAreOfRuns'  BY <1>0, <1>2, <1>3, Types DEF KnowInv, DraftsAreOfRuns, Sources
  <1> QED  BY <1>2, <1>3, <1>4, <1>5, <1>6, <1>7, LibraryApart, Types DEF KnowInv

\* A source is written of a listed document, so of one of the task's base, that is still there.
LEMMA Citing == ASSUME KnowInv, NEW p \in Study, NEW d \in Document, CiteDocument(p, d) PROVE KnowInv'
  <1> DEFINE source == [project |-> p, document |-> d]
  <1>0. source \in Sources /\ source.project = p /\ source.document = d  BY DEF Sources
  <1>1. /\ drafts' = drafts \cup {source} /\ d \in reading[p] /\ Stored(d)
        /\ projects[p].status = "running"
    BY DEF CiteDocument
  <1> HIDE DEF source
  <1>3. /\ bases' = bases /\ documents' = documents /\ store' = store /\ filing' = filing
        /\ projects' = projects /\ reading' = reading /\ cited' = cited
    BY DEF CiteDocument
  <1>4. SourcesHaveDocuments'
    BY <1>0, <1>1, <1>3 DEF KnowInv, SourcesHaveDocuments, ListsAreOfTheBase, Stored
  <1>5. StudiesHaveBases' /\ ListsAreOfTheBase'
    BY <1>3 DEF KnowInv, StudiesHaveBases, ListsAreOfTheBase
  <1>6. DraftsAreOfRuns'  BY <1>0, <1>1, <1>3 DEF KnowInv, DraftsAreOfRuns
  <1> QED  BY <1>0, <1>1, <1>3, <1>4, <1>5, <1>6, LibraryApart, Types DEF KnowInv

\* The drafts of one run become sources.
LEMMA Committing == ASSUME KnowInv, NEW p \in Study, CommitDrafts(p) PROVE KnowInv'
  <1> USE DEF CommitDrafts
  <1>1. SourcesHaveDocuments'  BY DEF KnowInv, SourcesHaveDocuments, Stored
  <1>2. StudiesHaveBases' /\ ListsAreOfTheBase' /\ DraftsAreOfRuns'
    BY DEF KnowInv, StudiesHaveBases, ListsAreOfTheBase, DraftsAreOfRuns
  <1> QED  BY <1>1, <1>2, LibraryApart, Types DEF KnowInv

\* A run that ends takes its list and its drafts with it: they are committed or lost.
LEMMA RunEnds ==
    ASSUME KnowInv, NEW p \in Study, NEW status \in {"queued", "finished"},
           projects[p].status = "running",
           projects' = [projects EXCEPT ![p].status = status],
           reading' = [reading EXCEPT ![p] = {}],
           drafts' = drafts \ Of(p), cited' \subseteq cited \cup drafts,
           bases' = bases, documents' = documents, store' = store, filing' = filing
    PROVE  KnowInv'
  <1> DEFINE row == [projects[p] EXCEPT !.status = status]
  <1>a. projects[p] \in Projects  BY Held, Markers DEF KnowInv
  <1>0. row \in Projects /\ row.base = projects[p].base  BY <1>a DEF Projects
  <1>1. projects' = [projects EXCEPT ![p] = row]  OBVIOUS
  <1> HIDE DEF row
  <1>2. /\ projects' \in [Study -> {NoProject} \cup Projects] /\ projects'[p] = row
        /\ \A q \in Study : q # p => projects'[q] = projects[q]
        /\ reading' \in [Study -> SUBSET Document] /\ reading'[p] = {}
        /\ \A q \in Study : q # p => reading'[q] = reading[q]
    BY <1>0, <1>1, Types DEF KnowInv
  <1>3. drafts' \subseteq drafts /\ (\A s \in drafts' : s.project # p)  BY DEF Of
  <1>4. SourcesHaveDocuments'
    BY <1>a, <1>0, <1>2, <1>3, Types, Markers DEF KnowInv, SourcesHaveDocuments, Stored, Sources
  <1>5. StudiesHaveBases'
    BY <1>a, <1>0, <1>2, Markers DEF KnowInv, StudiesHaveBases
  <1>6. ListsAreOfTheBase'  BY <1>2 DEF KnowInv, ListsAreOfTheBase
  <1>7. DraftsAreOfRuns'  BY <1>2, <1>3, Types DEF KnowInv, DraftsAreOfRuns, Sources
  <1> QED  BY <1>2, <1>3, <1>4, <1>5, <1>6, <1>7, LibraryApart, Types DEF KnowInv

\* A task that does not run has no list and no drafts; its sources go with it.
LEMMA DeletingProject == ASSUME KnowInv, NEW p \in Study, DeleteProject(p) PROVE KnowInv'
  <1>1. /\ projects' = [projects EXCEPT ![p] = NoProject] /\ projects[p].status # "running"
        /\ cited' = cited \ Of(p) /\ drafts' = drafts /\ reading' = reading
        /\ bases' = bases /\ documents' = documents /\ store' = store /\ filing' = filing
    BY DEF DeleteProject
  <1>2. /\ projects' \in [Study -> {NoProject} \cup Projects] /\ projects'[p] = NoProject
        /\ \A q \in Study : q # p => projects'[q] = projects[q]
    BY <1>1, Types DEF KnowInv
  <1>3. \A s \in cited' \cup drafts' : s \in cited \cup drafts /\ s.project # p
    BY <1>1 DEF KnowInv, DraftsAreOfRuns, Of
  <1>4. SourcesHaveDocuments'
    BY <1>1, <1>2, <1>3, Types DEF KnowInv, SourcesHaveDocuments, Stored, Sources
  <1>5. StudiesHaveBases'  BY <1>1, <1>2 DEF KnowInv, StudiesHaveBases
  <1>6. ListsAreOfTheBase'  BY <1>1, <1>2 DEF KnowInv, ListsAreOfTheBase
  <1>7. DraftsAreOfRuns'  BY <1>1, <1>2, <1>3, Types DEF KnowInv, DraftsAreOfRuns, Sources
  <1> QED  BY <1>1, <1>2, <1>4, <1>5, <1>6, <1>7, LibraryApart, Types DEF KnowInv

-----------------------------------------------------------------------------

\* Every step keeps the invariant.
LEMMA LibraryGoesOn == KnowInv /\ [KnowNext]_knowVars => KnowInv'
  <1> SUFFICES ASSUME KnowInv, [KnowNext]_knowVars PROVE KnowInv'  OBVIOUS
  <1>1. CASE \E b \in Base : CreateBase(b) \/ DeleteBase(b)  BY <1>1, Creating, DeletingBase
  <1>2. CASE \E d \in Document : DeleteDocument(d)  BY <1>2, Deleting
  <1>3. CASE \E l \in Librarian : Filing(l)
    <2> PICK l \in Librarian : Filing(l)  BY <1>3
    <2>1. CASE \E b \in Base, x \in Text :
                   AskToFile(l, b, x) \/ AskToNote(l, b, x) \/ \E p \in Study : SaveBrief(l, p, b, x)
      BY <2>1, Asking DEF SaveBrief
    <2>2. CASE StoreFile(l)  BY <2>2, Storing
    <2>3. CASE \E d \in Document : AddDocument(l, d)  BY <2>3, Adding
    <2>4. CASE GiveUpFiling(l)  BY <2>4, GivingUp
    <2> QED  BY <2>1, <2>2, <2>3, <2>4 DEF Filing
  <1>4. CASE \E p \in Study : StudySteps(p)
    <2> PICK p \in Study : StudySteps(p)  BY <1>4
    <2>1. CASE \E b \in Base : LinkProject(p, b)  BY <2>1, Linking
    <2>2. CASE ListDocuments(p)  BY <2>2, Listing
    <2>3. CASE CommitDrafts(p)  BY <2>3, Committing
    <2>4. CASE \E d \in Document : CiteDocument(p, d)  BY <2>4, Citing
    <2>5. CASE FinishProject(p)
      <3>1. cited' \subseteq cited \cup drafts  BY <2>5 DEF FinishProject
      <3> QED  BY <2>5, <3>1, RunEnds DEF FinishProject
    <2>6. CASE LoseRun(p)
      <3>1. cited' \subseteq cited \cup drafts  BY <2>6 DEF LoseRun
      <3> QED  BY <2>6, <3>1, RunEnds DEF LoseRun
    <2>7. CASE DeleteProject(p)  BY <2>7, DeletingProject
    <2> QED  BY <2>1, <2>2, <2>3, <2>4, <2>5, <2>6, <2>7 DEF StudySteps
  <1>5. CASE UNCHANGED knowVars
    BY <1>5 DEF knowVars, KnowInv, KnowTypeOK, FilesHaveObjects, SourcesHaveDocuments, StudiesHaveBases,
                FiledFilesHaveObjects, ListsAreOfTheBase, DraftsAreOfRuns, Stored
  <1> QED  BY <1>1, <1>2, <1>3, <1>4, <1>5 DEF KnowNext

\* However uploads, deletes and runs overlap, a file's row has its object, and a source its
\* document, in the base its task is linked to, which is still there.
THEOREM SourcesAreBacked == KnowSpec => []DocumentsBackTheirSources
  <1>1. KnowInv => DocumentsBackTheirSources
    BY DEF KnowInv, DocumentsBackTheirSources, FilesHaveObjects, SourcesHaveDocuments, StudiesHaveBases
  <1> QED  BY LibraryOpens, LibraryGoesOn, <1>1, PTL DEF KnowSpec

-----------------------------------------------------------------------------
(***************************************************************************)
(* Skills                                                                  *)
(***************************************************************************)

SkillRows ==
    [status : {"kept", "deleted"}, repo : Repository, name : Names, path : Names \X Nat,
     text : Texts \cup {Empty}, enabled : BOOLEAN]

\* The text of a row, and the text a skill of its name has.
HasOwnText(s, text) == s \notin Legacy => text = OwnText(s)

\* What is listed was installed once, and so is what a run loads and tells; a run loads a
\* row as it was, whose text cannot have been another since.
SkillsInv ==
    /\ skills \in [Skill -> {NotInstalled} \cup SkillRows]
    /\ chosen \subseteq Skill /\ \A s \in chosen : skills[s] # NotInstalled
    /\ \A s \in Skill : skills[s] # NotInstalled => HasOwnText(s, skills[s].text)
    /\ \A item \in loading : item.skill \in chosen /\ HasOwnText(item.skill, item.row.text)
    /\ \A item \in told : item.skill \in chosen /\ HasOwnText(item.skill, item.text)
    /\ \A s, t \in Skill : s # t /\ Installed(s) /\ Installed(t) => OwnText(s) # OwnText(t)

-----------------------------------------------------------------------------

\* No text is Empty, and two texts are of one repository and name.
LEMMA TextsDiffer ==
    /\ \A r, n : TextOf(r, n) # Empty
    /\ \A r, n, q, m : TextOf(r, n) = TextOf(q, m) => r = q /\ n = m
BY DEF TextOf, Empty

\* What is found in a repository is a sequence of names.
LEMMA FoundNames ==
    ASSUME NEW r \in Repository, NEW assistant
    PROVE  /\ Found(r, assistant) \in Seq(Names)
           /\ r \in Conventional => Carries[r][1] \in Names
<1>1. Carries[r] \in Seq(STRING) /\ Conventional \subseteq Repository
  BY SkillsAssumption
<1>2. \A i \in DOMAIN Carries[r] : Carries[r][i] \in Names
  BY DEF Names
<1>3. Carries[r] \in Seq(Names)
  <2> DEFINE c == Carries[r]
  <2>1. c \in Seq(STRING) /\ \A i \in 1 .. Len(c) : c[i] \in Names
    BY <1>1, <1>2
  <2> HIDE DEF c
  <2>2. c \in Seq(Names)
    BY <2>1
  <2> QED BY <2>2 DEF c
<1>4. r \in Conventional => Carries[r][1] \in Names
  <2> SUFFICES ASSUME Carries[r] # <<>> PROVE Carries[r][1] \in Names
    BY SkillsAssumption
  <2>1. Len(Carries[r]) > 0
    BY <1>1
  <2> QED BY <1>3, <2>1
<1>5. <<r>> \in Seq(Names)
  <2>1. r \in Names
    BY DEF Names
  <2> QED BY <2>1
<1>6. AtTheRoot(r) \in Seq(Names)
  BY <1>4 DEF AtTheRoot
<1>7. FromTheModel(r, assistant) \in Seq(Names)
  BY <1>5 DEF FromTheModel
<1> QED BY <1>3, <1>4, <1>6, <1>7 DEF Found, InTheTree

\* A step in which rows keep their repository and name, those listed are still rows, and
\* what is installed was.
RowsStay ==
    \A s \in Skill :
        /\ skills[s] # NotInstalled =>
              /\ skills'[s] # NotInstalled
              /\ skills'[s].repo = skills[s].repo /\ skills'[s].name = skills[s].name
        /\ skills'[s] # NotInstalled => skills[s] # NotInstalled
        /\ skills'[s].status = "kept" => skills[s].status = "kept"

\* Such a step keeps texts apart.
LEMMA TextsStay ==
    ASSUME SkillsInv, RowsStay, skills' \in [Skill -> {NotInstalled} \cup SkillRows]
    PROVE  /\ \A s \in Skill : skills[s] # NotInstalled => OwnText(s)' = OwnText(s)
           /\ \A s, t \in Skill :
                 s # t /\ Installed(s)' /\ Installed(t)' => OwnText(s)' # OwnText(t)'
<1>1. \A s \in Skill : skills[s] # NotInstalled => OwnText(s)' = OwnText(s)
  BY DEF RowsStay, OwnText, TextOf
<1>2. \A s \in Skill : Installed(s)' => Installed(s) /\ skills[s] # NotInstalled
  BY DEF RowsStay, Installed, NotInstalled
<1> QED BY <1>1, <1>2 DEF SkillsInv

\* Switching a skill and deleting it change neither its text nor its name.
LEMMA ChangedRow ==
    ASSUME SkillsInv, NEW s \in Skill, Installed(s), Toggle(s) \/ DeleteSkill(s)
    PROVE  SkillsInv'
<1>1. skills[s] \in SkillRows /\ skills[s].status = "kept"
  BY DEF SkillsInv, Installed, NotInstalled
<1>2. PICK row \in SkillRows :
          /\ skills' = [skills EXCEPT ![s] = row]
          /\ row.repo = skills[s].repo /\ row.name = skills[s].name /\ row.text = skills[s].text
  <2>1. CASE Toggle(s)
    <3> DEFINE row == [skills[s] EXCEPT !.enabled = ~ skills[s].enabled]
    <3>1. row \in SkillRows /\ row.repo = skills[s].repo /\ row.name = skills[s].name
          /\ row.text = skills[s].text
      BY <1>1 DEF SkillRows
    <3>2. skills' = [skills EXCEPT ![s] = row]
      BY <2>1 DEF Toggle
    <3> QED BY <3>1, <3>2
  <2>2. CASE DeleteSkill(s)
    <3> DEFINE row == [skills[s] EXCEPT !.status = "deleted"]
    <3>1. row \in SkillRows /\ row.repo = skills[s].repo /\ row.name = skills[s].name
          /\ row.text = skills[s].text
      BY <1>1 DEF SkillRows
    <3>2. skills' = [skills EXCEPT ![s] = row]
      BY <2>2 DEF DeleteSkill
    <3> QED BY <3>1, <3>2
  <2> QED BY <2>1, <2>2
<1>3. UNCHANGED <<chosen, loading, told>>
  BY DEF Toggle, DeleteSkill
<1>4. row # NotInstalled /\ skills[s] # NotInstalled
  BY <1>1 DEF SkillRows, NotInstalled
<1>5. skills' \in [Skill -> {NotInstalled} \cup SkillRows]
  BY <1>2 DEF SkillsInv
<1>6. /\ skills'[s] = row
      /\ \A t \in Skill : t # s => skills'[t] = skills[t]
  BY <1>2 DEF SkillsInv
<1>7. RowsStay
  BY <1>1, <1>2, <1>4, <1>6 DEF RowsStay
<1>8. /\ \A t \in Skill : skills[t] # NotInstalled => OwnText(t)' = OwnText(t)
      /\ \A t, u \in Skill :
            t # u /\ Installed(t)' /\ Installed(u)' => OwnText(t)' # OwnText(u)'
  BY <1>5, <1>7, TextsStay
<1>9. \A t \in Skill : skills'[t] # NotInstalled =>
          skills[t] # NotInstalled /\ skills'[t].text = skills[t].text
  BY <1>2, <1>4, <1>6
<1> QED BY <1>3, <1>5, <1>7, <1>8, <1>9 DEF SkillsInv, HasOwnText, RowsStay

\* Whoever loads a skill gets the text of its row; only an older row can be without one,
\* and is given what was found.
LEMMA Loaded ==
    ASSUME SkillsInv, NEW s \in Skill, skills[s] # NotInstalled, NEW text \in Texts, NEW row,
           HasOwnText(s, row.text), NEW c, EnsureDownloaded(c, s, row, text)
    PROVE  /\ HasOwnText(s, text)
           /\ RowsStay /\ skills' \in [Skill -> {NotInstalled} \cup SkillRows]
           /\ \A t \in Skill : skills[t] # NotInstalled => HasOwnText(t, skills'[t].text)
<1>1. CASE row.text # Empty
  <2>1. text = row.text /\ UNCHANGED skills
    BY <1>1 DEF EnsureDownloaded
  <2> QED BY <2>1 DEF SkillsInv, RowsStay
<1>2. CASE row.text = Empty
  <2>1. s \in Legacy
    BY <1>2, TextsDiffer DEF HasOwnText, OwnText
  <2>2. skills' = Backfilled(s, text)
    BY <1>2 DEF EnsureDownloaded
  <2>3. CASE ~ Installed(s)
    BY <2>1, <2>2, <2>3 DEF Backfilled, SkillsInv, RowsStay, HasOwnText
  <2>4. CASE Installed(s)
    <3> DEFINE new == [skills[s] EXCEPT !.text = text]
    <3>1. skills[s] \in SkillRows /\ skills[s].status = "kept"
      BY <2>4 DEF SkillsInv, Installed
    <3>2. /\ new \in SkillRows /\ new.repo = skills[s].repo /\ new.name = skills[s].name
          /\ new.status = "kept"
      BY <3>1 DEF SkillRows
    <3>3. skills' = [skills EXCEPT ![s] = new]
      BY <2>2, <2>4 DEF Backfilled
    <3> HIDE DEF new
    <3>4. skills' \in [Skill -> {NotInstalled} \cup SkillRows]
      BY <3>2, <3>3 DEF SkillsInv
    <3>5. skills'[s] = new /\ \A t \in Skill : t # s => skills'[t] = skills[t]
      BY <3>3 DEF SkillsInv
    <3>6. new # NotInstalled
      BY <3>2 DEF NotInstalled
    <3>7. RowsStay
      BY <3>1, <3>2, <3>5, <3>6 DEF RowsStay
    <3>8. \A t \in Skill : skills[t] # NotInstalled => HasOwnText(t, skills'[t].text)
      BY <2>1, <3>5 DEF SkillsInv, HasOwnText
    <3> QED BY <2>1, <3>4, <3>7, <3>8 DEF HasOwnText
  <2> QED BY <2>3, <2>4
<1> QED BY <1>1, <1>2

LEMMA LoadKeepsSkillsInv ==
    ASSUME SkillsInv, NEW item \in loading, NEW text \in Texts, LoadSkill(item, text)
    PROVE  SkillsInv'
<1> DEFINE s == item.skill
           new == [skill |-> s, text |-> text]
<1>1. /\ s \in Skill /\ skills[s] # NotInstalled /\ s \in chosen
      /\ HasOwnText(s, item.row.text)
  BY DEF SkillsInv
<1>2. /\ EnsureDownloaded("worker", s, item.row, text)
      /\ loading' \subseteq loading /\ told' = told \cup {new} /\ chosen' = chosen
  BY DEF LoadSkill
<1>3. /\ HasOwnText(s, text)
      /\ RowsStay /\ skills' \in [Skill -> {NotInstalled} \cup SkillRows]
      /\ \A t \in Skill : skills[t] # NotInstalled => HasOwnText(t, skills'[t].text)
  BY <1>1, <1>2, Loaded
<1>4. /\ \A t \in Skill : skills[t] # NotInstalled => OwnText(t)' = OwnText(t)
      /\ \A t, u \in Skill :
            t # u /\ Installed(t)' /\ Installed(u)' => OwnText(t)' # OwnText(u)'
  BY <1>3, TextsStay
<1>5. new.skill = s /\ new.text = text
  OBVIOUS
<1> HIDE DEF new, s
<1>6. \A i \in told' : i.skill \in chosen /\ HasOwnText(i.skill, i.text)
  BY <1>1, <1>2, <1>3, <1>5 DEF SkillsInv
<1>7. \A i \in told' : HasOwnText(i.skill, i.text)'
  BY <1>4, <1>6 DEF SkillsInv, HasOwnText
<1>8. \A i \in loading' : i.skill \in chosen /\ HasOwnText(i.skill, i.row.text)'
  BY <1>2, <1>4 DEF SkillsInv, HasOwnText
<1>9. \A t \in Skill : skills'[t] # NotInstalled => HasOwnText(t, skills[t].text)'
  BY <1>3, <1>4 DEF RowsStay, HasOwnText
<1>10. \A t \in chosen' : skills'[t] # NotInstalled
  BY <1>2, <1>3 DEF SkillsInv, RowsStay
<1> QED BY <1>2, <1>3, <1>4, <1>6, <1>7, <1>8, <1>9, <1>10 DEF SkillsInv

LEMMA AnswerKeepsSkillsInv ==
    ASSUME SkillsInv, NEW s \in Skill, NEW text \in Texts, AnswerWith(s, text)
    PROVE  SkillsInv'
<1>1. skills[s] # NotInstalled /\ HasOwnText(s, skills[s].text)
  BY DEF AnswerWith, SkillsInv, Installed, NotInstalled
<1>2. EnsureDownloaded("api", s, skills[s], text) /\ UNCHANGED <<chosen, loading, told>>
  BY DEF AnswerWith
<1>3. /\ RowsStay /\ skills' \in [Skill -> {NotInstalled} \cup SkillRows]
      /\ \A t \in Skill : skills[t] # NotInstalled => HasOwnText(t, skills'[t].text)
  BY <1>1, <1>2, Loaded
<1>4. /\ \A t \in Skill : skills[t] # NotInstalled => OwnText(t)' = OwnText(t)
      /\ \A t, u \in Skill :
            t # u /\ Installed(t)' /\ Installed(u)' => OwnText(t)' # OwnText(u)'
  BY <1>3, TextsStay
<1>5. /\ \A i \in told' : i.skill \in chosen /\ HasOwnText(i.skill, i.text)'
      /\ \A i \in loading' : i.skill \in chosen /\ HasOwnText(i.skill, i.row.text)'
  BY <1>2, <1>4 DEF SkillsInv, HasOwnText
<1>6. \A t \in Skill : skills'[t] # NotInstalled => HasOwnText(t, skills[t].text)'
  BY <1>3, <1>4 DEF RowsStay, HasOwnText
<1>7. \A t \in chosen' : skills'[t] # NotInstalled
  BY <1>2, <1>3 DEF SkillsInv, RowsStay
<1> QED BY <1>2, <1>3, <1>4, <1>5, <1>6, <1>7 DEF SkillsInv

\* What a run, a container or the researcher does without a row.
LEMMA RowsAloneKeepSkillsInv ==
    ASSUME SkillsInv,
           \/ \E listed \in SUBSET Skill : ListSkills(listed)
           \/ StartRun
           \/ \E item \in loading : SkipSkill(item)
           \/ \E c \in Container : Replace(c)
           \/ UNCHANGED skillVars
    PROVE  SkillsInv'
<1>1. skills' = skills
  BY DEF ListSkills, StartRun, SkipSkill, Replace, skillVars
<1>2. CASE \E listed \in SUBSET Skill : ListSkills(listed)
  <2>1. /\ chosen' \subseteq Skill /\ \A s \in chosen' : skills[s] # NotInstalled
        /\ told' = {} /\ loading' = {}
    BY <1>2 DEF ListSkills, Installed, NotInstalled
  <2> QED BY <1>1, <2>1 DEF SkillsInv, HasOwnText, OwnText, Installed
<1>3. CASE StartRun
  <2>1. told' = {} /\ chosen' = chosen
    BY <1>3 DEF StartRun
  <2>2. \A item \in loading' : item.skill \in chosen /\ item.row = skills[item.skill]
    BY <1>3 DEF StartRun
  <2>3. \A item \in loading' : item.skill \in chosen /\ HasOwnText(item.skill, item.row.text)
    BY <2>2 DEF SkillsInv
  <2> QED BY <1>1, <2>1, <2>3 DEF SkillsInv, HasOwnText, OwnText, Installed
<1>4. CASE loading' \subseteq loading /\ UNCHANGED <<chosen, told>>
  BY <1>1, <1>4 DEF SkillsInv, HasOwnText, OwnText, Installed
<1>5. CASE \/ \E item \in loading : SkipSkill(item)
           \/ \E c \in Container : Replace(c)
           \/ UNCHANGED skillVars
  <2>1. loading' \subseteq loading /\ UNCHANGED <<chosen, told>>
    BY <1>5 DEF SkipSkill, Replace, skillVars
  <2> QED BY <1>4, <2>1
<1> QED BY <1>2, <1>3, <1>5

\* An installation is of all the skills found, under names that neither repeat nor are
\* known, or of none.
LEMMA InstallKeepsSkillsInv ==
    ASSUME SkillsInv, NEW r \in Repository, NEW assistant \in BOOLEAN, Install(r, assistant)
    PROVE  SkillsInv'
<1> DEFINE found == Found(r, assistant)
<1>1. found \in Seq(Names)
  BY FoundNames
<1>2. CASE UNCHANGED skills
  <2>1. UNCHANGED <<chosen, loading, told>>
    BY DEF Install
  <2> QED BY <1>2, <2>1 DEF SkillsInv, HasOwnText, OwnText, Installed
<1>3. CASE skills' # skills
  <2>1. Refused(r, found) = {} /\ UNCHANGED <<chosen, loading, told>>
    BY <1>3 DEF Install
  <2>2. PICK ids \in [1 .. Len(found) -> {s \in Skill : skills[s] = NotInstalled}] :
            /\ \A i, j \in DOMAIN ids : ids[i] = ids[j] => i = j
            /\ skills' = [s \in Skill |->
                    IF \E i \in DOMAIN ids : ids[i] = s
                    THEN LET i == CHOOSE i \in DOMAIN ids : ids[i] = s IN
                         Row(r, found[i], PathOf(found, i), TextOf(r, found[i]))
                    ELSE skills[s]]
    BY <1>3 DEF Install
  <2> HIDE DEF found
  <2> DEFINE New(i) == Row(r, found[i], PathOf(found, i), TextOf(r, found[i]))
  <2>3. \A i \in 1 .. Len(found) : found[i] \in Names
    BY <1>1
  <2>4. \A i \in 1 .. Len(found) : ids[i] \in Skill /\ skills[ids[i]] = NotInstalled
    BY <2>2
  <2>5. \A s \in Skill : \A i \in 1 .. Len(found) : ids[i] = s => skills'[s] = New(i)
    <3> SUFFICES ASSUME NEW s \in Skill, NEW i \in 1 .. Len(found), ids[i] = s
                 PROVE  skills'[s] = New(i)
      OBVIOUS
    <3>1. DOMAIN ids = 1 .. Len(found)
      BY <2>2
    <3>2. (CHOOSE j \in DOMAIN ids : ids[j] = s) = i
      BY <2>2, <3>1
    <3> QED BY <2>2, <3>1, <3>2
  <2>6. \A s \in Skill : (\A i \in 1 .. Len(found) : ids[i] # s) => skills'[s] = skills[s]
    BY <2>2
  <2>7. \A i \in 1 .. Len(found) : Earlier(found, i) = 0 /\ ~ Known(r, found[i])
    <3> TAKE i \in 1 .. Len(found)
    <3>1. ~ Known(r, found[i]) /\ ~ (Earlier(found, i) > 0)
      BY <2>1 DEF Refused
    <3>2. Earlier(found, i) \in Nat
      <4>1. IsFiniteSet(1 .. i - 1)
        BY FS_Interval
      <4>2. IsFiniteSet({j \in 1 .. i - 1 : found[j] = found[i]})
        BY <4>1, FS_Subset
      <4> QED BY <4>2, FS_CardinalityType DEF Earlier
    <3> QED BY <3>1, <3>2
  <2>8. \A i, j \in 1 .. Len(found) : found[i] = found[j] => i = j
    <3>1. ASSUME NEW i \in 1 .. Len(found), NEW j \in 1 .. Len(found), j < i,
                 found[i] = found[j]
          PROVE  FALSE
      <4> DEFINE before == {k \in 1 .. i - 1 : found[k] = found[i]}
      <4>1. IsFiniteSet(before)
        <5>1. IsFiniteSet(1 .. i - 1)
          BY FS_Interval
        <5> QED BY <5>1, FS_Subset
      <4>2. Cardinality(before) = 0
        BY <2>7 DEF Earlier
      <4>3. before = {}
        <5> HIDE DEF before
        <5> QED BY <4>1, <4>2, FS_EmptySet
      <4>4. j \in 1 .. i - 1
        BY <3>1
      <4> QED BY <3>1, <4>3, <4>4
    <3> QED BY <3>1
  <2>9. \A i \in 1 .. Len(found) :
            /\ New(i) \in SkillRows /\ New(i) # NotInstalled
            /\ New(i).text = TextOf(r, found[i])
            /\ New(i).repo = r /\ New(i).name = found[i]
    <3> TAKE i \in 1 .. Len(found)
    <3>1. found[i] \in Names /\ TextOf(r, found[i]) \in Texts
      BY <2>3 DEF Texts
    <3>2. PathOf(found, i) \in Names \X Nat
      BY <2>3, <2>7 DEF PathOf
    <3> QED BY <3>1, <3>2 DEF Row, SkillRows, NotInstalled
  <2> HIDE DEF New
  <2>10. skills' \in [Skill -> {NotInstalled} \cup SkillRows]
    <3>1. ASSUME NEW s \in Skill PROVE skills'[s] \in {NotInstalled} \cup SkillRows
      <4>1. CASE \E i \in 1 .. Len(found) : ids[i] = s
        BY <2>5, <2>9, <4>1
      <4>2. CASE \A i \in 1 .. Len(found) : ids[i] # s
        BY <2>6, <4>2 DEF SkillsInv
      <4> QED BY <4>1, <4>2
    <3>2. DOMAIN skills' = Skill /\ skills' = [s \in Skill |-> skills'[s]]
      BY <2>2
    <3> QED BY <3>1, <3>2
  <2>11. \A s \in Skill : skills[s] # NotInstalled =>
             skills'[s] = skills[s] /\ OwnText(s)' = OwnText(s)
    <3> SUFFICES ASSUME NEW s \in Skill, skills[s] # NotInstalled
                 PROVE  skills'[s] = skills[s] /\ OwnText(s)' = OwnText(s)
      OBVIOUS
    <3>1. skills'[s] = skills[s]
      BY <2>4, <2>6
    <3> QED BY <3>1 DEF OwnText
  <2>12. \A s \in Skill : \A i \in 1 .. Len(found) : ids[i] = s =>
             skills'[s].text = OwnText(s)' /\ OwnText(s)' = TextOf(r, found[i])
    BY <2>5, <2>9 DEF OwnText
  <2>13. \A s \in Skill : skills'[s] # NotInstalled => HasOwnText(s, skills[s].text)'
    <3> SUFFICES ASSUME NEW s \in Skill, skills'[s] # NotInstalled, s \notin Legacy
                 PROVE  skills'[s].text = OwnText(s)'
      BY DEF HasOwnText
    <3>1. CASE \E i \in 1 .. Len(found) : ids[i] = s
      BY <2>12, <3>1
    <3>2. CASE \A i \in 1 .. Len(found) : ids[i] # s
      BY <2>6, <2>11, <3>2 DEF SkillsInv, HasOwnText
    <3> QED BY <3>1, <3>2
  <2>14. \A s \in chosen' : skills'[s] # NotInstalled
    BY <2>1, <2>11 DEF SkillsInv
  <2>15. /\ \A i \in told' : i.skill \in chosen /\ HasOwnText(i.skill, i.text)'
         /\ \A i \in loading' : i.skill \in chosen /\ HasOwnText(i.skill, i.row.text)'
    BY <2>1, <2>11 DEF SkillsInv, HasOwnText
  <2>16. ASSUME NEW s \in Skill, NEW i \in 1 .. Len(found), ids[i] = s,
                NEW t \in Skill, t # s, Installed(t)'
         PROVE  OwnText(s)' # OwnText(t)'
    <3>1. OwnText(s)' = TextOf(r, found[i])
      BY <2>12, <2>16
    <3>2. CASE \E j \in 1 .. Len(found) : ids[j] = t
      <4>1. PICK j \in 1 .. Len(found) : ids[j] = t
        BY <3>2
      <4>2. found[j] # found[i]
        BY <2>8, <2>16, <4>1
      <4> QED BY <2>12, <3>1, <4>1, <4>2, TextsDiffer
    <3>3. CASE \A j \in 1 .. Len(found) : ids[j] # t
      <4>1. skills'[t] = skills[t]
        BY <2>6, <3>3
      <4>2. Installed(t) /\ OwnText(t)' = TextOf(skills[t].repo, skills[t].name)
        BY <2>16, <4>1 DEF Installed, OwnText
      <4>3. ~ (skills[t].repo = r /\ skills[t].name = found[i])
        BY <2>7, <4>2 DEF Known
      <4> QED BY <3>1, <4>2, <4>3, TextsDiffer
    <3> QED BY <3>2, <3>3
  <2>17. \A s, t \in Skill : s # t /\ Installed(s)' /\ Installed(t)' => OwnText(s)' # OwnText(t)'
    <3> SUFFICES ASSUME NEW s \in Skill, NEW t \in Skill, s # t, Installed(s)', Installed(t)',
                        \A i \in 1 .. Len(found) : ids[i] # s,
                        \A i \in 1 .. Len(found) : ids[i] # t
                 PROVE  OwnText(s)' # OwnText(t)'
      BY <2>16
    <3>1. skills'[s] = skills[s] /\ skills'[t] = skills[t]
      BY <2>6
    <3>2. Installed(s) /\ Installed(t) /\ OwnText(s)' = OwnText(s) /\ OwnText(t)' = OwnText(t)
      BY <3>1 DEF Installed, OwnText
    <3> QED BY <3>2 DEF SkillsInv
  <2> QED BY <2>1, <2>10, <2>13, <2>14, <2>15, <2>17 DEF SkillsInv
<1> QED BY <1>2, <1>3

\* Before anything is installed here, only older rows are there, one for a repository.
LEMMA SkillsBegin == SkillsInit => SkillsInv
<1> SUFFICES ASSUME SkillsInit PROVE SkillsInv
  OBVIOUS
<1>1. PICK origin \in [Legacy -> Conventional] :
           /\ \A s, t \in Legacy : origin[s] = origin[t] => s = t
           /\ skills = [s \in Skill |->
                 IF s \in Legacy
                 THEN Row(origin[s], Carries[origin[s]][1], <<Carries[origin[s]][1], 0>>, Empty)
                 ELSE NotInstalled]
  BY DEF SkillsInit
<1>2. Conventional \subseteq Repository /\ Legacy \subseteq Skill
  BY SkillsAssumption
<1>3. \A s \in Legacy : origin[s] \in Repository /\ Carries[origin[s]][1] \in Names
  BY <1>1, <1>2, FoundNames
<1>4. \A s \in Skill \ Legacy : skills[s] = NotInstalled
  BY <1>1
<1>5. \A s \in Legacy : skills[s] \in SkillRows /\ skills[s].repo = origin[s]
  BY <1>1, <1>2, <1>3 DEF Row, SkillRows
<1>6. skills \in [Skill -> {NotInstalled} \cup SkillRows]
  <2>1. DOMAIN skills = Skill /\ skills = [s \in Skill |-> skills[s]]
    BY <1>1
  <2>2. \A s \in Skill : skills[s] \in {NotInstalled} \cup SkillRows
    BY <1>4, <1>5
  <2> QED BY <2>1, <2>2
<1>7. \A s, t \in Skill : s # t /\ Installed(s) /\ Installed(t) => OwnText(s) # OwnText(t)
  <2> SUFFICES ASSUME NEW s \in Skill, NEW t \in Skill, s # t, Installed(s), Installed(t)
               PROVE  OwnText(s) # OwnText(t)
    OBVIOUS
  <2>1. s \in Legacy /\ t \in Legacy
    BY <1>4 DEF Installed, NotInstalled
  <2>2. skills[s].repo # skills[t].repo
    BY <1>1, <1>5, <2>1
  <2> QED BY <2>2, TextsDiffer DEF OwnText
<1>8. chosen = {} /\ loading = {} /\ told = {}
  BY DEF SkillsInit
<1> QED BY <1>4, <1>6, <1>7, <1>8 DEF SkillsInv, HasOwnText

\* The invariant is inductive.
LEMMA SkillsGoOn == SkillsInv /\ [SkillsNext]_skillVars => SkillsInv'
<1> SUFFICES ASSUME SkillsInv, [SkillsNext]_skillVars PROVE SkillsInv'
  OBVIOUS
<1>1. CASE \E r \in Repository, assistant \in BOOLEAN : Install(r, assistant)
  BY <1>1, InstallKeepsSkillsInv
<1>2. CASE \E s \in Skill : Toggle(s) \/ DeleteSkill(s)
  BY <1>2, ChangedRow DEF Toggle, DeleteSkill
<1>3. CASE \E item \in loading : \E text \in Texts : LoadSkill(item, text)
  BY <1>3, LoadKeepsSkillsInv
<1>4. CASE \E s \in Skill, text \in Texts : AnswerWith(s, text)
  BY <1>4, AnswerKeepsSkillsInv
<1>5. CASE \/ \E listed \in SUBSET Skill : ListSkills(listed)
           \/ StartRun
           \/ \E item \in loading : SkipSkill(item)
           \/ \E c \in Container : Replace(c)
           \/ UNCHANGED skillVars
  BY <1>5, RowsAloneKeepSkillsInv
<1> QED BY <1>1, <1>2, <1>3, <1>4, <1>5 DEF SkillsNext

\* packages/skills, for any number of skills, repositories, containers' files and runs,
\* and whatever is installed, deleted or downloaded beside it: a skill whose row was given
\* its text keeps it and instructs with it.
THEOREM SkillsInstructWithTheirText == SkillsSpec => []SkillsKeepTheirText
<1>1. SkillsInv => SkillsKeepTheirText
  <2> SUFFICES ASSUME SkillsInv PROVE SkillsKeepTheirText
    OBVIOUS
  <2>1. SkillsTypeOK
    <3>1. \A s \in Skill : skills[s] # NotInstalled =>
             /\ skills[s].status \in {"kept", "deleted"} /\ skills[s].repo \in Repository
             /\ skills[s].text \in Texts \cup {Empty} /\ skills[s].enabled \in BOOLEAN
      BY DEF SkillsInv, SkillRows
    <3>2. {item.skill : item \in loading} \cup {item.skill : item \in told} \subseteq chosen
      BY DEF SkillsInv
    <3> QED BY <3>1, <3>2 DEF SkillsTypeOK, SkillsInv
  <2> QED BY <2>1 DEF SkillsInv, SkillsKeepTheirText, HasOwnText
<1> QED BY <1>1, SkillsBegin, SkillsGoOn, PTL DEF SkillsSpec
=============================================================================
