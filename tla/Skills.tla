------------------------------- MODULE Skills -------------------------------
(***************************************************************************)
(* Skills: markdown instructions an account installs from GitHub           *)
(* repositories, which its tasks and follow-up questions give to the       *)
(* council (packages/skills, the skills routes of the API,                 *)
(* _skills_context of the worker and _followup_skills_context of the API). *)
(*                                                                         *)
(* A skill's text is in its row, and as a file under the account's         *)
(* directory in each container that used it; the file is named after the   *)
(* skill, so skills of one name share it.  A row older than the column has *)
(* no text until somebody finds it one.                                    *)
(***************************************************************************)
EXTENDS Naturals, Sequences, FiniteSets

CONSTANTS
    Skill,        \* bound: skills ever installed
    Repository,   \* repositories that can be named
    Carries,      \* repository -> the names in its SKILL.md files, shallowest first
    Conventional, \* repositories with a SKILL.md where one is looked for first
    Legacy,       \* skills installed before rows held texts
    MaxListed     \* bound: skills a task lists

ASSUME SkillsAssumption ==
    /\ Carries \in [Repository -> Seq(STRING)]
    /\ Conventional \subseteq {r \in Repository : Carries[r] # <<>>}
    /\ Legacy \subseteq Skill /\ MaxListed \in Nat

Container == {"api", "worker"}

VARIABLES
    skills,  \* skill -> its row, NotInstalled, or its row as it was deleted
    files,   \* container -> cached files: path and text
    chosen,  \* skills a task lists
    loading, \* rows the run that starts has read and not loaded yet
    told     \* what the current run's seats are told: skill and text

skillVars == <<skills, files, chosen, loading, told>>

NotInstalled == [status |-> "none"]
Empty == <<>>
Installed(s) == skills[s].status = "kept"

\* The text of a repository's skill.
TextOf(r, name) == <<r, name>>

Row(r, name, path, text) ==
    [status |-> "kept", repo |-> r, name |-> name, path |-> path, text |-> text, enabled |-> TRUE]

-----------------------------------------------------------------------------
(* Finding the skills of a repository *)

\* _candidate_paths are tried in order; the first that is there is all that is installed.
AtTheRoot(r) == IF r \in Conventional THEN <<Carries[r][1]>> ELSE <<>>

\* Every SKILL.md of the tree, which the tarball lists when the API will not.
InTheTree(r) == Carries[r]

\* The model is shown the markdown near the root and picks a file, or writes a summary:
\* one skill, under the repository's name.
FromTheModel(r, assistant) == IF assistant THEN <<r>> ELSE <<>>

\* fetch_skills_from_repo; what does not answer, or is too large, is refused.
Found(r, assistant) ==
    IF AtTheRoot(r) # <<>> THEN AtTheRoot(r)
    ELSE IF InTheTree(r) # <<>> THEN InTheTree(r) ELSE FromTheModel(r, assistant)

\* Names that repeat in one installation are told apart by a suffix.
Earlier(found, i) == Cardinality({j \in 1 .. i - 1 : found[j] = found[i]})
PathOf(found, i) == <<found[i], Earlier(found, i)>>

\* A file in a container: the last text written there.
Written(container, path, text) ==
    [files EXCEPT ![container] = {f \in @ : f.path # path} \cup {[path |-> path, text |-> text]}]

Cached(container, path) == {f.text : f \in {g \in files[container] : g.path = path}}

-----------------------------------------------------------------------------
(* Installing, switching and deleting *)

\* An account's row of that repository and name.
Known(r, name) == \E s \in Skill : Installed(s) /\ skills[s].repo = r /\ skills[s].name = name

\* The repeated names, and the names the account has, which the table refuses.
Refused(r, found) ==
    {i \in 1 .. Len(found) : Known(r, found[i]) \/ Earlier(found, i) > 0}

\* The files that were written when the first refusal ended the transaction: its own, and
\* the next one's, whose insert finds the transaction ended.
LastFile(r, found) ==
    IF Refused(r, found) = {} THEN Len(found)
    ELSE LET first == CHOOSE i \in Refused(r, found) : \A j \in Refused(r, found) : i <= j IN
         IF first = Len(found) THEN first ELSE first + 1

FilesAfter(r, found) ==
    LET last == LastFile(r, found)
        new == {[path |-> PathOf(found, i), text |-> TextOf(r, found[i])] : i \in 1 .. last}
        paths == {f.path : f \in new}
    IN  [files EXCEPT !["api"] = {f \in @ : f.path \notin paths} \cup new]

\* add_from_url: one row per skill found, or none at all.
Install(r, assistant) ==
    LET found == Found(r, assistant) IN
    /\ found # <<>>
    /\ files' = FilesAfter(r, found)
    /\ \/ /\ Refused(r, found) # {}
          /\ UNCHANGED skills
       \/ /\ Refused(r, found) = {}
          /\ \E ids \in [1 .. Len(found) -> {s \in Skill : skills[s] = NotInstalled}] :
                 /\ \A i, j \in DOMAIN ids : ids[i] = ids[j] => i = j
                 /\ skills' = [s \in Skill |->
                        IF \E i \in DOMAIN ids : ids[i] = s
                        THEN LET i == CHOOSE i \in DOMAIN ids : ids[i] = s IN
                             Row(r, found[i], PathOf(found, i), TextOf(r, found[i]))
                        ELSE skills[s]]
    /\ UNCHANGED <<chosen, loading, told>>

Toggle(s) ==
    /\ Installed(s)
    /\ skills' = [skills EXCEPT ![s].enabled = ~@]
    /\ UNCHANGED <<files, chosen, loading, told>>

\* A task keeps the ids of skills that are deleted.
DeleteSkill(s) ==
    /\ Installed(s)
    /\ skills' = [skills EXCEPT ![s].status = "deleted"]
    /\ UNCHANGED <<files, chosen, loading, told>>

-----------------------------------------------------------------------------
(* Loading *)

\* set_content; a row that is gone stays as it is.
Backfilled(s, text) == IF Installed(s) THEN [skills EXCEPT ![s].text = text] ELSE skills

\* A download's skill of the row's name, or the first one.
Downloaded(row) ==
    LET found == Found(row.repo, FALSE) IN
    IF found = <<>> THEN {}
    ELSE {TextOf(row.repo, IF \E i \in DOMAIN found : found[i] = row.name THEN row.name ELSE found[1])}

\* A mistake: the file before the row.
FileFirst(container, s, row, text) ==
    \/ /\ text \in Cached(container, row.path)
       /\ skills' = Backfilled(s, text) /\ UNCHANGED files
    \/ /\ Cached(container, row.path) = {}
       /\ text = row.text /\ text # Empty
       /\ files' = Written(container, row.path, text) /\ UNCHANGED skills
    \/ /\ Cached(container, row.path) = {} /\ row.text = Empty
       /\ text \in Downloaded(row)
       /\ files' = Written(container, row.path, text) /\ skills' = Backfilled(s, text)

\* ensure_downloaded: the row's text, else the container's file, else GitHub.
EnsureDownloaded(container, s, row, text) ==
    \/ /\ row.text # Empty /\ text = row.text
       /\ files' = Written(container, row.path, text) /\ UNCHANGED skills
    \/ /\ row.text = Empty
       /\ text \in Cached(container, row.path)
       /\ skills' = Backfilled(s, text) /\ UNCHANGED files
    \/ /\ row.text = Empty /\ Cached(container, row.path) = {}
       /\ text \in Downloaded(row)
       /\ files' = Written(container, row.path, text) /\ skills' = Backfilled(s, text)

Names == Repository \cup UNION {{Carries[r][i] : i \in DOMAIN Carries[r]} : r \in Repository}
Texts == {TextOf(r, name) : r \in Repository, name \in Names}

\* create_task: skills the account has.
ListSkills(listed) ==
    /\ listed \subseteq {s \in Skill : Installed(s)} /\ Cardinality(listed) <= MaxListed
    /\ chosen' = listed /\ told' = {} /\ loading' = {}
    /\ UNCHANGED <<skills, files>>

\* _skills_context reads the rows that are listed and enabled, once.
StartRun ==
    /\ told' = {}
    /\ loading' = {[skill |-> s, row |-> skills[s]] : s \in {c \in chosen : Installed(c) /\ skills[c].enabled}}
    /\ UNCHANGED <<skills, files, chosen>>

LoadSkill(item, text) ==
    /\ item \in loading
    /\ EnsureDownloaded("worker", item.skill, item.row, text)
    /\ loading' = loading \ {item}
    /\ told' = told \cup {[skill |-> item.skill, text |-> text]}
    /\ UNCHANGED chosen

\* GitHub does not answer: the run goes without a skill that nobody has the text of.
SkipSkill(item) ==
    /\ item \in loading
    /\ item.row.text = Empty /\ Cached("worker", item.row.path) = {}
    /\ loading' = loading \ {item}
    /\ UNCHANGED <<skills, files, chosen, told>>

\* _followup_skills_context: in the API's container, on or off.
AnswerWith(s, text) ==
    /\ Installed(s)
    /\ EnsureDownloaded("api", s, skills[s], text)
    /\ UNCHANGED <<chosen, loading, told>>

\* A container that is replaced starts without files.
Replace(container) ==
    /\ files[container] # {}
    /\ files' = [files EXCEPT ![container] = {}]
    /\ loading' = IF container = "worker" THEN {} ELSE loading
    /\ UNCHANGED <<skills, chosen, told>>

\* The older rows are of repositories with one skill.
SkillsInit ==
    /\ \E origin \in [Legacy -> Conventional] :
           /\ \A s, t \in Legacy : origin[s] = origin[t] => s = t
           /\ skills = [s \in Skill |->
                 IF s \in Legacy THEN LET name == Carries[origin[s]][1] IN Row(origin[s], name, <<name, 0>>, Empty)
                 ELSE NotInstalled]
    /\ files = [c \in Container |-> {}]
    /\ chosen = {} /\ loading = {} /\ told = {}

SkillsNext ==
    \/ \E r \in Repository, assistant \in BOOLEAN : Install(r, assistant)
    \/ \E s \in Skill : Toggle(s) \/ DeleteSkill(s)
    \/ \E listed \in SUBSET Skill : ListSkills(listed)
    \/ StartRun
    \/ \E item \in loading : SkipSkill(item) \/ \E text \in Texts : LoadSkill(item, text)
    \/ \E s \in Skill, text \in Texts : AnswerWith(s, text)
    \/ \E c \in Container : Replace(c)

SkillsSpec == SkillsInit /\ [][SkillsNext]_skillVars

-----------------------------------------------------------------------------
(* Properties *)

\* Every variable holds a value of its type.
SkillsTypeOK ==
    /\ \A s \in Skill : skills[s] # NotInstalled =>
           /\ skills[s].status \in {"kept", "deleted"} /\ skills[s].repo \in Repository
           /\ skills[s].text \in Texts \cup {Empty} /\ skills[s].enabled \in BOOLEAN
    /\ chosen \subseteq Skill
    /\ {item.skill : item \in loading} \cup {item.skill : item \in told} \subseteq chosen

OwnText(s) == TextOf(skills[s].repo, skills[s].name)

\* Whatever was installed, refused, deleted or downloaded beside it, a skill whose row was
\* given its text keeps it and instructs with it, although skills of one name share a
\* file (skills/service.py:7: "The row's content is the source of truth").
SkillsKeepTheirText ==
    /\ SkillsTypeOK
    /\ \A s \in Skill \ Legacy : skills[s] # NotInstalled => skills[s].text = OwnText(s)
    /\ \A item \in told : item.skill \notin Legacy => item.text = OwnText(item.skill)
    /\ \A s, t \in Skill : s # t /\ Installed(s) /\ Installed(t) => OwnText(s) # OwnText(t)
=============================================================================
