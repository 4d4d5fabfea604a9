------------------------------ MODULE DeskProofs ------------------------------
(***************************************************************************)
(* What the API's handlers keep straight, proved for any number of         *)
(* requests, addresses, codes, tasks and files: that a mailed code buys    *)
(* one thing at most (Accounts), that free trials are counted, and that a  *)
(* deleted task leaves no row behind (TaskDesk), and that what the page    *)
(* shows as an answer to a follow-up question is all of it (FollowUp).     *)
(***************************************************************************)
EXTENDS Accounts, TaskDesk, FollowUp, SequenceLemmas, FiniteSetTheorems, SequenceTheorems,
        TLAPS

(***************************************************************************)
(* PART 1.  Accounts: the type invariant, and that a code is guessed at no *)
(* more often than it may be and consumed once.                            *)
(***************************************************************************)

\* A request that holds its row.
Holding == {"stored", "accepted"}

ReqType == [op : {"none", "ask register", "ask reset", "register", "reset", "login", "password", "rename"},
             at : {"done", "checked", "stored", "accepted"}, name : Name \cup {""},
             email : Email \cup {""}, guess : Nat, draft : CodeRow]

Types ==
    /\ users \subseteq [name : Name, email : Email, password : 1 .. MaxChanges]
    /\ sessions \subseteq [email : Email, password : 1 .. MaxChanges]
    /\ codes \in [Slot -> CodeRow]
    /\ desk \in [Handler -> ReqType]
    /\ holder \in [Slot -> SUBSET Handler]
    /\ fresh \in 0 .. MaxCodes /\ version \in 0 .. MaxChanges
    /\ guesses \in [1 .. MaxCodes -> 0 .. GuessLimit]
    /\ redeemed \in [1 .. MaxCodes -> {0, 1}]

\* What a request carries follows from what it is for.
RequestOK(d) ==
    /\ d.op # "none" => d.email \in Email /\ d.name \in Name
    /\ d.op \in {"login", "password", "rename"} => d.guess \in 1 .. MaxChanges
    /\ d.at # "done" => d.op # "none"
    /\ d.at = "stored" => d.op \in {"ask register", "ask reset"}
    /\ d.at = "accepted" => d.op \in Purpose

DeskInv == \A h \in Handler : RequestOK(desk[h])

\* A row has one holder at most, and who is to write it holds it.
HolderInv ==
    /\ \A s \in Slot : \A g, h \in holder[s] : g = h
    /\ \A h \in Handler : desk[h].at \in Holding => holder[SlotOf(h)] = {h}

\* A code is in one row, and the row knows how often it was guessed at and whether it
\* has bought anything.
CodesInv ==
    /\ \A s \in Slot : codes[s].code = NoCode => codes[s].sent = 0
    /\ \A s \in Slot : codes[s].code # NoCode =>
        /\ codes[s].code <= fresh
        /\ guesses[codes[s].code] = codes[s].guessed
        /\ ~codes[s].used => redeemed[codes[s].code] = 0
    /\ \A r, s \in Slot : r # s /\ codes[r].code = codes[s].code => codes[r].code = NoCode

\* A code that is being mailed is nobody's yet and has no history.
StoredInv ==
    /\ \A h \in Handler : desk[h].at = "stored" =>
        /\ desk[h].draft.code \in 1 .. fresh
        /\ guesses[desk[h].draft.code] = 0 /\ redeemed[desk[h].draft.code] = 0
        /\ desk[h].draft.guessed = 0
        /\ \A s \in Slot : codes[s].code # desk[h].draft.code
    /\ \A g, h \in Handler :
        g # h /\ desk[g].at = "stored" /\ desk[h].at = "stored" =>
            desk[g].draft.code # desk[h].draft.code

\* A code that is being redeemed is the row's, and was open when it was accepted.
AcceptedInv ==
    \A h \in Handler : desk[h].at = "accepted" =>
        /\ codes[SlotOf(h)].code # NoCode /\ ~codes[SlotOf(h)].used
        /\ desk[h].draft = [codes[SlotOf(h)] EXCEPT !.used = TRUE]

NothingBeforeItsTime ==
    \A k \in 1 .. MaxCodes : k > fresh => guesses[k] = 0 /\ redeemed[k] = 0

AccountsInv ==
    /\ Types /\ DeskInv /\ HolderInv /\ CodesInv
    /\ StoredInv /\ AcceptedInv /\ NothingBeforeItsTime

-----------------------------------------------------------------------------
(* Rows and requests *)

LEMMA Numbers ==
    /\ GuessLimit \in Nat /\ DailyLimit \in Nat /\ MaxCodes \in Nat /\ MaxChanges \in Nat
    /\ 0 < GuessLimit /\ 0 < DailyLimit /\ 0 < MaxCodes /\ 0 < MaxChanges
<1> QED BY AccountsAssumption

LEMMA Counters ==
    ASSUME Types
    PROVE  fresh \in Nat /\ fresh <= MaxCodes /\ version \in Nat /\ version <= MaxChanges
<1> QED BY Numbers DEF Types

LEMMA CodeRowFields ==
    ASSUME NEW r \in CodeRow
    PROVE  /\ r.code \in 0 .. MaxCodes /\ r.code \in Nat
           /\ r.guessed \in 0 .. GuessLimit /\ r.guessed \in Nat
           /\ r.used \in BOOLEAN
           /\ r.sent \in 0 .. DailyLimit /\ r.sent \in Nat
<1> QED BY AccountsAssumption DEF CodeRow

\* A row that has bought something, was guessed at wrongly, or waits for its time.
LEMMA ChangedRows ==
    ASSUME NEW r \in CodeRow
    PROVE  /\ [r EXCEPT !.used = TRUE] \in CodeRow
           /\ r.guessed < GuessLimit => [r EXCEPT !.guessed = @ + 1] \in CodeRow
           /\ [r EXCEPT !.recent = FALSE] \in CodeRow
           /\ [r EXCEPT !.live = FALSE] \in CodeRow
           /\ [r EXCEPT !.sent = 0] \in CodeRow
<1>1. r.guessed < GuessLimit => r.guessed + 1 \in 0 .. GuessLimit
  BY CodeRowFields, AccountsAssumption
<1>2. 0 \in 0 .. DailyLimit
  BY AccountsAssumption
<1> QED BY <1>1, <1>2 DEF CodeRow

LEMMA NewRows ==
    ASSUME NEW r \in CodeRow, MaySend(r), r.code = NoCode => r.sent = 0,
           fresh \in Nat, fresh < MaxCodes
    PROVE  NewRow(r) \in CodeRow
<1>1. r.sent + 1 \in 0 .. DailyLimit
  BY CodeRowFields, AccountsAssumption DEF MaySend
<1>2. fresh + 1 \in 0 .. MaxCodes /\ 0 \in 0 .. GuessLimit
  BY AccountsAssumption
<1> QED BY <1>1, <1>2 DEF NewRow, CodeRow

LEMMA FreeIsARequest == Free \in ReqType /\ RequestOK(Free) /\ Free.at = "done" /\ Free.op = "none"
<1>1. NoRow \in CodeRow
  BY Numbers DEF NoRow, NoCode, CodeRow
<1> QED BY <1>1 DEF Free, ReqType, RequestOK, NoCode

\* A request in progress is about a row.
LEMMA SlotOfRequest ==
    ASSUME Types, DeskInv, NEW h \in Handler, desk[h].at # "done"
    PROVE  SlotOf(h) \in Slot
<1>1. desk[h].email \in Email
  BY DEF DeskInv, RequestOK
<1> QED BY <1>1 DEF SlotOf, Slot, Purpose

\* Nothing has happened at first.
LEMMA AccountsOpen == AccInit => AccountsInv
<1> SUFFICES ASSUME AccInit PROVE AccountsInv
  OBVIOUS
<1> USE DEF AccInit
<1>1. NoRow \in CodeRow /\ NoRow.code = NoCode /\ NoRow.sent = 0
  BY Numbers DEF NoRow, NoCode, CodeRow
<1>2. Types
  BY <1>1, FreeIsARequest, AccountsAssumption DEF Types
<1>3. DeskInv /\ HolderInv
  BY FreeIsARequest DEF DeskInv, HolderInv, Holding
<1>4. CodesInv /\ NothingBeforeItsTime
  BY <1>1 DEF CodesInv, NothingBeforeItsTime
<1>5. StoredInv /\ AcceptedInv
  BY FreeIsARequest DEF StoredInv, AcceptedInv
<1> QED BY <1>2, <1>3, <1>4, <1>5 DEF AccountsInv

-----------------------------------------------------------------------------
(* One request *)

\* A request is put in place of another.
LEMMA RequestPut ==
    ASSUME Types, DeskInv, NEW h \in Handler, NEW r \in ReqType, RequestOK(r),
           desk' = [desk EXCEPT ![h] = r]
    PROVE  /\ desk' \in [Handler -> ReqType]
           /\ DeskInv'
           /\ desk'[h] = r
           /\ \A g \in Handler \ {h} : desk'[g] = desk[g] /\ SlotOf(g)' = SlotOf(g)
<1>1. /\ desk' \in [Handler -> ReqType] /\ desk'[h] = r
      /\ \A g \in Handler \ {h} : desk'[g] = desk[g]
  BY DEF Types
<1>2. DeskInv'
  BY <1>1 DEF DeskInv, RequestOK
<1>3. \A g \in Handler \ {h} : SlotOf(g)' = SlotOf(g)
  BY <1>1 DEF SlotOf
<1> QED BY <1>1, <1>2, <1>3

\* What the end of a request leaves to the others.
LEMMA DoneStep ==
    ASSUME AccountsInv, NEW h \in Handler, Done(h)
    PROVE  /\ desk' \in [Handler -> ReqType] /\ DeskInv'
           /\ holder' \in [Slot -> SUBSET Handler] /\ HolderInv'
           /\ desk'[h].at = "done"
           /\ \A g \in Handler \ {h} : desk'[g] = desk[g] /\ SlotOf(g)' = SlotOf(g)
<1>1. /\ desk' \in [Handler -> ReqType] /\ DeskInv' /\ desk'[h] = Free
      /\ \A g \in Handler \ {h} : desk'[g] = desk[g] /\ SlotOf(g)' = SlotOf(g)
  BY RequestPut, FreeIsARequest DEF Done, AccountsInv
<1>2. /\ holder' \in [Slot -> SUBSET Handler]
      /\ \A s \in Slot : holder'[s] = holder[s] \ {h}
  BY DEF Done, AccountsInv, Types
<1>3. \A g \in Handler : desk'[g].at \in Holding => holder'[SlotOf(g)'] = {g}
  <2> SUFFICES ASSUME NEW g \in Handler, desk'[g].at \in Holding
               PROVE  holder'[SlotOf(g)'] = {g}
    OBVIOUS
  <2>1. g # h /\ desk[g].at \in Holding /\ SlotOf(g)' = SlotOf(g)
    BY <1>1, FreeIsARequest DEF Holding
  <2>2. SlotOf(g) \in Slot /\ holder[SlotOf(g)] = {g}
    BY <2>1, SlotOfRequest DEF AccountsInv, HolderInv, Holding
  <2> QED BY <1>2, <2>1, <2>2
<1>4. HolderInv'
  BY <1>2, <1>3 DEF AccountsInv, HolderInv
<1> QED BY <1>1, <1>2, <1>4, FreeIsARequest

\* New codes are nobody's.
LEMMA TableKept ==
    ASSUME AccountsInv, UNCHANGED <<codes, guesses, redeemed>>, fresh' \in Nat, fresh <= fresh'
    PROVE  CodesInv' /\ NothingBeforeItsTime'
<1>1. fresh \in Nat
  BY Counters DEF AccountsInv
<1>2. CodesInv'
  <2>1. \A s \in Slot : codes[s].code \in Nat
    BY CodeRowFields DEF AccountsInv, Types
  <2> QED BY <1>1, <2>1 DEF AccountsInv, CodesInv
<1>3. NothingBeforeItsTime'
  BY <1>1, Numbers DEF AccountsInv, NothingBeforeItsTime
<1> QED BY <1>2, <1>3

\* What the code table and the history say of the requests that go on.
LEMMA HistoryKept ==
    ASSUME AccountsInv, UNCHANGED <<codes, guesses, redeemed>>,
           fresh' \in Nat, fresh <= fresh',
           \A g \in Handler : desk'[g].at \in Holding =>
                desk'[g] = desk[g] /\ SlotOf(g)' = SlotOf(g)
    PROVE  CodesInv' /\ StoredInv' /\ AcceptedInv' /\ NothingBeforeItsTime'
<1>1. fresh \in Nat
  BY Counters DEF AccountsInv
<1>2. StoredInv'
  BY <1>1 DEF AccountsInv, StoredInv, Holding
<1>3. AcceptedInv'
  BY DEF AccountsInv, AcceptedInv, Holding
<1> QED BY <1>2, <1>3, TableKept

\* A request that begins reads and holds nothing.
LEMMA Begins ==
    ASSUME AccountsInv, NEW h \in Handler, NEW r \in ReqType, RequestOK(r), r.at = "checked",
           desk[h].at \notin Holding,
           desk' = [desk EXCEPT ![h] = r],
           UNCHANGED <<users, codes, sessions, holder, fresh, version, guesses, redeemed>>
    PROVE  AccountsInv'
<1>1. /\ desk' \in [Handler -> ReqType] /\ DeskInv' /\ desk'[h] = r
      /\ \A g \in Handler \ {h} : desk'[g] = desk[g] /\ SlotOf(g)' = SlotOf(g)
  BY RequestPut DEF AccountsInv
<1>2. Types'
  BY <1>1 DEF AccountsInv, Types
<1>3. HolderInv'
  BY <1>1 DEF AccountsInv, HolderInv, Holding
<1>4. CodesInv' /\ StoredInv' /\ AcceptedInv' /\ NothingBeforeItsTime'
  BY <1>1, HistoryKept, Counters DEF AccountsInv, Holding
<1> QED BY <1>1, <1>2, <1>3, <1>4 DEF AccountsInv

LEMMA NobodyHolds ==
    ASSUME AccountsInv, NEW h \in Handler, desk[h].op = "none"
    PROVE  desk[h].at \notin Holding
<1> QED BY DEF AccountsInv, DeskInv, RequestOK, Holding

LEMMA AskForCodeStep ==
    ASSUME AccountsInv, NEW h \in Handler, NEW op \in {"ask register", "ask reset"},
           NEW n \in Name, NEW e \in Email, AskForCode(h, op, n, e)
    PROVE  AccountsInv'
<1> DEFINE r == [Free EXCEPT !.op = op, !.at = "checked", !.name = n, !.email = e]
<1>1. r = [Free EXCEPT !.op = op, !.at = "checked", !.name = n, !.email = e]
  OBVIOUS
<1>2. /\ desk[h].op = "none" /\ desk' = [desk EXCEPT ![h] = r]
      /\ UNCHANGED <<users, codes, sessions, holder, fresh, version, guesses, redeemed>>
  BY DEF AskForCode
<1> HIDE DEF r
<1>3. r \in ReqType /\ RequestOK(r) /\ r.at = "checked"
  <2>1. r \in ReqType
    BY <1>1, FreeIsARequest DEF ReqType
  <2>2. r.op = op /\ r.at = "checked" /\ r.name = n /\ r.email = e
    BY <1>1, FreeIsARequest DEF ReqType
  <2> QED BY <2>1, <2>2 DEF RequestOK
<1> QED BY <1>2, <1>3, NobodyHolds, Begins

LEMMA AskToConfirmStep ==
    ASSUME AccountsInv, NEW h \in Handler, NEW op \in Purpose,
           NEW n \in Name, NEW e \in Email, NEW k \in Nat, AskToConfirm(h, op, n, e, k)
    PROVE  AccountsInv'
<1> DEFINE r == [Free EXCEPT !.op = op, !.at = "checked", !.name = n, !.email = e, !.guess = k]
<1>1. r = [Free EXCEPT !.op = op, !.at = "checked", !.name = n, !.email = e, !.guess = k]
  OBVIOUS
<1>2. /\ desk[h].op = "none" /\ desk' = [desk EXCEPT ![h] = r]
      /\ UNCHANGED <<users, codes, sessions, holder, fresh, version, guesses, redeemed>>
  BY DEF AskToConfirm
<1> HIDE DEF r
<1>3. r \in ReqType /\ RequestOK(r) /\ r.at = "checked"
  <2>1. r \in ReqType
    BY <1>1, FreeIsARequest DEF ReqType, Purpose
  <2>2. r.op = op /\ r.at = "checked" /\ r.name = n /\ r.email = e
    BY <1>1, FreeIsARequest DEF ReqType
  <2> QED BY <2>1, <2>2 DEF RequestOK, Purpose
<1> QED BY <1>2, <1>3, NobodyHolds, Begins

LEMMA CheckPasswordStep ==
    ASSUME AccountsInv, NEW h \in Handler, NEW op \in {"login", "password", "rename"},
           NEW u \in users, CheckPassword(h, op, u)
    PROVE  AccountsInv'
<1> DEFINE r == [Free EXCEPT !.op = op, !.at = "checked", !.name = u.name,
                             !.email = u.email, !.guess = u.password]
<1> DEFINE n == u.name
           e == u.email
           k == u.password
<1>1. r = [Free EXCEPT !.op = op, !.at = "checked", !.name = n, !.email = e, !.guess = k]
  OBVIOUS
<1>2. /\ desk[h].op = "none" /\ desk' = [desk EXCEPT ![h] = r]
      /\ UNCHANGED <<users, codes, sessions, holder, fresh, version, guesses, redeemed>>
  BY DEF CheckPassword
<1>3. users \subseteq [name : Name, email : Email, password : 1 .. MaxChanges]
  BY DEF AccountsInv, Types
<1>4. u.name \in Name /\ u.email \in Email /\ u.password \in 1 .. MaxChanges
  BY <1>3
<1>5. u.password \in Nat
  BY <1>4, Numbers
<1> HIDE DEF r
<1>6. r \in ReqType /\ RequestOK(r) /\ r.at = "checked"
  <2>1. n \in Name /\ e \in Email /\ k \in Nat /\ k \in 1 .. MaxChanges
    BY <1>4, <1>5
  <2> HIDE DEF n, e, k
  <2>2. r \in ReqType
    BY <1>1, <2>1, FreeIsARequest DEF ReqType
  <2>3. r.op = op /\ r.at = "checked" /\ r.name = n /\ r.email = e /\ r.guess = k
    BY <1>1, FreeIsARequest DEF ReqType
  <2> QED BY <2>1, <2>2, <2>3 DEF RequestOK
<1> QED BY <1>2, <1>6, NobodyHolds, Begins

\* The tables of accounts and tokens stay typed whatever request ends, and nothing
\* else depends on them.
LEMMA EndsWithoutCode ==
    ASSUME AccountsInv, NEW h \in Handler, Done(h),
           users' \subseteq [name : Name, email : Email, password : 1 .. MaxChanges],
           sessions' \subseteq [email : Email, password : 1 .. MaxChanges],
           version' \in 0 .. MaxChanges,
           fresh' \in 0 .. MaxCodes, fresh' \in Nat, fresh <= fresh',
           UNCHANGED <<codes, guesses, redeemed>>
    PROVE  AccountsInv'
<1>1. /\ desk' \in [Handler -> ReqType] /\ DeskInv'
      /\ holder' \in [Slot -> SUBSET Handler] /\ HolderInv'
      /\ desk'[h].at = "done"
      /\ \A g \in Handler \ {h} : desk'[g] = desk[g] /\ SlotOf(g)' = SlotOf(g)
  BY DoneStep
<1>2. CodesInv' /\ StoredInv' /\ AcceptedInv' /\ NothingBeforeItsTime'
  BY <1>1, HistoryKept DEF Holding
<1>3. Types'
  BY <1>1 DEF AccountsInv, Types
<1> QED BY <1>1, <1>2, <1>3 DEF AccountsInv

LEMMA RenamedUsers ==
    ASSUME AccountsInv, NEW e, NEW n \in Name, NEW p \in 1 .. MaxChanges
    PROVE  /\ WithPassword(e, p) \subseteq [name : Name, email : Email, password : 1 .. MaxChanges]
           /\ {IF u.email = e THEN [u EXCEPT !.name = n] ELSE u : u \in users}
                 \subseteq [name : Name, email : Email, password : 1 .. MaxChanges]
<1> DEFINE U == [name : Name, email : Email, password : 1 .. MaxChanges]
<1>1. \A u \in U : [u EXCEPT !.password = p] \in U /\ [u EXCEPT !.name = n] \in U
  OBVIOUS
<1>2. users \subseteq U
  BY DEF AccountsInv, Types
<1> HIDE DEF U
<1>3. WithPassword(e, p) \subseteq U /\ {IF u.email = e THEN [u EXCEPT !.name = n] ELSE u : u \in users} \subseteq U
  BY <1>1, <1>2 DEF WithPassword
<1> QED BY <1>3 DEF U

\* Requests with a password.
LEMMA PasswordSteps ==
    ASSUME AccountsInv, NEW h \in Handler,
           Login(h) \/ ChangePassword(h) \/ (\E n \in Name : ChangeUsername(h, n)) \/ AbortRequest(h)
    PROVE  AccountsInv'
<1>1. /\ users \subseteq [name : Name, email : Email, password : 1 .. MaxChanges]
      /\ sessions \subseteq [email : Email, password : 1 .. MaxChanges]
      /\ version \in 0 .. MaxChanges /\ version \in Nat
      /\ fresh \in 0 .. MaxCodes /\ fresh \in Nat /\ fresh <= fresh
  BY Counters DEF AccountsInv, Types
<1>2. CASE AbortRequest(h)
  BY <1>1, <1>2, EndsWithoutCode DEF AbortRequest, Undo
<1>3. CASE Login(h)
  <2>1. desk[h].email \in Email /\ desk[h].guess \in 1 .. MaxChanges
    BY <1>3 DEF Login, AccountsInv, DeskInv, RequestOK
  <2>2. sessions' \subseteq [email : Email, password : 1 .. MaxChanges]
    BY <1>1, <1>3, <2>1 DEF Login
  <2> QED BY <1>1, <1>3, <2>2, EndsWithoutCode DEF Login
<1>4. CASE ChangePassword(h)
  <2> DEFINE e == desk[h].email
  <2>1. version + 1 \in 1 .. MaxChanges /\ version' \in 0 .. MaxChanges
    BY <1>1, <1>4, AccountsAssumption DEF ChangePassword
  <2>2. users' = WithPassword(e, version + 1)
    BY <1>4 DEF ChangePassword
  <2>3. sessions' \subseteq sessions
    BY <1>4 DEF ChangePassword
  <2> HIDE DEF e
  <2>4. PICK n \in Name : TRUE
    BY <1>4 DEF ChangePassword, AccountsInv, DeskInv, RequestOK
  <2>5. users' \subseteq [name : Name, email : Email, password : 1 .. MaxChanges]
    BY <2>1, <2>2, <2>4, RenamedUsers
  <2>6. sessions' \subseteq [email : Email, password : 1 .. MaxChanges]
    BY <1>1, <2>3
  <2> QED BY <1>1, <1>4, <2>1, <2>5, <2>6, EndsWithoutCode DEF ChangePassword
<1>5. ASSUME NEW n \in Name, ChangeUsername(h, n) PROVE AccountsInv'
  <2>1. 1 \in 1 .. MaxChanges
    BY AccountsAssumption
  <2>2. users' \subseteq [name : Name, email : Email, password : 1 .. MaxChanges]
    BY <1>5, <2>1, RenamedUsers DEF ChangeUsername
  <2> QED BY <1>1, <1>5, <2>2, EndsWithoutCode DEF ChangeUsername
<1> QED BY <1>2, <1>3, <1>4, <1>5

-----------------------------------------------------------------------------
(* The code of a row *)

\* Who takes hold of a free row is its only holder.
LEMMA TakesHold ==
    ASSUME AccountsInv, NEW h \in Handler, NEW r \in ReqType, RequestOK(r), r.at \in Holding,
           desk[h].at = "checked", r.email = desk[h].email, r.op = desk[h].op,
           desk' = [desk EXCEPT ![h] = r],
           holder[SlotOf(h)] = {}, holder' = [holder EXCEPT ![SlotOf(h)] = {h}]
    PROVE  /\ desk' \in [Handler -> ReqType] /\ DeskInv'
           /\ holder' \in [Slot -> SUBSET Handler] /\ HolderInv'
           /\ desk'[h] = r /\ SlotOf(h)' = SlotOf(h)
           /\ \A g \in Handler \ {h} : desk'[g] = desk[g] /\ SlotOf(g)' = SlotOf(g)
<1>1. /\ desk' \in [Handler -> ReqType] /\ DeskInv' /\ desk'[h] = r
      /\ \A g \in Handler \ {h} : desk'[g] = desk[g] /\ SlotOf(g)' = SlotOf(g)
  BY RequestPut DEF AccountsInv
<1>2. SlotOf(h)' = SlotOf(h)
  BY <1>1 DEF SlotOf
<1>3. SlotOf(h) \in Slot
  BY SlotOfRequest DEF AccountsInv
<1> DEFINE s == SlotOf(h)
<1> HIDE DEF s
<1>4. s \in Slot /\ holder[s] = {} /\ holder' = [holder EXCEPT ![s] = {h}] /\ SlotOf(h)' = s
  BY <1>2, <1>3 DEF s
<1>5. /\ holder' \in [Slot -> SUBSET Handler] /\ holder'[s] = {h}
      /\ \A t \in Slot : t # s => holder'[t] = holder[t]
  BY <1>4 DEF AccountsInv, Types
<1>6. \A g \in Handler : desk'[g].at \in Holding => holder'[SlotOf(g)'] = {g}
  <2> SUFFICES ASSUME NEW g \in Handler, desk'[g].at \in Holding
               PROVE  holder'[SlotOf(g)'] = {g}
    OBVIOUS
  <2>1. CASE g = h
    BY <1>4, <1>5, <2>1
  <2>2. CASE g # h
    <3>1. desk[g].at \in Holding /\ SlotOf(g)' = SlotOf(g)
      BY <1>1, <2>2
    <3>2. SlotOf(g) \in Slot /\ holder[SlotOf(g)] = {g}
      BY <3>1, SlotOfRequest DEF AccountsInv, HolderInv, Holding
    <3>3. SlotOf(g) # s
      BY <1>4, <3>2
    <3> QED BY <1>5, <3>1, <3>2, <3>3
  <2> QED BY <2>1, <2>2
<1>7. HolderInv'
  BY <1>5, <1>6 DEF AccountsInv, HolderInv
<1> QED BY <1>1, <1>2, <1>5, <1>7

\* Nobody else is about to write the row of who holds it, and nobody that of who finds
\* it free.
LEMMA OthersHoldOtherRows ==
    ASSUME AccountsInv, NEW h \in Handler, desk[h].at # "done",
           desk[h].at \in Holding \/ holder[SlotOf(h)] = {}
    PROVE  \A g \in Handler \ {h} : desk[g].at \in Holding =>
              SlotOf(g) \in Slot /\ SlotOf(g) # SlotOf(h)
<1> SUFFICES ASSUME NEW g \in Handler \ {h}, desk[g].at \in Holding
             PROVE  SlotOf(g) \in Slot /\ SlotOf(g) # SlotOf(h)
  OBVIOUS
<1>1. SlotOf(g) \in Slot /\ holder[SlotOf(g)] = {g}
  BY SlotOfRequest DEF AccountsInv, HolderInv, Holding
<1>2. holder[SlotOf(h)] = {h} \/ holder[SlotOf(h)] = {}
  BY DEF AccountsInv, HolderInv
<1> QED BY <1>1, <1>2

LEMMA StoreCodeStep == ASSUME AccountsInv, NEW h \in Handler, StoreCode(h) PROVE AccountsInv'
<1> DEFINE s == SlotOf(h)
<1>1. /\ desk[h].at = "checked" /\ desk[h].op \in {"ask register", "ask reset"}
      /\ holder[s] = {} /\ fresh < MaxCodes /\ fresh' = fresh + 1
      /\ UNCHANGED <<users, codes, sessions, version, guesses, redeemed>>
  BY DEF StoreCode
<1>2. s \in Slot
  BY <1>1, SlotOfRequest DEF AccountsInv
<1>3. fresh \in Nat /\ fresh' \in 0 .. MaxCodes /\ fresh' \in Nat /\ fresh <= fresh'
  <2>1. fresh \in Nat /\ MaxCodes \in Nat /\ fresh < MaxCodes /\ fresh' = fresh + 1
    BY <1>1, Counters, Numbers DEF AccountsInv
  <2> QED BY <2>1
<1>4. CASE ~MaySend(codes[s])
  <2>1. Done(h)
    BY <1>4 DEF StoreCode
  <2> HIDE DEF s
  <2> QED BY <1>1, <1>3, <2>1, EndsWithoutCode DEF AccountsInv, Types
<1>5. CASE MaySend(codes[s])
  <2> DEFINE d == NewRow(codes[s])
             r == [desk[h] EXCEPT !.at = "stored", !.draft = d]
  <2>1. desk' = [desk EXCEPT ![h] = r] /\ holder' = [holder EXCEPT ![s] = {h}]
    BY <1>5 DEF StoreCode
  <2>2. d \in CodeRow /\ d.code = fresh + 1 /\ d.guessed = 0
    BY <1>1, <1>2, <1>3, <1>5, NewRows DEF NewRow, AccountsInv, Types, CodesInv
  <2> HIDE DEF d
  <2>3. desk[h] \in ReqType /\ RequestOK(desk[h])
    BY DEF AccountsInv, Types, DeskInv
  <2>4. /\ r \in ReqType
        /\ r.at = "stored" /\ r.draft = d /\ r.op = desk[h].op
        /\ r.email = desk[h].email /\ r.name = desk[h].name
    BY <2>2, <2>3 DEF ReqType
  <2> HIDE DEF r
  <2>5. RequestOK(r) /\ r.at \in Holding
    BY <1>1, <2>3, <2>4 DEF RequestOK, Holding
  <2>6. /\ desk' \in [Handler -> ReqType] /\ DeskInv'
        /\ holder' \in [Slot -> SUBSET Handler] /\ HolderInv'
        /\ desk'[h] = r /\ SlotOf(h)' = SlotOf(h)
        /\ \A g \in Handler \ {h} : desk'[g] = desk[g] /\ SlotOf(g)' = SlotOf(g)
    BY <1>1, <2>1, <2>4, <2>5, TakesHold
  <2> HIDE DEF s
  <2>7. Types'
    BY <1>1, <1>3, <2>6 DEF AccountsInv, Types
  <2>8. \A t \in Slot : codes[t].code \in Nat /\ codes[t].code <= fresh
    BY <1>3, CodeRowFields DEF AccountsInv, Types, CodesInv, NoCode
  <2>9. CodesInv' /\ NothingBeforeItsTime'
    BY <1>1, <1>3, TableKept
  <2>10. AcceptedInv'
    <3>1. \A g \in Handler : desk'[g].at = "accepted" =>
             /\ desk'[g] = desk[g] /\ desk[g].at = "accepted"
             /\ SlotOf(g)' = SlotOf(g)
      BY <2>4, <2>6
    <3>2. codes' = codes
      BY <1>1
    <3> QED BY <3>1, <3>2 DEF AccountsInv, AcceptedInv
  <2>12. StoredInv'
    <3> DEFINE k == fresh + 1
    <3>1. k \in 1 .. fresh' /\ k \in 1 .. MaxCodes /\ k > fresh
      <4>1. fresh \in Nat /\ MaxCodes \in Nat /\ fresh < MaxCodes /\ fresh' = fresh + 1
        BY <1>1, <1>3, Numbers
      <4> QED BY <4>1
    <3>2. guesses[k] = 0 /\ redeemed[k] = 0
      BY <3>1 DEF AccountsInv, NothingBeforeItsTime
    <3>3. \A t \in Slot : codes[t].code # k
      BY <1>3, <2>8
    <3>4. \A g \in Handler : desk[g].at = "stored" =>
             desk[g].draft.code \in 1 .. fresh' /\ desk[g].draft.code # k
      <4>1. \A g \in Handler : desk[g].at = "stored" => desk[g].draft.code \in 1 .. fresh
        BY DEF AccountsInv, StoredInv
      <4>2. \A j \in 1 .. fresh : j \in 1 .. fresh' /\ j # k
        BY <1>3
      <4> QED BY <4>1, <4>2
    <3>5. d.code = k /\ d.guessed = 0
      BY <2>2
    <3> HIDE DEF k
    <3>6. /\ desk'[h].draft = d
          /\ \A g \in Handler \ {h} : desk'[g] = desk[g]
          /\ codes' = codes /\ guesses' = guesses /\ redeemed' = redeemed
      BY <1>1, <2>4, <2>6
    <3> QED BY <3>1, <3>2, <3>3, <3>4, <3>5, <3>6 DEF AccountsInv, StoredInv
  <2> QED BY <2>6, <2>7, <2>9, <2>10, <2>12 DEF AccountsInv
<1> QED BY <1>4, <1>5

LEMMA SendCodeStep == ASSUME AccountsInv, NEW h \in Handler, SendCode(h) PROVE AccountsInv'
<1> DEFINE s == SlotOf(h)
           d == desk[h].draft
<1>1. /\ desk[h].at = "stored" /\ Done(h)
      /\ codes' = [codes EXCEPT ![s] = d]
      /\ UNCHANGED <<users, sessions, fresh, version, guesses, redeemed>>
  BY DEF SendCode
<1>2. /\ desk' \in [Handler -> ReqType] /\ DeskInv'
      /\ holder' \in [Slot -> SUBSET Handler] /\ HolderInv'
      /\ desk'[h].at = "done"
      /\ \A g \in Handler \ {h} : desk'[g] = desk[g] /\ SlotOf(g)' = SlotOf(g)
  BY <1>1, DoneStep
<1>3. s \in Slot
  BY <1>1, SlotOfRequest DEF AccountsInv
<1>4. \A g \in Handler \ {h} : desk[g].at \in Holding => SlotOf(g) \in Slot /\ SlotOf(g) # s
  BY <1>1, OthersHoldOtherRows DEF Holding
<1>5. d \in CodeRow
  BY DEF AccountsInv, Types, ReqType
<1>6. /\ d.code \in 1 .. fresh /\ guesses[d.code] = 0 /\ redeemed[d.code] = 0 /\ d.guessed = 0
      /\ \A t \in Slot : codes[t].code # d.code
      /\ \A g \in Handler \ {h} : desk[g].at = "stored" => desk[g].draft.code # d.code
  BY <1>1 DEF AccountsInv, StoredInv
<1> HIDE DEF s, d
<1>7. codes' \in [Slot -> CodeRow] /\ codes'[s] = d /\ \A t \in Slot : t # s => codes'[t] = codes[t]
  BY <1>1, <1>3, <1>5 DEF AccountsInv, Types
<1>8. Types'
  BY <1>1, <1>2, <1>7 DEF AccountsInv, Types
<1>9. CodesInv'
  <2>1. d.code # NoCode /\ d.code <= fresh
    BY <1>6 DEF NoCode
  <2> QED BY <1>1, <1>6, <1>7, <2>1 DEF AccountsInv, CodesInv
<1>10. StoredInv'
  BY <1>1, <1>2, <1>6, <1>7 DEF AccountsInv, StoredInv
<1>11. AcceptedInv'
  BY <1>1, <1>2, <1>4, <1>7 DEF AccountsInv, AcceptedInv, Holding
<1>12. NothingBeforeItsTime'
  BY <1>1 DEF AccountsInv, NothingBeforeItsTime
<1> QED BY <1>2, <1>8, <1>9, <1>10, <1>11, <1>12 DEF AccountsInv

LEMMA CodeAcceptedStep == ASSUME AccountsInv, NEW h \in Handler, CodeAccepted(h) PROVE AccountsInv'
<1> DEFINE s == SlotOf(h)
           d == [codes[s] EXCEPT !.used = TRUE]
           r == [desk[h] EXCEPT !.at = "accepted", !.draft = d]
<1>1. /\ desk[h].at = "checked" /\ desk[h].op \in {"register", "reset"}
      /\ holder[s] = {} /\ Open(codes[s])
      /\ desk' = [desk EXCEPT ![h] = r] /\ holder' = [holder EXCEPT ![s] = {h}]
      /\ UNCHANGED <<users, codes, sessions, fresh, version, guesses, redeemed>>
  BY DEF CodeAccepted, Accepts
<1>2. s \in Slot
  BY <1>1, SlotOfRequest DEF AccountsInv
<1>3. d \in CodeRow
  BY <1>2, ChangedRows DEF AccountsInv, Types
<1>4. desk[h] \in ReqType /\ RequestOK(desk[h])
  BY DEF AccountsInv, Types, DeskInv
<1> HIDE DEF d
<1>5. /\ r \in ReqType
      /\ r.at = "accepted" /\ r.draft = d /\ r.op = desk[h].op
      /\ r.email = desk[h].email /\ r.name = desk[h].name
  BY <1>3, <1>4 DEF ReqType
<1> HIDE DEF r
<1>6. RequestOK(r) /\ r.at \in Holding
  BY <1>1, <1>4, <1>5 DEF RequestOK, Holding, Purpose
<1>7. /\ desk' \in [Handler -> ReqType] /\ DeskInv'
      /\ holder' \in [Slot -> SUBSET Handler] /\ HolderInv'
      /\ desk'[h] = r /\ SlotOf(h)' = s
      /\ \A g \in Handler \ {h} : desk'[g] = desk[g] /\ SlotOf(g)' = SlotOf(g)
  BY <1>1, <1>5, <1>6, TakesHold
<1> DEFINE row == codes[s]
<1>8. row.code # NoCode /\ ~row.used /\ d = [row EXCEPT !.used = TRUE]
  BY <1>1 DEF Open, d
<1>9. AcceptedInv'
  <2>1. \A g \in Handler \ {h} : desk'[g].at = "accepted" =>
          /\ codes[SlotOf(g)'].code # NoCode /\ ~codes[SlotOf(g)'].used
          /\ desk'[g].draft = [codes[SlotOf(g)'] EXCEPT !.used = TRUE]
    BY <1>7 DEF AccountsInv, AcceptedInv
  <2>2. /\ codes[SlotOf(h)'].code # NoCode /\ ~codes[SlotOf(h)'].used
        /\ desk'[h].draft = [codes[SlotOf(h)'] EXCEPT !.used = TRUE]
    BY <1>5, <1>7, <1>8
  <2> QED BY <1>1, <2>1, <2>2 DEF AcceptedInv
<1> HIDE DEF s, row
<1>10. Types'
  BY <1>1, <1>7 DEF AccountsInv, Types
<1>11. CodesInv' /\ NothingBeforeItsTime'
  BY <1>1 DEF AccountsInv, CodesInv, NothingBeforeItsTime
<1>12. StoredInv'
  BY <1>1, <1>5, <1>7 DEF AccountsInv, StoredInv
<1> QED BY <1>7, <1>9, <1>10, <1>11, <1>12 DEF AccountsInv

\* A row of the table changes and keeps its code; no request is about to write it.
LEMMA RowRewritten ==
    ASSUME AccountsInv, NEW s \in Slot, NEW d \in CodeRow,
           d.code = codes[s].code,
           d.code # NoCode \/ d.sent = 0,
           codes' = [codes EXCEPT ![s] = d], fresh' = fresh,
           guesses' \in [1 .. MaxCodes -> 0 .. GuessLimit],
           redeemed' \in [1 .. MaxCodes -> {0, 1}],
           \A k \in 1 .. MaxCodes : k # d.code => guesses'[k] = guesses[k] /\ redeemed'[k] = redeemed[k],
           d.code # NoCode => guesses'[d.code] = d.guessed,
           d.code # NoCode /\ ~d.used => redeemed'[d.code] = 0,
           \A g \in Handler : desk'[g].at \in Holding =>
               desk'[g] = desk[g] /\ SlotOf(g)' = SlotOf(g) /\ SlotOf(g) \in Slot /\ SlotOf(g) # s
    PROVE  codes' \in [Slot -> CodeRow] /\ CodesInv' /\ StoredInv' /\ AcceptedInv' /\ NothingBeforeItsTime'
<1>1. codes' \in [Slot -> CodeRow] /\ codes'[s] = d /\ \A t \in Slot : t # s => codes'[t] = codes[t]
  BY DEF AccountsInv, Types
<1>2. \A t \in Slot : codes[t].code # NoCode => codes[t].code \in 1 .. MaxCodes
  BY CodeRowFields DEF AccountsInv, Types, NoCode
<1>3. \A t \in Slot : t # s /\ codes[t].code # NoCode =>
         codes[t].code # d.code /\ guesses'[codes[t].code] = guesses[codes[t].code]
         /\ redeemed'[codes[t].code] = redeemed[codes[t].code]
  BY <1>2 DEF AccountsInv, CodesInv
<1>4. CodesInv'
  <2>1. \A t \in Slot : codes'[t].code = NoCode => codes'[t].sent = 0
    BY <1>1 DEF AccountsInv, CodesInv
  <2>2. \A t \in Slot : codes'[t].code # NoCode =>
          /\ codes'[t].code <= fresh
          /\ guesses'[codes'[t].code] = codes'[t].guessed
          /\ ~codes'[t].used => redeemed'[codes'[t].code] = 0
    <3> SUFFICES ASSUME NEW t \in Slot, codes'[t].code # NoCode
                 PROVE  /\ codes'[t].code <= fresh
                        /\ guesses'[codes'[t].code] = codes'[t].guessed
                        /\ ~codes'[t].used => redeemed'[codes'[t].code] = 0
      OBVIOUS
    <3>1. CASE t = s
      <4>1. codes'[t] = d /\ d.code # NoCode /\ d.code <= fresh
        BY <1>1, <3>1 DEF AccountsInv, CodesInv
      <4> QED BY <4>1
    <3>2. CASE t # s
      BY <1>1, <1>3, <3>2 DEF AccountsInv, CodesInv
    <3> QED BY <3>1, <3>2
  <2>3. \A q, t \in Slot : q # t /\ codes'[q].code = codes'[t].code => codes'[q].code = NoCode
    BY <1>1 DEF AccountsInv, CodesInv
  <2> QED BY <2>1, <2>2, <2>3 DEF CodesInv
<1>5. StoredInv'
  <2>1. \A g \in Handler : desk'[g].at = "stored" => desk'[g] = desk[g] /\ desk[g].at = "stored"
    BY DEF Holding
  <2>2. \A g \in Handler : desk[g].at = "stored" =>
           /\ desk[g].draft.code \in 1 .. MaxCodes
           /\ desk[g].draft.code # d.code
    BY AccountsAssumption DEF AccountsInv, StoredInv, Types
  <2> QED BY <1>1, <2>1, <2>2 DEF AccountsInv, StoredInv
<1>6. AcceptedInv'
  <2>1. \A g \in Handler : desk'[g].at = "accepted" =>
           /\ desk'[g] = desk[g] /\ SlotOf(g)' = SlotOf(g)
           /\ codes'[SlotOf(g)] = codes[SlotOf(g)]
    BY <1>1 DEF Holding
  <2> QED BY <2>1 DEF AccountsInv, AcceptedInv
<1>7. NothingBeforeItsTime'
  <2>1. \A k \in 1 .. MaxCodes : k > fresh => k # d.code
    <3>1. d.code = NoCode \/ d.code <= fresh
      BY DEF AccountsInv, CodesInv
    <3>2. d.code \in Nat /\ fresh \in Nat
      BY CodeRowFields, AccountsAssumption DEF AccountsInv, Types
    <3> QED BY <3>1, <3>2 DEF NoCode
  <2> QED BY <2>1 DEF AccountsInv, NothingBeforeItsTime
<1> QED BY <1>1, <1>4, <1>5, <1>6, <1>7

LEMMA CodeRefusedStep == ASSUME AccountsInv, NEW h \in Handler, CodeRefused(h) PROVE AccountsInv'
<1> DEFINE s == SlotOf(h)
           k == desk[h].guess
           d == Counted(codes[s], k)
<1>1. /\ desk[h].at = "checked" /\ holder[s] = {} /\ Done(h)
      /\ codes' = [codes EXCEPT ![s] = d]
      /\ guesses' = IF Counts(codes[s], k)
                    THEN [guesses EXCEPT ![codes[s].code] = @ + 1] ELSE guesses
      /\ UNCHANGED <<users, sessions, fresh, version, redeemed>>
  <2>1. codes' = [codes EXCEPT ![s] = Counted(@, k)]
    BY DEF CodeRefused
  <2>2. s \in Slot
    BY SlotOfRequest DEF CodeRefused, AccountsInv
  <2>3. codes' = [codes EXCEPT ![s] = d]
    BY <2>1, <2>2 DEF AccountsInv, Types
  <2> QED BY <2>3 DEF CodeRefused
<1>2. /\ desk' \in [Handler -> ReqType] /\ DeskInv'
      /\ holder' \in [Slot -> SUBSET Handler] /\ HolderInv'
      /\ desk'[h].at = "done"
      /\ \A g \in Handler \ {h} : desk'[g] = desk[g] /\ SlotOf(g)' = SlotOf(g)
  BY <1>1, DoneStep
<1>3. s \in Slot
  BY <1>1, SlotOfRequest DEF AccountsInv
<1>4. \A g \in Handler \ {h} : desk[g].at \in Holding => SlotOf(g) \in Slot /\ SlotOf(g) # s
  BY <1>1, OthersHoldOtherRows
<1> HIDE DEF s, k
<1> DEFINE row == codes[s]
<1>5. row \in CodeRow /\ (row.code = NoCode => row.sent = 0)
  BY <1>3 DEF AccountsInv, Types, CodesInv
<1>6. row.code # NoCode =>
        /\ row.code \in 1 .. MaxCodes
        /\ guesses[row.code] = row.guessed
        /\ ~row.used => redeemed[row.code] = 0
  BY <1>3, CodeRowFields DEF AccountsInv, Types, CodesInv, NoCode
<1>7. d = IF Counts(row, k) THEN [row EXCEPT !.guessed = @ + 1] ELSE row
  BY DEF Counted
<1>8. codes' = [codes EXCEPT ![s] = d]
  BY <1>1
<1>9. guesses' = IF Counts(row, k) THEN [guesses EXCEPT ![row.code] = @ + 1] ELSE guesses
  BY <1>1
<1>10. row = codes[s]
  OBVIOUS
<1> HIDE DEF row, d
<1>11. /\ d \in CodeRow /\ d.code = row.code /\ d.used = row.used /\ d.sent = row.sent
       /\ d.guessed = IF Counts(row, k) THEN row.guessed + 1 ELSE row.guessed
  <2>1. CASE Counts(row, k)
    <3>1. row.guessed < GuessLimit
      BY <2>1 DEF Counts, Open
    <3>2. d = [row EXCEPT !.guessed = @ + 1]
      BY <1>7, <2>1
    <3>3. d \in CodeRow
      BY <1>5, <3>1, <3>2, ChangedRows
    <3>4. d.code = row.code /\ d.used = row.used /\ d.sent = row.sent /\ d.guessed = row.guessed + 1
      BY <1>5, <3>2 DEF CodeRow
    <3> QED BY <2>1, <3>3, <3>4
  <2>2. CASE ~Counts(row, k)
    BY <1>5, <1>7, <2>2
  <2> QED BY <2>1, <2>2
<1>12. /\ guesses' \in [1 .. MaxCodes -> 0 .. GuessLimit]
       /\ d.code # NoCode => guesses'[d.code] = d.guessed
       /\ \A j \in 1 .. MaxCodes : j # d.code => guesses'[j] = guesses[j]
  <2>1. guesses \in [1 .. MaxCodes -> 0 .. GuessLimit]
    BY DEF AccountsInv, Types
  <2>2. CASE Counts(row, k)
    <3>1. row.code # NoCode /\ row.guessed < GuessLimit /\ row.guessed \in Nat
      BY <1>5, <2>2, CodeRowFields DEF Counts, Open
    <3>2. row.guessed + 1 \in 0 .. GuessLimit
      BY <3>1, AccountsAssumption
    <3>3. guesses' = [guesses EXCEPT ![row.code] = row.guessed + 1]
      BY <1>6, <1>9, <2>1, <2>2, <3>1
    <3> QED BY <1>6, <1>11, <2>1, <2>2, <3>1, <3>2, <3>3
  <2>3. CASE ~Counts(row, k)
    BY <1>6, <1>9, <1>11, <2>1, <2>3
  <2> QED BY <2>2, <2>3
<1>13. redeemed' = redeemed /\ redeemed \in [1 .. MaxCodes -> {0, 1}] /\ fresh' = fresh
  BY <1>1 DEF AccountsInv, Types
<1>14. \A g \in Handler : desk'[g].at \in Holding =>
         desk'[g] = desk[g] /\ SlotOf(g)' = SlotOf(g) /\ SlotOf(g) \in Slot /\ SlotOf(g) # s
  BY <1>2, <1>4 DEF Holding
<1>15. codes' \in [Slot -> CodeRow] /\ CodesInv' /\ StoredInv' /\ AcceptedInv' /\ NothingBeforeItsTime'
  BY <1>3, <1>5, <1>6, <1>8, <1>10, <1>11, <1>12, <1>13, <1>14, RowRewritten
<1>16. Types'
  BY <1>1, <1>2, <1>12, <1>13, <1>15 DEF AccountsInv, Types
<1> QED BY <1>2, <1>15, <1>16 DEF AccountsInv

\* The row that a code was accepted on is still the one it was read from.
LEMMA RedeemStep ==
    ASSUME AccountsInv, NEW h \in Handler, desk[h].at = "accepted", Redeem(h), Done(h),
           users' \subseteq [name : Name, email : Email, password : 1 .. MaxChanges],
           sessions' \subseteq [email : Email, password : 1 .. MaxChanges],
           UNCHANGED <<fresh, guesses>>
    PROVE  AccountsInv'
<1> DEFINE s == SlotOf(h)
           d == desk[h].draft
<1>1. /\ desk' \in [Handler -> ReqType] /\ DeskInv'
      /\ holder' \in [Slot -> SUBSET Handler] /\ HolderInv'
      /\ desk'[h].at = "done"
      /\ \A g \in Handler \ {h} : desk'[g] = desk[g] /\ SlotOf(g)' = SlotOf(g)
  BY DoneStep
<1>2. s \in Slot
  BY SlotOfRequest DEF AccountsInv
<1>3. \A g \in Handler \ {h} : desk[g].at \in Holding => SlotOf(g) \in Slot /\ SlotOf(g) # s
  BY OthersHoldOtherRows DEF Holding
<1>4. codes' = [codes EXCEPT ![s] = d] /\ redeemed' = [redeemed EXCEPT ![d.code] = @ + 1]
  BY DEF Redeem
<1>5. codes[s].code # NoCode /\ ~codes[s].used /\ d = [codes[s] EXCEPT !.used = TRUE]
  BY DEF AccountsInv, AcceptedInv
<1>6. codes[s] \in CodeRow
  BY <1>2 DEF AccountsInv, Types
<1>7. d \in CodeRow
  BY <1>5, <1>6, ChangedRows
<1> HIDE DEF s, d
<1>8. d.code = codes[s].code /\ d.guessed = codes[s].guessed /\ d.used
  BY <1>5, <1>6 DEF CodeRow
<1>9. d.code \in 1 .. MaxCodes /\ redeemed[d.code] = 0 /\ guesses[d.code] = d.guessed
  BY <1>2, <1>5, <1>6, <1>8, CodeRowFields DEF AccountsInv, CodesInv, NoCode
<1>10. /\ redeemed' \in [1 .. MaxCodes -> {0, 1}]
       /\ \A j \in 1 .. MaxCodes : j # d.code => redeemed'[j] = redeemed[j]
  <2>1. redeemed' = [redeemed EXCEPT ![d.code] = 1]
    BY <1>4, <1>9 DEF AccountsInv, Types
  <2> QED BY <1>9, <2>1 DEF AccountsInv, Types
<1>11. \A g \in Handler : desk'[g].at \in Holding =>
         desk'[g] = desk[g] /\ SlotOf(g)' = SlotOf(g) /\ SlotOf(g) \in Slot /\ SlotOf(g) # s
  BY <1>1, <1>3 DEF Holding
<1>12. guesses \in [1 .. MaxCodes -> 0 .. GuessLimit] /\ guesses' = guesses /\ fresh' = fresh
  BY DEF AccountsInv, Types
<1>13. codes' \in [Slot -> CodeRow] /\ CodesInv' /\ StoredInv' /\ AcceptedInv' /\ NothingBeforeItsTime'
  <2>1. d.code = codes[s].code /\ d.code # NoCode /\ codes' = [codes EXCEPT ![s] = d]
    BY <1>4, <1>5, <1>8
  <2>2. /\ \A k \in 1 .. MaxCodes : k # d.code => guesses'[k] = guesses[k] /\ redeemed'[k] = redeemed[k]
        /\ guesses'[d.code] = d.guessed
        /\ guesses' \in [1 .. MaxCodes -> 0 .. GuessLimit]
    BY <1>9, <1>10, <1>12
  <2>3. d.used /\ redeemed' \in [1 .. MaxCodes -> {0, 1}] /\ fresh' = fresh
    BY <1>8, <1>10, <1>12
  <2> QED BY <1>2, <1>7, <1>11, <2>1, <2>2, <2>3, RowRewritten
<1>14. version' \in 0 .. MaxChanges
  BY AccountsAssumption DEF Redeem, AccountsInv, Types
<1>15. Types'
  BY <1>1, <1>10, <1>12, <1>13, <1>14 DEF AccountsInv, Types
<1> QED BY <1>1, <1>13, <1>15 DEF AccountsInv

LEMMA RedeemSteps ==
    ASSUME AccountsInv, NEW h \in Handler, CreateUser(h) \/ ResetPassword(h)
    PROVE  AccountsInv'
<1>1. /\ users \subseteq [name : Name, email : Email, password : 1 .. MaxChanges]
      /\ sessions \subseteq [email : Email, password : 1 .. MaxChanges]
      /\ version \in Nat
  BY AccountsAssumption DEF AccountsInv, Types
<1>2. desk[h].at = "accepted" /\ Redeem(h) /\ Done(h) /\ UNCHANGED <<fresh, guesses>>
  BY DEF CreateUser, ResetPassword
<1>3. version + 1 \in 1 .. MaxChanges
  BY <1>1, <1>2, AccountsAssumption DEF Redeem
<1>4. desk[h].email \in Email /\ desk[h].name \in Name
  BY <1>2 DEF AccountsInv, DeskInv, RequestOK
<1>5. CASE CreateUser(h)
  <2>1. /\ users' = users \cup {[name |-> desk[h].name, email |-> desk[h].email, password |-> version + 1]}
        /\ sessions' = sessions \cup {[email |-> desk[h].email, password |-> version + 1]}
    BY <1>5 DEF CreateUser
  <2>2. /\ users' \subseteq [name : Name, email : Email, password : 1 .. MaxChanges]
        /\ sessions' \subseteq [email : Email, password : 1 .. MaxChanges]
    BY <1>1, <1>3, <1>4, <2>1
  <2> QED BY <1>2, <2>2, RedeemStep
<1>6. CASE ResetPassword(h)
  <2>1. /\ users' = WithPassword(desk[h].email, version + 1)
        /\ sessions' \subseteq sessions
    BY <1>6 DEF ResetPassword
  <2>2. users' \subseteq [name : Name, email : Email, password : 1 .. MaxChanges]
    BY <1>3, <1>4, <2>1, RenamedUsers
  <2>3. sessions' \subseteq [email : Email, password : 1 .. MaxChanges]
    BY <1>1, <2>1
  <2> QED BY <1>2, <2>2, <2>3, RedeemStep
<1> QED BY <1>5, <1>6

-----------------------------------------------------------------------------
(* Time *)

\* The clock changes what rows say of time, never of codes; nobody holds one then.
LEMMA TimeStep == ASSUME AccountsInv, TimePasses PROVE AccountsInv'
<1>1. /\ \A h \in Handler : desk[h].at \notin Holding
      /\ UNCHANGED <<users, sessions, desk, holder, fresh, version, guesses, redeemed>>
  BY DEF TimePasses, Holding
<1>2. \A r \in CodeRow : \A q :
         \/ q = [r EXCEPT !.recent = FALSE] \/ q = [r EXCEPT !.live = FALSE]
         \/ q = [r EXCEPT !.sent = 0]
         => /\ q \in CodeRow /\ q.code = r.code /\ q.guessed = r.guessed /\ q.used = r.used
            /\ q.sent = r.sent \/ q.sent = 0
  <2> SUFFICES ASSUME NEW r \in CodeRow, NEW q,
                      \/ q = [r EXCEPT !.recent = FALSE] \/ q = [r EXCEPT !.live = FALSE]
                      \/ q = [r EXCEPT !.sent = 0]
               PROVE  /\ q \in CodeRow /\ q.code = r.code /\ q.guessed = r.guessed /\ q.used = r.used
                      /\ q.sent = r.sent \/ q.sent = 0
    OBVIOUS
  <2>1. q \in CodeRow
    BY ChangedRows
  <2> QED BY <2>1 DEF CodeRow
<1>3. /\ codes' \in [Slot -> CodeRow]
      /\ \A t \in Slot : /\ codes'[t].code = codes[t].code
                         /\ codes'[t].guessed = codes[t].guessed
                         /\ codes'[t].used = codes[t].used
                         /\ codes'[t].sent = codes[t].sent \/ codes'[t].sent = 0
  <2>0. codes \in [Slot -> CodeRow]
    BY DEF AccountsInv, Types
  <2>1. CASE Midnight
    <3>1. codes' = [t \in Slot |-> [codes[t] EXCEPT !.sent = 0]]
      BY <2>1 DEF Midnight
    <3>2. \A t \in Slot : codes'[t] = [codes[t] EXCEPT !.sent = 0]
      BY <3>1
    <3>3. \A t \in Slot : [codes[t] EXCEPT !.sent = 0] \in CodeRow
      BY <2>0, <1>2
    <3> QED BY <1>2, <2>0, <3>1, <3>2, <3>3
  <2>2. ASSUME NEW s \in Slot, NEW q, codes' = [codes EXCEPT ![s] = q],
               q = [codes[s] EXCEPT !.recent = FALSE] \/ q = [codes[s] EXCEPT !.live = FALSE]
        PROVE  <1>3!1 /\ <1>3!2
    <3>1. codes[s] \in CodeRow
      BY <2>0
    <3>2. /\ q \in CodeRow /\ q.code = codes[s].code /\ q.guessed = codes[s].guessed
          /\ q.used = codes[s].used
          /\ q.sent = codes[s].sent \/ q.sent = 0
      BY <1>2, <2>2, <3>1
    <3> QED BY <2>0, <2>2, <3>2
  <2>3. ASSUME NEW s \in Slot, MinutePasses(s) \/ Expire(s) PROVE <1>3!1 /\ <1>3!2
    <3>1. CASE MinutePasses(s)
      <4>1. codes' = [codes EXCEPT ![s] = [codes[s] EXCEPT !.recent = FALSE]]
        BY <2>0, <3>1 DEF MinutePasses
      <4> QED BY <2>2, <4>1
    <3>2. CASE Expire(s)
      <4>1. codes' = [codes EXCEPT ![s] = [codes[s] EXCEPT !.live = FALSE]]
        BY <2>0, <3>2 DEF Expire
      <4> QED BY <2>2, <4>1
    <3> QED BY <2>3, <3>1, <3>2
  <2> QED BY <2>1, <2>3 DEF TimePasses
<1>4. Types'
  BY <1>1, <1>3 DEF AccountsInv, Types
<1>5. CodesInv'
  BY <1>1, <1>3 DEF AccountsInv, CodesInv
<1>6. StoredInv' /\ AcceptedInv'
  BY <1>1 DEF StoredInv, AcceptedInv, Holding
<1>7. NothingBeforeItsTime' /\ DeskInv' /\ HolderInv'
  BY <1>1 DEF AccountsInv, NothingBeforeItsTime, DeskInv, HolderInv, RequestOK, SlotOf
<1> QED BY <1>4, <1>5, <1>6, <1>7 DEF AccountsInv

LEMMA OtherSteps ==
    ASSUME AccountsInv, (\E t \in sessions : Logout(t)) \/ UNCHANGED accVars
    PROVE  AccountsInv'
<1>1. UNCHANGED <<users, codes, desk, holder, fresh, version, guesses, redeemed>> /\ sessions' \subseteq sessions
  BY DEF Logout, accVars
<1>2. Types'
  BY <1>1 DEF AccountsInv, Types
<1>3. CodesInv' /\ StoredInv' /\ AcceptedInv' /\ NothingBeforeItsTime'
  BY <1>1, HistoryKept, Counters DEF AccountsInv, SlotOf
<1>4. DeskInv' /\ HolderInv'
  BY <1>1 DEF AccountsInv, DeskInv, HolderInv, RequestOK, SlotOf
<1> QED BY <1>2, <1>3, <1>4 DEF AccountsInv

LEMMA AccountsStep == AccountsInv /\ [AccNext]_accVars => AccountsInv'
<1> SUFFICES ASSUME AccountsInv, [AccNext]_accVars PROVE AccountsInv'
  OBVIOUS
<1>1. ASSUME NEW h \in Handler, Serve(h) PROVE AccountsInv'
  <2>1. \A k \in 0 .. fresh : k \in Nat
    BY Counters DEF AccountsInv
  <2> QED
    BY <1>1, <2>1, AskForCodeStep, AskToConfirmStep, CheckPasswordStep, StoreCodeStep,
       SendCodeStep, CodeAcceptedStep, CodeRefusedStep, RedeemSteps, PasswordSteps DEF Serve
<1> QED BY <1>1, TimeStep, OtherSteps DEF AccNext

LEMMA AccountsInvariance == AccSpec => []AccountsInv
<1> QED BY AccountsOpen, AccountsStep, PTL DEF AccSpec

\* However requests overlap, fail or are undone, and whenever the clock moves: a code
\* that was mailed buys one account or one new password at most, and no more wrong
\* guesses at it are answered than MAX_VERIFY_ATTEMPTS.
THEOREM CodesBuyOnce == AccSpec => []CodesAreLimited
<1>1. AccountsInv => AccTypeOK
  <2> SUFFICES ASSUME AccountsInv PROVE AccTypeOK
    OBVIOUS
  <2>1. \A s \in Slot : holder[s] \subseteq Handler /\ Cardinality(holder[s]) <= 1
    <3> SUFFICES ASSUME NEW s \in Slot
                 PROVE  holder[s] \subseteq Handler /\ Cardinality(holder[s]) <= 1
      OBVIOUS
    <3>1. CASE holder[s] = {}
      BY <3>1, FS_EmptySet
    <3>2. ASSUME NEW h \in holder[s] PROVE holder[s] \subseteq Handler /\ Cardinality(holder[s]) <= 1
      <4>1. holder[s] = {h}
        BY <3>2 DEF AccountsInv, HolderInv
      <4>2. Cardinality({h}) = 1
        BY FS_Singleton
      <4> QED BY <4>1, <4>2 DEF AccountsInv, Types
    <3> QED BY <3>1, <3>2
  <2>2. \A h \in Handler : desk[h].draft \in CodeRow
    BY DEF AccountsInv, Types, ReqType
  <2> QED BY <2>1, <2>2 DEF AccountsInv, Types, AccTypeOK
<1>2. AccountsInv => \A k \in 1 .. MaxCodes : redeemed[k] <= 1 /\ guesses[k] <= GuessLimit
  BY AccountsAssumption DEF AccountsInv, Types
<1>3. AccountsInv => CodesAreLimited
  BY <1>1, <1>2 DEF CodesAreLimited
<1> QED BY <1>3, AccountsInvariance, PTL

(***************************************************************************)
(* PART 2.  The desk: its type invariant, the count of the free trials,    *)
(* and the rows of a deleted task.                                         *)
(***************************************************************************)

Rows == TaskRow \cup {Unused, Gone}

\* The operations whose request names a task.
OnATask == {"upload", "confirm", "rerun", "replay", "delete"}

\* What makes them inductive.  A request carries a task that was there when it was made,
\* and the row a copy is made from.
RequestsAreOfTasks ==
    /\ DOMAIN service = Caller
    /\ \A h \in Caller :
        /\ service[h].op \in OnATask =>
              service[h].task \in Task /\ tasks[service[h].task] # Unused
        /\ service[h].op = "upload" => service[h].pdf \in Pdf
        /\ service[h].op \in {"rerun", "replay"} => service[h].row \in TaskRow

\* The rows that refer to a task refer to one that is there.
RowsAreOfTasks ==
    /\ \A t \in stopping : Exists(t)
    /\ \A p \in Pdf : objects[p] # Nowhere => Exists(objects[p])

TaskDeskInv ==
    /\ tasks \in [Task -> Rows]
    /\ DeskTypeOK
    /\ IsFiniteSet(charged) /\ Cardinality(charged) <= settings.used
    /\ RequestsAreOfTasks /\ RowsAreOfTasks

-----------------------------------------------------------------------------

\* A task that is there has a row; what marks an empty place is no row.
LEMMA Markers ==
    /\ \A r \in TaskRow : r # Unused /\ r # Gone
    /\ \A r \in TaskRow : r.status # "none" /\ r.status # "deleted"
    /\ Unused # Gone /\ Ready.op = "none"
    /\ Unused.status = "none" /\ Gone.status = "deleted"
<1>1. \A r \in TaskRow : r.status \in {"AWAITING_CLAIM_CONFIRMATION", "QUEUED", "RUNNING", "FINISHED"}
  BY DEF TaskRow
<1>2. Unused.status = "none" /\ Gone.status = "deleted" /\ Ready.op = "none"
  BY DEF Unused, Gone, Ready
<1> QED BY <1>1, <1>2

LEMMA Held ==
    ASSUME tasks \in [Task -> Rows], NEW t \in Task, Exists(t)
    PROVE  tasks[t] \in TaskRow
<1> QED BY DEF Exists, Rows

\* The next task was not one, and becomes one.
LEMMA FreshTask == HasFresh => Fresh \in Task /\ tasks[Fresh] = Unused
<1> QED BY DEF HasFresh, Fresh

\* A new row with another status, other claims or one more paper is a row.
LEMMA RowsWithChanges ==
    ASSUME NEW r \in TaskRow
    PROVE  /\ \A s \in {"QUEUED", "RUNNING", "FINISHED"} : [r EXCEPT !.status = s] \in TaskRow
           /\ \A P \in SUBSET Pdf : [r EXCEPT !.pdfs = P] \in TaskRow
           /\ \A C \in [AtomicClaim -> {"SUGGESTED", "CONFIRMED", "DISCARDED"}] :
                [r EXCEPT !.status = "QUEUED", !.claims = C] \in TaskRow
           /\ Clone(r) \in TaskRow
<1>1. \A C \in [AtomicClaim -> {"SUGGESTED", "CONFIRMED", "DISCARDED"}] :
        [r EXCEPT !.status = "QUEUED", !.claims = C] \in TaskRow
  BY DEF TaskRow
<1>2. Clone(r) \in TaskRow
  <2> DEFINE C == [c \in AtomicClaim |-> IF c \in Confirmed(r) THEN "CONFIRMED" ELSE "DISCARDED"]
  <2>1. C \in [AtomicClaim -> {"SUGGESTED", "CONFIRMED", "DISCARDED"}]
    OBVIOUS
  <2>2. Clone(r) = [r EXCEPT !.status = "QUEUED", !.claims = C]
    BY DEF Clone
  <2> HIDE DEF C
  <2> QED BY <1>1, <2>1, <2>2
<1>3. \A s \in {"QUEUED", "RUNNING", "FINISHED"} : [r EXCEPT !.status = s] \in TaskRow
  BY DEF TaskRow
<1>4. \A P \in SUBSET Pdf : [r EXCEPT !.pdfs = P] \in TaskRow
  BY DEF TaskRow
<1> QED BY <1>1, <1>2, <1>3, <1>4

\* No request, no file and no task at first.
LEMMA DeskOpens == DeskInit => TaskDeskInv
<1> SUFFICES ASSUME DeskInit PROVE TaskDeskInv
  OBVIOUS
<1> USE DEF DeskInit
<1>1. tasks \in [Task -> Rows]
  BY DEF Rows
<1>2. DeskTypeOK
  BY TaskDeskAssumption DEF DeskTypeOK, Exists
<1>3. IsFiniteSet(charged) /\ Cardinality(charged) <= settings.used
  BY FS_EmptySet
<1>4. RequestsAreOfTasks
  BY Markers DEF RequestsAreOfTasks, OnATask
<1>5. RowsAreOfTasks
  BY DEF RowsAreOfTasks
<1> QED BY <1>1, <1>2, <1>3, <1>4, <1>5 DEF TaskDeskInv

-----------------------------------------------------------------------------
(* What a step leaves alone *)

\* After the step x has a row.
StaysThere(x) == tasks'[x] \notin {Unused, Gone}

\* A task that was created stays one that was, so the requests about it stay requests.
LEMMA RequestsKept ==
    ASSUME RequestsAreOfTasks,
           service' = service \/ \E h \in Caller : Answer(h),
           \A t \in Task : tasks[t] # Unused => tasks'[t] # Unused
    PROVE  RequestsAreOfTasks'
<1>1. CASE service' = service
  BY <1>1 DEF RequestsAreOfTasks
<1>2. ASSUME NEW h \in Caller, Answer(h) PROVE RequestsAreOfTasks'
  <2>1. /\ DOMAIN service' = Caller
        /\ service'[h] = Ready
        /\ \A g \in Caller : g # h => service'[g] = service[g]
    BY <1>2 DEF Answer, RequestsAreOfTasks
  <2> QED BY <2>1, Markers DEF RequestsAreOfTasks, OnATask
<1> QED BY <1>1, <1>2

\* The types of the variables beside the tasks and their requests.
LEMMA TypesKept ==
    ASSUME TaskDeskInv, tasks' \in [Task -> Rows],
           objects' \in [Pdf -> Task \cup {Nowhere}],
           settings' \in [usable : BOOLEAN, trial : BOOLEAN, used : 0 .. TrialLimit],
           stopping' \cup working' \cup stream' \cup charged' \subseteq Task
    PROVE  DeskTypeOK'
<1> QED BY DEF DeskTypeOK, Exists, Rows

\* What a request for later work changes, but for the request itself.
LEMMA Asking ==
    ASSUME TaskDeskInv, UNCHANGED <<tasks, objects, settings, stopping, working, stream, charged>>,
           RequestsAreOfTasks'
    PROVE  TaskDeskInv'
<1>1. DeskTypeOK'
  BY TypesKept DEF TaskDeskInv, DeskTypeOK
<1>2. RowsAreOfTasks'
  BY DEF TaskDeskInv, RowsAreOfTasks, Exists
<1> QED BY <1>1, <1>2 DEF TaskDeskInv

\* A request that is accepted names what is there.
LEMMA Accepted ==
    ASSUME TaskDeskInv, NEW h \in Caller, NEW request, Accept(h, request),
           request.op \in OnATask => request.task \in Task /\ Exists(request.task),
           request.op = "upload" => request.pdf \in Pdf,
           request.op \in {"rerun", "replay"} => request.row \in TaskRow
    PROVE  TaskDeskInv'
<1>1. /\ DOMAIN service' = Caller
      /\ service'[h] = request
      /\ \A g \in Caller : g # h => service'[g] = service[g]
      /\ UNCHANGED <<tasks, objects, settings, stopping, working, stream, charged>>
  BY DEF Accept, TaskDeskInv, RequestsAreOfTasks
<1>2. RequestsAreOfTasks'
  BY <1>1 DEF TaskDeskInv, RequestsAreOfTasks, Exists
<1> QED BY <1>1, <1>2, Asking

LEMMA AskSteps ==
    ASSUME TaskDeskInv, NEW h \in Caller,
           \/ AskForTrial(h)
           \/ \E t \in Task, p \in Pdf : AskToUpload(h, t, p)
           \/ \E t \in Task : AskToConfirmClaims(h, t)
           \/ \E t \in Task, op \in {"rerun", "replay"} : AskToClone(h, t, op)
    PROVE  TaskDeskInv'
<1>1. CASE AskForTrial(h)
  <2> DEFINE r == [op |-> "trial"]
  <2>1. r.op = "trial" /\ Accept(h, r)
    BY <1>1 DEF AskForTrial
  <2> HIDE DEF r
  <2> QED BY <2>1, Accepted DEF OnATask
<1>2. ASSUME NEW t \in Task, NEW p \in Pdf, AskToUpload(h, t, p) PROVE TaskDeskInv'
  <2> DEFINE r == [op |-> "upload", task |-> t, pdf |-> p]
  <2>1. r.op = "upload" /\ r.task = t /\ r.pdf = p /\ Accept(h, r) /\ Exists(t)
    BY <1>2 DEF AskToUpload
  <2> HIDE DEF r
  <2> QED BY <2>1, Accepted DEF OnATask
<1>3. ASSUME NEW t \in Task, AskToConfirmClaims(h, t) PROVE TaskDeskInv'
  <2> DEFINE r == [op |-> "confirm", task |-> t, slot |-> settings.used < TrialLimit]
  <2>1. r.op = "confirm" /\ r.task = t /\ Accept(h, r) /\ Exists(t)
    BY <1>3 DEF AskToConfirmClaims
  <2> HIDE DEF r
  <2> QED BY <2>1, Accepted DEF OnATask
<1>4. ASSUME NEW t \in Task, NEW op \in {"rerun", "replay"}, AskToClone(h, t, op) PROVE TaskDeskInv'
  <2> DEFINE r == [op |-> op, task |-> t, row |-> tasks[t]]
  <2>1. r.op = op /\ r.task = t /\ r.row = tasks[t] /\ Accept(h, r) /\ Exists(t)
    BY <1>4 DEF AskToClone
  <2>2. tasks[t] \in TaskRow
    BY <2>1, Held DEF TaskDeskInv
  <2> HIDE DEF r
  <2> QED BY <2>1, <2>2, Accepted DEF OnATask
<1> QED BY <1>1, <1>2, <1>3, <1>4

\* A running task gets its stop request with the request to delete it.
LEMMA AskToDeleteStep ==
    ASSUME TaskDeskInv, NEW h \in Caller, NEW t \in Task, AskToDelete(h, t)
    PROVE  TaskDeskInv'
<1> DEFINE r == [op |-> "delete", task |-> t]
<1>1. r.op = "delete" /\ r.task = t /\ service' = [service EXCEPT ![h] = r]
  BY DEF AskToDelete
<1> HIDE DEF r
<1>2. /\ DOMAIN service' = Caller
      /\ service'[h] = r
      /\ \A g \in Caller : g # h => service'[g] = service[g]
  BY <1>1 DEF TaskDeskInv, RequestsAreOfTasks
<1>3. /\ UNCHANGED <<tasks, objects, settings, working, stream, charged>>
      /\ stopping' \subseteq stopping \cup {t} /\ Exists(t)
  BY DEF AskToDelete
<1>4. RequestsAreOfTasks'
  BY <1>1, <1>2, <1>3 DEF TaskDeskInv, RequestsAreOfTasks, Exists, OnATask
<1>5. DeskTypeOK'
  BY <1>3, TypesKept DEF TaskDeskInv, DeskTypeOK
<1>6. RowsAreOfTasks'
  BY <1>3 DEF TaskDeskInv, RowsAreOfTasks, Exists
<1> QED BY <1>3, <1>4, <1>5, <1>6 DEF TaskDeskInv

\* A request that ends leaves the tables as they are, and the settings may change.
LEMMA SettingsStep ==
    ASSUME TaskDeskInv,
           UNCHANGED <<tasks, objects, stopping, working, stream, charged>>,
           \/ settings' = settings
           \/ \E trial \in BOOLEAN, usable \in BOOLEAN :
                settings' = [settings EXCEPT !.usable = usable, !.trial = trial],
           service' = service \/ \E h \in Caller : Answer(h)
    PROVE  TaskDeskInv'
<1>1. /\ settings' \in [usable : BOOLEAN, trial : BOOLEAN, used : 0 .. TrialLimit]
      /\ settings'.used = settings.used
  BY DEF TaskDeskInv, DeskTypeOK
<1>2. DeskTypeOK'
  BY <1>1, TypesKept DEF TaskDeskInv, DeskTypeOK
<1>3. RequestsAreOfTasks'
  BY RequestsKept DEF TaskDeskInv
<1>4. RowsAreOfTasks'
  BY DEF TaskDeskInv, RowsAreOfTasks, Exists
<1> QED BY <1>1, <1>2, <1>3, <1>4 DEF TaskDeskInv

-----------------------------------------------------------------------------
(* What a step changes *)

\* One row is put in place of another; nothing refers to it that did not.
LEMMA RowChanges ==
    ASSUME TaskDeskInv, NEW t \in Task, NEW r \in TaskRow, tasks' = [tasks EXCEPT ![t] = r],
           service' = service \/ \E h \in Caller : Answer(h)
    PROVE  /\ tasks' \in [Task -> Rows]
           /\ RequestsAreOfTasks'
           /\ \A u \in Task : Exists(u) => StaysThere(u)
           /\ StaysThere(t)
<1>1. tasks' \in [Task -> Rows] /\ tasks'[t] = r /\ \A u \in Task : u # t => tasks'[u] = tasks[u]
  BY DEF TaskDeskInv, Rows
<1>2. RequestsAreOfTasks'
  BY <1>1, Markers, RequestsKept DEF TaskDeskInv
<1> QED BY <1>1, <1>2, Markers DEF Exists, StaysThere

\* The other tables when a row is put in place of another.
LEMMA RowStep ==
    ASSUME TaskDeskInv, NEW t \in Task, NEW r \in TaskRow, tasks' = [tasks EXCEPT ![t] = r],
           service' = service \/ \E h \in Caller : Answer(h),
           objects' = objects \/ \E p \in Pdf : objects' = [objects EXCEPT ![p] = t],
           settings' = settings, charged' = charged, stream' = stream,
           stopping' \subseteq stopping, working' \subseteq working \cup {t}
    PROVE  TaskDeskInv'
<1>1. /\ tasks' \in [Task -> Rows]
      /\ RequestsAreOfTasks'
      /\ \A u \in Task : Exists(u) => StaysThere(u)
      /\ StaysThere(t)
  BY RowChanges
<1>2. objects' \in [Pdf -> Task \cup {Nowhere}]
  BY DEF TaskDeskInv, DeskTypeOK
<1>3. DeskTypeOK'
  BY <1>1, <1>2, TypesKept DEF TaskDeskInv, DeskTypeOK
<1>4. \A s \in stopping' : StaysThere(s)
  BY <1>1 DEF TaskDeskInv, RowsAreOfTasks, DeskTypeOK
<1>5. \A p \in Pdf : objects'[p] # Nowhere => StaysThere(objects'[p])
  <2> SUFFICES ASSUME NEW p \in Pdf, objects'[p] # Nowhere PROVE StaysThere(objects'[p])
    OBVIOUS
  <2>1. objects'[p] = t \/ objects'[p] = objects[p]
    BY DEF TaskDeskInv, DeskTypeOK
  <2>2. objects'[p] \in Task
    BY <1>2
  <2> QED BY <1>1, <2>1, <2>2 DEF TaskDeskInv, RowsAreOfTasks, Exists, StaysThere
<1>6. RowsAreOfTasks'
  BY <1>4, <1>5 DEF RowsAreOfTasks, Exists, StaysThere
<1> QED BY <1>1, <1>3, <1>6 DEF TaskDeskInv

LEMMA CreateTaskStep ==
    ASSUME TaskDeskInv, NEW kind \in {"deep_research", "paper_review"}, NEW own \in BOOLEAN,
           CreateTask(kind, own)
    PROVE  TaskDeskInv'
<1> DEFINE r == [status |-> "AWAITING_CLAIM_CONFIRMATION", kind |-> kind,
                 trial |-> Inherited(own), pdfs |-> {}, claims |-> Suggested]
<1>1. r \in TaskRow
  <2>1. Inherited(own) \in BOOLEAN /\ Suggested \in [AtomicClaim -> {"SUGGESTED", "CONFIRMED", "DISCARDED"}]
    BY DEF Inherited, Suggested, TaskDeskInv, DeskTypeOK
  <2> QED BY <2>1 DEF TaskRow
<1>2. Fresh \in Task /\ tasks' = [tasks EXCEPT ![Fresh] = r]
  BY FreshTask DEF CreateTask
<1>3. UNCHANGED <<objects, settings, service, stopping, working, stream, charged>>
  BY DEF CreateTask
<1> HIDE DEF r
<1> QED BY <1>1, <1>2, <1>3, RowStep

LEMMA AddPdfStep == ASSUME TaskDeskInv, NEW h \in Caller, AddPdf(h) PROVE TaskDeskInv'
<1> DEFINE t == service[h].task
           p == service[h].pdf
           r == [tasks[t] EXCEPT !.pdfs = @ \cup {p}]
<1>1. t \in Task /\ p \in Pdf /\ Exists(t)
  BY DEF AddPdf, Referenced, TaskDeskInv, RequestsAreOfTasks, OnATask
<1>2. tasks[t] \in TaskRow
  BY <1>1, Held DEF TaskDeskInv
<1>3. r \in TaskRow
  <2>1. tasks[t].pdfs \cup {p} \in SUBSET Pdf
    BY <1>1, <1>2 DEF TaskRow
  <2> QED BY <1>2, <2>1, RowsWithChanges
<1>4. tasks' = [tasks EXCEPT ![t] = r] /\ objects' = [objects EXCEPT ![p] = t]
  BY <1>1 DEF AddPdf
<1>5. Answer(h) /\ UNCHANGED <<settings, stopping, working, stream, charged>>
  BY DEF AddPdf
<1> HIDE DEF r, t, p
<1> QED BY <1>1, <1>3, <1>4, <1>5, RowStep

\* The slot is taken in the transaction that queues the task.
LEMMA ConfirmStep ==
    ASSUME TaskDeskInv, NEW h \in Caller, NEW chosen \in SUBSET AtomicClaim, ConfirmClaims(h, chosen)
    PROVE  TaskDeskInv'
<1> DEFINE t == service[h].task
           C == [c \in AtomicClaim |-> IF c \in chosen THEN "CONFIRMED" ELSE "DISCARDED"]
           r == [tasks[t] EXCEPT !.status = "QUEUED", !.claims = C]
<1>1. t \in Task /\ Exists(t) /\ Consume(h, t)
  BY DEF ConfirmClaims, TaskDeskInv, RequestsAreOfTasks, OnATask
<1>2. tasks[t] \in TaskRow
  BY <1>1, Held DEF TaskDeskInv
<1>3. r \in TaskRow
  <2>1. C \in [AtomicClaim -> {"SUGGESTED", "CONFIRMED", "DISCARDED"}]
    OBVIOUS
  <2> HIDE DEF C
  <2> QED BY <1>2, <2>1, RowsWithChanges
<1>4. tasks' = [tasks EXCEPT ![t] = r]
  <2>1. tasks' = [tasks EXCEPT ![t].status = "QUEUED", ![t].claims = C]
    BY DEF ConfirmClaims
  <2> HIDE DEF C
  <2>2. r = [tasks[t] EXCEPT !.status = "QUEUED", !.claims = C]
    OBVIOUS
  <2> HIDE DEF r
  <2> QED BY <1>1, <2>1, <2>2 DEF TaskDeskInv
<1>5. Answer(h) /\ UNCHANGED <<objects, stopping, working, stream>>
  BY DEF ConfirmClaims
<1> HIDE DEF r, C
<1>6. /\ tasks' \in [Task -> Rows]
      /\ RequestsAreOfTasks'
      /\ \A u \in Task : Exists(u) => StaysThere(u)
  BY <1>1, <1>3, <1>4, <1>5, RowChanges
<1> HIDE DEF t
<1>7. /\ settings' \in [usable : BOOLEAN, trial : BOOLEAN, used : 0 .. TrialLimit]
      /\ IsFiniteSet(charged') /\ Cardinality(charged') <= settings'.used
      /\ charged' \subseteq Task
  <2>1. CASE tasks[t].trial
    <3>1. /\ settings.used < TrialLimit /\ charged' = charged \cup {t}
          /\ settings' = [settings EXCEPT !.used = @ + 1]
      BY <1>1, <2>1 DEF Consume
    <3>2. /\ settings' \in [usable : BOOLEAN, trial : BOOLEAN, used : 0 .. TrialLimit]
          /\ settings'.used = settings.used + 1
      BY <3>1, TaskDeskAssumption DEF TaskDeskInv, DeskTypeOK
    <3>3. /\ IsFiniteSet(charged')
          /\ Cardinality(charged') = Cardinality(charged) \/ Cardinality(charged') = Cardinality(charged) + 1
      BY <3>1, FS_AddElement DEF TaskDeskInv
    <3>4. Cardinality(charged) \in Nat /\ settings.used \in Nat
      BY FS_CardinalityType, TaskDeskAssumption DEF TaskDeskInv, DeskTypeOK
    <3> QED BY <1>1, <3>1, <3>2, <3>3, <3>4 DEF TaskDeskInv, DeskTypeOK
  <2>2. CASE ~tasks[t].trial
    BY <1>1, <2>2 DEF Consume, TaskDeskInv, DeskTypeOK
  <2> QED BY <2>1, <2>2
<1>8. DeskTypeOK'
  BY <1>5, <1>6, <1>7, TypesKept DEF TaskDeskInv, DeskTypeOK
<1>9. RowsAreOfTasks'
  <2>1. \A s \in stopping : s \in Task
    BY DEF TaskDeskInv, DeskTypeOK
  <2>2. \A p \in Pdf : objects[p] # Nowhere => objects[p] \in Task
    BY DEF TaskDeskInv, DeskTypeOK
  <2> QED BY <1>5, <1>6, <2>1, <2>2 DEF TaskDeskInv, RowsAreOfTasks, Exists, StaysThere
<1> QED BY <1>6, <1>7, <1>8, <1>9 DEF TaskDeskInv

\* A task goes, and its rows with it; a copy may have come, which its papers moved to.
LEMMA RemovalStep ==
    ASSUME TaskDeskInv, NEW t \in Task, NEW owners \in [Pdf -> Task \cup {Nowhere}],
           tasks' \in [Task -> Rows], tasks'[t] = Gone,
           \A u \in Task \ {t} : Exists(u) => StaysThere(u),
           \A u \in Task : tasks[u] # Unused => tasks'[u] # Unused,
           \A p \in Pdf : owners[p] # Nowhere /\ owners[p] # t => StaysThere(owners[p]),
           Cascade(t, owners), \E h \in Caller : Answer(h),
           stopping' = stopping \ {t}, stream' = stream \ {t},
           UNCHANGED <<settings, working, charged>>
    PROVE  TaskDeskInv'
<1>1. RequestsAreOfTasks'
  BY RequestsKept DEF TaskDeskInv
<1>2. /\ objects' \in [Pdf -> Task \cup {Nowhere}]
      /\ \A p \in Pdf : objects'[p] = IF owners[p] = t THEN Nowhere ELSE owners[p]
  BY DEF Cascade
<1>3. DeskTypeOK'
  BY <1>2, TypesKept DEF TaskDeskInv, DeskTypeOK
<1>4. \A p \in Pdf : objects'[p] # Nowhere => StaysThere(objects'[p])
  <2> SUFFICES ASSUME NEW p \in Pdf, objects'[p] # Nowhere PROVE StaysThere(objects'[p])
    OBVIOUS
  <2>1. objects'[p] = owners[p] /\ owners[p] # t /\ owners[p] # Nowhere
    BY <1>2
  <2> QED BY <2>1 DEF Exists, StaysThere
<1>5. \A s \in stopping' : StaysThere(s)
  BY DEF TaskDeskInv, RowsAreOfTasks, DeskTypeOK
<1>6. RowsAreOfTasks'
  BY <1>4, <1>5 DEF RowsAreOfTasks, Exists, StaysThere
<1> QED BY <1>1, <1>3, <1>6 DEF TaskDeskInv

LEMMA DeleteStep == ASSUME TaskDeskInv, NEW h \in Caller, Delete(h) PROVE TaskDeskInv'
<1> DEFINE t == service[h].task
<1>1. t \in Task /\ tasks' = [tasks EXCEPT ![t] = Gone]
  BY DEF Delete, TaskDeskInv, RequestsAreOfTasks, OnATask
<1>2. /\ Answer(h) /\ Cascade(t, objects)
      /\ stopping' = stopping \ {t} /\ stream' = stream \ {t}
      /\ UNCHANGED <<settings, working, charged>>
  BY DEF Delete
<1> HIDE DEF t
<1>3. /\ tasks' \in [Task -> Rows] /\ tasks'[t] = Gone
      /\ \A u \in Task : u # t => tasks'[u] = tasks[u]
  BY <1>1 DEF TaskDeskInv, Rows
<1>4. /\ \A u \in Task \ {t} : Exists(u) => StaysThere(u)
      /\ \A u \in Task : tasks[u] # Unused => tasks'[u] # Unused
  BY <1>3, Markers DEF Exists, StaysThere
<1>5. objects \in [Pdf -> Task \cup {Nowhere}]
  BY DEF TaskDeskInv, DeskTypeOK
<1>6. \A p \in Pdf : objects[p] # Nowhere /\ objects[p] # t => StaysThere(objects[p])
  BY <1>4, <1>5 DEF TaskDeskInv, RowsAreOfTasks, Exists, StaysThere
<1> QED BY <1>1, <1>2, <1>3, <1>4, <1>5, <1>6, RemovalStep

LEMMA RerunFreshStep == ASSUME TaskDeskInv, NEW h \in Caller, RerunFresh(h) PROVE TaskDeskInv'
<1> DEFINE t == service[h].task
           r == Clone(service[h].row)
<1>1. t \in Task /\ tasks[t] # Unused /\ Fresh \in Task /\ tasks[Fresh] = Unused
  BY FreshTask DEF RerunFresh, TaskDeskInv, RequestsAreOfTasks, OnATask
<1>2. r \in TaskRow
  BY RowsWithChanges DEF RerunFresh, TaskDeskInv, RequestsAreOfTasks
<1>3. /\ tasks' = [tasks EXCEPT ![Fresh] = r, ![t] = Gone]
      /\ Answer(h) /\ Cascade(t, Rehomed(t, Fresh))
      /\ stopping' = stopping \ {t} /\ stream' = stream \ {t}
      /\ UNCHANGED <<settings, working, charged>>
  BY DEF RerunFresh
<1> DEFINE f == Fresh
<1> HIDE DEF t, r, f
<1>4. f \in Task /\ t \in Task /\ f # t
  BY <1>1 DEF f
<1>5. tasks' = [tasks EXCEPT ![f] = r, ![t] = Gone] /\ Cascade(t, Rehomed(t, f))
  BY <1>3 DEF f
<1>6. /\ tasks' \in [Task -> Rows] /\ tasks'[t] = Gone /\ tasks'[f] = r
      /\ \A u \in Task \ {t, f} : tasks'[u] = tasks[u]
  BY <1>2, <1>4, <1>5 DEF TaskDeskInv, Rows
<1>7. /\ \A u \in Task \ {t} : Exists(u) => StaysThere(u)
      /\ \A u \in Task : tasks[u] # Unused => tasks'[u] # Unused
      /\ StaysThere(f)
  BY <1>2, <1>4, <1>6, Markers DEF Exists, StaysThere
<1>8. /\ Rehomed(t, f) \in [Pdf -> Task \cup {Nowhere}]
      /\ \A p \in Pdf : Rehomed(t, f)[p] = IF objects[p] = t THEN f ELSE objects[p]
  BY <1>4 DEF Rehomed, TaskDeskInv, DeskTypeOK
<1>9. \A p \in Pdf : Rehomed(t, f)[p] # Nowhere /\ Rehomed(t, f)[p] # t => StaysThere(Rehomed(t, f)[p])
  <2> SUFFICES ASSUME NEW p \in Pdf, Rehomed(t, f)[p] # Nowhere, Rehomed(t, f)[p] # t
               PROVE  StaysThere(Rehomed(t, f)[p])
    OBVIOUS
  <2>1. CASE objects[p] = t
    BY <1>7, <1>8, <2>1 DEF Exists, StaysThere
  <2>2. CASE objects[p] # t
    <3>1. Rehomed(t, f)[p] = objects[p] /\ objects[p] \in Task \ {t} /\ Exists(objects[p])
      BY <1>8, <2>2 DEF TaskDeskInv, DeskTypeOK, RowsAreOfTasks
    <3> QED BY <1>7, <3>1 DEF Exists, StaysThere
  <2> QED BY <2>1, <2>2
<1> DEFINE o == Rehomed(t, f)
<1> HIDE DEF o
<1>10. /\ o \in [Pdf -> Task \cup {Nowhere}] /\ Cascade(t, o)
       /\ \A p \in Pdf : o[p] # Nowhere /\ o[p] # t => StaysThere(o[p])
  BY <1>5, <1>8, <1>9 DEF o
<1> QED BY <1>3, <1>4, <1>6, <1>7, <1>10, RemovalStep

LEMMA ReplayStep == ASSUME TaskDeskInv, NEW h \in Caller, Replay(h) PROVE TaskDeskInv'
<1> DEFINE r == Clone(service[h].row)
<1>1. r \in TaskRow
  BY RowsWithChanges DEF Replay, TaskDeskInv, RequestsAreOfTasks
<1>2. Fresh \in Task /\ tasks' = [tasks EXCEPT ![Fresh] = r]
  BY FreshTask DEF Replay
<1>3. Answer(h) /\ UNCHANGED <<objects, settings, stopping, working, stream, charged>>
  BY DEF Replay
<1> HIDE DEF r
<1> QED BY <1>1, <1>2, <1>3, RowStep

LEMMA WorkerStep ==
    ASSUME TaskDeskInv, NEW t \in Task, TakeTask(t) \/ WriteStream(t) \/ EndRun(t)
    PROVE  TaskDeskInv'
<1>1. CASE TakeTask(t)
  <2> DEFINE r == [tasks[t] EXCEPT !.status = "RUNNING"]
  <2>1. tasks[t] \in TaskRow
    BY <1>1, Held DEF TakeTask, TaskDeskInv
  <2>2. r \in TaskRow /\ tasks' = [tasks EXCEPT ![t] = r]
    BY <1>1, <2>1, RowsWithChanges DEF TakeTask
  <2>3. UNCHANGED <<objects, settings, service, stopping, stream, charged>> /\ working' = working \cup {t}
    BY <1>1 DEF TakeTask
  <2> HIDE DEF r
  <2> QED BY <2>2, <2>3, RowStep
<1>2. CASE WriteStream(t)
  <2>1. UNCHANGED <<tasks, objects, settings, service, stopping, working, charged>> /\ stream' = stream \cup {t}
    BY <1>2 DEF WriteStream
  <2>2. DeskTypeOK'
    BY <2>1, TypesKept DEF TaskDeskInv, DeskTypeOK
  <2>3. RequestsAreOfTasks' /\ RowsAreOfTasks'
    BY <2>1 DEF TaskDeskInv, RequestsAreOfTasks, RowsAreOfTasks, Exists
  <2> QED BY <2>1, <2>2, <2>3 DEF TaskDeskInv
<1>3. CASE EndRun(t)
  <2>1. /\ UNCHANGED <<objects, settings, service, stream, charged>>
        /\ working' = working \ {t} /\ stopping' = stopping \ {t}
        /\ tasks' = IF Exists(t) THEN [tasks EXCEPT ![t].status = "FINISHED"] ELSE tasks
    BY <1>3 DEF EndRun
  <2>2. CASE Exists(t)
    <3> DEFINE r == [tasks[t] EXCEPT !.status = "FINISHED"]
    <3>1. tasks[t] \in TaskRow
      BY <2>2, Held DEF TaskDeskInv
    <3>2. r \in TaskRow /\ tasks' = [tasks EXCEPT ![t] = r]
      BY <2>1, <2>2, <3>1, RowsWithChanges
    <3> HIDE DEF r
    <3> QED BY <2>1, <3>2, RowStep
  <2>3. CASE ~Exists(t)
    <3>1. tasks' = tasks
      BY <2>1, <2>3
    <3>2. DeskTypeOK'
      BY <2>1, <3>1, TypesKept DEF TaskDeskInv, DeskTypeOK
    <3>3. RequestsAreOfTasks' /\ RowsAreOfTasks'
      BY <2>1, <3>1 DEF TaskDeskInv, RequestsAreOfTasks, RowsAreOfTasks, Exists
    <3> QED BY <2>1, <3>1, <3>2, <3>3 DEF TaskDeskInv
  <2> QED BY <2>2, <2>3
<1> QED BY <1>1, <1>2, <1>3

-----------------------------------------------------------------------------

LEMMA DeskStep == TaskDeskInv /\ [DeskNext]_deskVars => TaskDeskInv'
<1> SUFFICES ASSUME TaskDeskInv, [DeskNext]_deskVars PROVE TaskDeskInv'
  OBVIOUS
<1>1. ASSUME NEW h \in Caller, Requests(h) PROVE TaskDeskInv'
  <2>1. CASE StartTrial(h)
    <3>1. /\ settings' = [settings EXCEPT !.usable = TRUE, !.trial = TRUE] /\ Answer(h)
          /\ UNCHANGED <<tasks, objects, stopping, working, stream, charged>>
      BY <2>1 DEF StartTrial
    <3> QED BY <3>1, SettingsStep
  <2>2. CASE GiveUpRequest(h)
    BY <2>2, SettingsStep DEF GiveUpRequest
  <2>3. CASE AddPdf(h)
    BY <2>3, AddPdfStep
  <2>4. CASE \E chosen \in SUBSET AtomicClaim : ConfirmClaims(h, chosen)
    BY <2>4, ConfirmStep
  <2>5. CASE RerunFresh(h)
    BY <2>5, RerunFreshStep
  <2>6. CASE Replay(h)
    BY <2>6, ReplayStep
  <2>7. CASE Delete(h)
    BY <2>7, DeleteStep
  <2>8. CASE \E t \in Task : AskToDelete(h, t)
    BY <2>8, AskToDeleteStep
  <2> QED BY <1>1, <2>1, <2>2, <2>3, <2>4, <2>5, <2>6, <2>7, <2>8, AskSteps DEF Requests
<1>2. CASE SaveSettings
  <2>1. /\ \E usable \in BOOLEAN : settings' = [settings EXCEPT !.usable = usable, !.trial = FALSE]
        /\ UNCHANGED <<tasks, objects, service, stopping, working, stream, charged>>
    BY <1>2 DEF SaveSettings
  <2> QED BY <2>1, SettingsStep
<1>3. CASE \E t \in Task : TakeTask(t) \/ WriteStream(t) \/ EndRun(t)
  BY <1>3, WorkerStep
<1>4. CASE \E kind \in {"deep_research", "paper_review"}, own \in BOOLEAN : CreateTask(kind, own)
  BY <1>4, CreateTaskStep
<1>5. CASE UNCHANGED deskVars
  BY <1>5, SettingsStep DEF deskVars
<1> QED BY <1>1, <1>2, <1>3, <1>4, <1>5 DEF DeskNext

LEMMA DeskInvariance == DeskSpec => []TaskDeskInv
<1> QED BY DeskOpens, DeskStep, PTL DEF DeskSpec

\* However many confirmations overlap, fail and are undone: a task is queued at the
\* price of a trial only in the step that takes one, and never more are taken than
\* the account has.
THEOREM TrialsAreNeverOverdrawn == DeskSpec => []TrialsAreCounted
<1>1. TaskDeskInv => TrialsAreCounted
  BY TaskDeskAssumption DEF TaskDeskInv, DeskTypeOK, TrialsAreCounted
<1> QED BY <1>1, DeskInvariance, PTL

\* Whatever is uploaded, cloned, stopped or deleted beside it, a deleted task leaves
\* neither a stop request nor an uploaded object behind.
THEOREM DeletionIsComplete == DeskSpec => []DeletedTaskLeavesNoRows
<1>1. TaskDeskInv => DeletedTaskLeavesNoRows
  <2> SUFFICES ASSUME TaskDeskInv, NEW t \in Task, tasks[t] = Gone
               PROVE  t \notin stopping /\ \A p \in Pdf : objects[p] # t
    BY DEF DeletedTaskLeavesNoRows
  <2>1. ~Exists(t) /\ t # Nowhere
    BY TaskDeskAssumption DEF Exists
  <2> QED BY <2>1 DEF TaskDeskInv, RowsAreOfTasks
<1> QED BY <1>1, DeskInvariance, PTL

-----------------------------------------------------------------------------
(***************************************************************************)
(* PART 3.  Follow-up questions: a delta is named by its place among those *)
(* of the answer, so that what the page has can be compared with what the  *)
(* model said.                                                             *)
(***************************************************************************)

\* A delta is named by its place.
Place == Nat

\* Exchanges of the page, frames of the response, messages to the model.
Exchange == [answer : Seq(Place), state : {"pending", "ok", "failed"}, incomplete : BOOLEAN,
             said : 0 .. MaxDeltas, end : {"open", "cut", "finished", "lost"}]

\* A frame of the response to the page.
Frame == [kind : {"text", "error", "DONE", "truncated", "continued"}, delta : Place]

\* A message to the model.
Message == [role : {"user", "assistant"}, text : Seq(Place)]

\* The first n deltas of an answer.
UpTo(n) == [i \in 1 .. n |-> i]

\* The type invariant the rest needs; what it says of answers is more than FollowTypeOK.
FollowTyped ==
    /\ thread \in Seq(Exchange) /\ wire \in Seq(Frame)
    /\ prior \in Seq(Place) /\ segment \in Seq(Place) /\ history \in Seq(Message)
    /\ server \in {"idle", "request", "segment"} /\ continuations \in 0 .. MaxContinuations
    /\ capped \in BOOLEAN /\ link \in BOOLEAN /\ calls \in Nat

\* An exchange holds the beginning of what the model said, all of it if it is shown as
\* finished.
Faithful(x) ==
    /\ x.answer = UpTo(Len(x.answer))
    /\ x.state = "ok" /\ ~x.incomplete => Len(x.answer) = x.said /\ x.end = "finished"

\* Every exchange does, and only the last one may be under way.
Exchanges ==
    /\ \A i \in DOMAIN thread : Faithful(thread[i])
    /\ \A i \in DOMAIN thread : i < Len(thread) => thread[i].state # "pending"

\* Each request of the model is one of a continuation, or the one that drops max_tokens.
Calls ==
    /\ calls <= continuations + (IF capped THEN 0 ELSE 1) + (IF server = "request" THEN 0 ELSE 1)

-----------------------------------------------------------------------------
(***************************************************************************)
(* The history the model is shown: a fold of the messages, newest first,   *)
(* that keeps those that fit.                                              *)
(***************************************************************************)

\* What has been kept so far, and how long it is.
Fitted == [used : Nat, kept : Seq(Message)]

\* The messages of a history, newest first, and the fold that keeps those that fit.
Newest(messages) == IF Len(messages) > HistoryTurns THEN HistoryTurns ELSE Len(messages)

\* The messages, newest first.
FromTheEnd(messages) == [k \in 1 .. Len(messages) |-> messages[Len(messages) - k + 1]]

\* One more message, if it fits.
FitStep == [x \in Fitted |-> [m \in Message |->
              IF x.used + Len(m.text) > HistoryLength THEN x
              ELSE [used |-> x.used + Len(m.text), kept |-> <<m>> \o x.kept]]]

\* The recursive function of KeptHistory, as an equation.
Fitting(f, messages) ==
    f = [k \in 0 .. Newest(messages) |->
            IF k = 0 THEN [used |-> 0, kept |-> <<>>]
            ELSE IF f[k - 1].used + Len(messages[Len(messages) - k + 1].text) > HistoryLength
                 THEN f[k - 1]
            ELSE [used |-> f[k - 1].used + Len(messages[Len(messages) - k + 1].text),
                  kept |-> <<messages[Len(messages) - k + 1]>> \o f[k - 1].kept]]

\* The step is one from fitted to fitted.
LEMMA FitStepType == Advances(FitStep, Fitted, Message)
<1> SUFFICES ASSUME NEW x \in Fitted, NEW m \in Message
             PROVE  [used |-> x.used + Len(m.text), kept |-> <<m>> \o x.kept] \in Fitted
  BY DEF FitStep, Advances
<1>1. Len(m.text) \in Nat /\ x.used \in Nat /\ x.kept \in Seq(Message) /\ <<m>> \in Seq(Message)
  BY DEF Message, Fitted
<1>2. <<m>> \o x.kept \in Seq(Message)
  BY <1>1, ConcatProperties
<1> QED BY <1>1, <1>2 DEF Fitted

\* The fold of the history exists.
LEMMA FittingExists ==
    ASSUME NEW messages \in Seq(Message)
    PROVE  \E f \in [0 .. Newest(messages) -> Fitted] : Fitting(f, messages)
<1>0. Newest(messages) \in Nat /\ Newest(messages) <= Len(messages) /\ Len(messages) \in Nat
  BY FollowUpAssumption DEF Newest
<1>1. \A k \in 1 .. Newest(messages) :
          /\ messages[Len(messages) - k + 1] \in Message
          /\ FromTheEnd(messages)[k] = messages[Len(messages) - k + 1]
  <2> SUFFICES ASSUME NEW k \in 1 .. Newest(messages)
               PROVE  /\ messages[Len(messages) - k + 1] \in Message
                      /\ FromTheEnd(messages)[k] = messages[Len(messages) - k + 1]
    OBVIOUS
  <2>1. k \in 1 .. Len(messages) /\ Len(messages) - k + 1 \in 1 .. Len(messages)
    BY <1>0
  <2> QED BY <2>1 DEF FromTheEnd
<1>2. [used |-> 0, kept |-> <<>>] \in Fitted
  <2>1. <<>> \in Seq(Message)
    OBVIOUS
  <2> QED BY <2>1 DEF Fitted
<1>3. PICK f \in [0 .. Newest(messages) -> Fitted] :
         /\ f[0] = [used |-> 0, kept |-> <<>>]
         /\ \A k \in 1 .. Newest(messages) : f[k] = FitStep[f[k - 1]][FromTheEnd(messages)[k]]
  <2>1. ReadsFrom(FromTheEnd(messages), Newest(messages), Message)
    BY <1>1 DEF ReadsFrom
  <2>2. Foldable(Fitted, [used |-> 0, kept |-> <<>>], FitStep, FromTheEnd(messages), Newest(messages))
    BY <1>0, <1>2, <2>1, FitStepType, FoldExists
  <2> QED BY <2>2 DEF Foldable, FoldedTo
<1>4. ASSUME NEW k \in 1 .. Newest(messages)
      PROVE  f[k] = IF f[k - 1].used + Len(messages[Len(messages) - k + 1].text) > HistoryLength
                    THEN f[k - 1]
                    ELSE [used |-> f[k - 1].used + Len(messages[Len(messages) - k + 1].text),
                          kept |-> <<messages[Len(messages) - k + 1]>> \o f[k - 1].kept]
  <2>1. f[k - 1] \in Fitted
    BY <1>0, <1>3
  <2>2. f[k] = FitStep[f[k - 1]][messages[Len(messages) - k + 1]]
    BY <1>1, <1>3
  <2> QED BY <1>1, <2>1, <2>2 DEF FitStep
<1>5. f = [k \in 0 .. Newest(messages) |-> f[k]]
  OBVIOUS
<1>6. \A k \in 0 .. Newest(messages) : k = 0 \/ k \in 1 .. Newest(messages)
  BY <1>0
<1>7. Fitting(f, messages)
  BY <1>3, <1>4, <1>5, <1>6 DEF Fitting
<1> QED BY <1>7

\* There is one such fold only, as far as its type goes.
LEMMA FittingTyped ==
    ASSUME NEW messages \in Seq(Message), NEW f, Fitting(f, messages)
    PROVE  f \in [0 .. Newest(messages) -> Fitted]
<1> DEFINE T == {n \in Nat : n <= Newest(messages) => f[n] \in Fitted}
<1>0. Newest(messages) \in Nat /\ Newest(messages) <= Len(messages) /\ Len(messages) \in Nat
  BY FollowUpAssumption DEF Newest
<1>1. 0 \in T
  <2>1. <<>> \in Seq(Message)
    OBVIOUS
  <2>2. f[0] = [used |-> 0, kept |-> <<>>]
    BY <1>0 DEF Fitting
  <2>3. [used |-> 0, kept |-> <<>>] \in Fitted
    BY <2>1 DEF Fitted
  <2> QED BY <2>2, <2>3
<1>2. ASSUME NEW n \in T PROVE n + 1 \in T
  <2> SUFFICES ASSUME n + 1 <= Newest(messages) PROVE f[n + 1] \in Fitted
    OBVIOUS
  <2>1. n \in Nat /\ f[n] \in Fitted
    BY <1>0
  <2>2. PICK m \in Message : m = messages[Len(messages) - (n + 1) + 1]
    BY <1>0, <2>1
  <2>3. f[n + 1] = IF f[n].used + Len(m.text) > HistoryLength THEN f[n]
                   ELSE [used |-> f[n].used + Len(m.text), kept |-> <<m>> \o f[n].kept]
    <3>1. PICK k \in 0 .. Newest(messages) : k = n + 1 /\ k # 0 /\ k - 1 = n
      BY <1>0, <2>1
    <3>2. f[k] = IF f[k - 1].used + Len(messages[Len(messages) - k + 1].text) > HistoryLength
                 THEN f[k - 1]
                 ELSE [used |-> f[k - 1].used + Len(messages[Len(messages) - k + 1].text),
                       kept |-> <<messages[Len(messages) - k + 1]>> \o f[k - 1].kept]
      BY <3>1 DEF Fitting
    <3> QED BY <2>2, <3>1, <3>2
  <2>4. FitStep[f[n]][m] \in Fitted /\ f[n + 1] = FitStep[f[n]][m]
    BY <2>1, <2>3, FitStepType DEF FitStep, Advances
  <2> QED BY <2>4
<1> HIDE DEF T
<1>3. T \in SUBSET Nat
  BY DEF T
<1>4. T = Nat
  BY <1>1, <1>2, <1>3, EveryNumber
<1>5. DOMAIN f = 0 .. Newest(messages) /\ f = [k \in 0 .. Newest(messages) |-> f[k]]
  BY DEF Fitting
<1> QED BY <1>0, <1>4, <1>5 DEF T

\* KeptHistory is the last value of such a fold.
LEMMA KeptHistoryIs ==
    ASSUME NEW messages \in Seq(Message)
    PROVE  \E f \in [0 .. Newest(messages) -> Fitted] :
              Fitting(f, messages) /\ KeptHistory(messages) = f[Newest(messages)].kept
<1> DEFINE f == CHOOSE g : Fitting(g, messages)
<1>1. KeptHistory(messages) = f[Newest(messages)].kept
  BY DEF KeptHistory, Fitting, Newest
<1>2. Fitting(f, messages)
  BY FittingExists
<1> HIDE DEF f
<1>3. f \in [0 .. Newest(messages) -> Fitted]
  BY <1>2, FittingTyped
<1> QED BY <1>1, <1>2, <1>3

\* The newest message is kept if it fits at all, and stays the last.
LEMMA NewestIsKept ==
    ASSUME NEW front \in Seq(Message), NEW m \in Message
    PROVE  /\ KeptHistory(Append(front, m)) \in Seq(Message)
           /\ HistoryTurns > 0 /\ Len(m.text) <= HistoryLength =>
                  /\ KeptHistory(Append(front, m)) # <<>>
                  /\ Last(KeptHistory(Append(front, m))) = m
<1>1. PICK messages \in Seq(Message) : messages = Append(front, m)
  <2>1. Append(front, m) \in Seq(Message)
    BY AppendProperties
  <2> QED BY <2>1
<1>2. Len(messages) \in Nat /\ Len(messages) > 0 /\ messages[Len(messages)] = m
  BY <1>1, AppendProperties
<1>3. PICK f \in [0 .. Newest(messages) -> Fitted] :
         Fitting(f, messages) /\ KeptHistory(messages) = f[Newest(messages)].kept
  BY KeptHistoryIs
<1>4. Newest(messages) \in Nat /\ Newest(messages) <= Len(messages)
  BY <1>2, FollowUpAssumption DEF Newest
<1>5. KeptHistory(messages) \in Seq(Message)
  BY <1>3, <1>4 DEF Fitted
<1>6. ASSUME HistoryTurns > 0, Len(m.text) <= HistoryLength
      PROVE  KeptHistory(messages) # <<>> /\ Last(KeptHistory(messages)) = m
  <2> DEFINE T == {n \in Nat : n + 1 <= Newest(messages) =>
                                  f[n + 1].kept # <<>> /\ Last(f[n + 1].kept) = m}
  <2>0. Newest(messages) > 0
    BY <1>2, <1>6, FollowUpAssumption DEF Newest
  <2>1. 0 \in T
    <3>1. f[0] = [used |-> 0, kept |-> <<>>]
      BY <1>3, <1>4 DEF Fitting
    <3>2. Len(m.text) \in Nat /\ HistoryLength \in Nat
      BY FollowUpAssumption DEF Message
    <3>3. f[1] = IF f[0].used + Len(m.text) > HistoryLength THEN f[0]
                 ELSE [used |-> f[0].used + Len(m.text), kept |-> <<m>> \o f[0].kept]
      <4>1. Len(messages) - 1 + 1 = Len(messages) /\ 1 \in 0 .. Newest(messages) /\ 1 - 1 = 0 /\ 1 # 0
        BY <1>2, <1>4, <2>0
      <4> QED BY <1>2, <1>3, <4>1 DEF Fitting
    <3>4. f[1].kept = <<m>> \o <<>>
      BY <1>6, <3>1, <3>2, <3>3
    <3>5. <<m>> \o <<>> = <<m>> /\ <<m>> # <<>> /\ Len(<<m>>) = 1 /\ <<m>>[1] = m
      OBVIOUS
    <3>6. f[0 + 1].kept = <<m>> /\ Last(<<m>>) = m
      BY <3>4, <3>5 DEF Last
    <3> QED BY <3>5, <3>6
  <2>2. ASSUME NEW n \in T PROVE n + 1 \in T
    <3> SUFFICES ASSUME n + 1 + 1 <= Newest(messages)
                 PROVE  f[n + 1 + 1].kept # <<>> /\ Last(f[n + 1 + 1].kept) = m
      OBVIOUS
    <3>1. n \in Nat /\ n + 1 <= Newest(messages) /\ f[n + 1] \in Fitted
          /\ f[n + 1].kept # <<>> /\ Last(f[n + 1].kept) = m
      BY <1>3, <1>4
    <3>2. PICK k \in Nat : k = n + 2 /\ k \in 0 .. Newest(messages) /\ k # 0 /\ k - 1 = n + 1 /\ k = n + 1 + 1
      BY <1>4, <3>1
    <3>3. PICK x \in Message : x = messages[Len(messages) - k + 1]
      BY <1>2, <1>4, <3>1, <3>2
    <3>4. f[k] = f[k - 1] \/ f[k].kept = <<x>> \o f[k - 1].kept
      <4>1. f[k] = IF f[k - 1].used + Len(messages[Len(messages) - k + 1].text) > HistoryLength
                   THEN f[k - 1]
                   ELSE [used |-> f[k - 1].used + Len(messages[Len(messages) - k + 1].text),
                         kept |-> <<messages[Len(messages) - k + 1]>> \o f[k - 1].kept]
        BY <1>3, <3>2 DEF Fitting
      <4> QED BY <3>3, <4>1
    <3>5. PICK kept \in Seq(Message) : kept = f[n + 1].kept
      BY <3>1 DEF Fitted
    <3>6. <<x>> \o kept # <<>> /\ Last(<<x>> \o kept) = Last(kept)
      BY <3>1, <3>5 DEF Last
    <3> QED BY <3>1, <3>2, <3>4, <3>5, <3>6
  <2> HIDE DEF T
  <2>3. T \in SUBSET Nat
    BY DEF T
  <2>4. T = Nat
    BY <2>1, <2>2, <2>3, EveryNumber
  <2>5. Newest(messages) - 1 \in T /\ (Newest(messages) - 1) + 1 = Newest(messages)
    BY <1>4, <2>0, <2>4
  <2> QED BY <1>3, <1>4, <2>5 DEF T
<1> QED BY <1>1, <1>5, <1>6

-----------------------------------------------------------------------------
(* What a thread says, and what the frames on the wire carry. *)

\* Two more elements.
LEMMA TwoMore ==
    ASSUME NEW S, NEW s \in Seq(S), NEW a \in S, NEW b \in S
    PROVE  /\ <<a, b>> \in Seq(S) /\ Append(s, a) \in Seq(S)
           /\ s \o <<a, b>> = Append(Append(s, a), b)
<1>1. /\ <<a, b>> \in Seq(S) /\ Len(<<a, b>>) = 2 /\ <<a, b>>[1] = a /\ <<a, b>>[2] = b
      /\ Append(s, a) \in Seq(S) /\ Append(Append(s, a), b) \in Seq(S)
  OBVIOUS
<1>2. PICK t \in Seq(S) : t = Append(Append(s, a), b)
  BY <1>1
<1>3. PICK n \in Nat : n = Len(s)
  OBVIOUS
<1>4. Len(t) = n + 2 /\ t[n + 1] = a /\ t[n + 2] = b /\ \A i \in 1 .. n : t[i] = s[i]
  BY <1>2, <1>3, AppendProperties
<1>5. PICK u \in Seq(S) : u = s \o <<a, b>>
  BY <1>1, ConcatProperties
<1>6. Len(u) = n + 2 /\ \A i \in 1 .. n + 2 : u[i] = IF i <= n THEN s[i] ELSE <<a, b>>[i - n]
  BY <1>1, <1>3, <1>5, ConcatProperties
<1>7. ASSUME NEW i \in 1 .. n + 2 PROVE u[i] = t[i]
  <2>1. i \in 1 .. n \/ i = n + 1 \/ i = n + 2
    OBVIOUS
  <2> QED BY <1>1, <1>4, <1>6, <2>1
<1>8. u = t
  BY <1>4, <1>6, <1>7
<1> QED BY <1>1, <1>2, <1>5, <1>8

\* What the messages of an exchange are, and what a frame adds to the answer.
TurnsOf == [x \in Exchange |-> IF x.answer = <<>> THEN <<>>
                               ELSE <<[role |-> "user", text |-> <<0>>],
                                      [role |-> "assistant", text |-> x.answer]>>]

\* The delta a frame carries, if it does.
DeltaOf == [f \in Frame |-> IF f.kind = "text" THEN <<f.delta>> ELSE <<>>]

\* What an exchange contributes to the messages is messages.
LEMMA TurnsContribute ==
    ASSUME NEW exchanges \in Seq(Exchange)
    PROVE  /\ Contributes(TurnsOf, Exchange, Message)
           /\ Messages(exchanges) = Contributed(exchanges, TurnsOf)
<1>1. ASSUME NEW x \in Exchange PROVE TurnsOf[x] \in Seq(Message)
  <2>1. x.answer \in Seq(Place) /\ <<0>> \in Seq(Place)
    BY DEF Exchange, Place
  <2>2. /\ [role |-> "user", text |-> <<0>>] \in Message
        /\ [role |-> "assistant", text |-> x.answer] \in Message
    BY <2>1 DEF Message
  <2>3. <<>> \in Seq(Message) /\ \A m, n \in Message : <<m, n>> \in Seq(Message)
    OBVIOUS
  <2> QED BY <2>2, <2>3 DEF TurnsOf
<1>2. \A i \in DOMAIN exchanges : exchanges[i] \in Exchange
  OBVIOUS
<1>3. [i \in DOMAIN exchanges |->
        IF exchanges[i].answer = <<>> THEN <<>>
        ELSE <<[role |-> "user", text |-> <<0>>],
               [role |-> "assistant", text |-> exchanges[i].answer]>>]
          = [i \in DOMAIN exchanges |-> TurnsOf[exchanges[i]]]
  BY <1>2 DEF TurnsOf
<1>4. TurnsOf \in [Exchange -> Seq(Message)]
  BY <1>1 DEF TurnsOf
<1> QED BY <1>3, <1>4 DEF Messages, Contributed, Contributes

\* The next question shows the model the answer before it.
LEMMA AnswerIsShown ==
    ASSUME NEW exchanges \in Seq(Exchange)
    PROVE  /\ KeptHistory(Messages(exchanges)) \in Seq(Message)
           /\ exchanges # <<>> /\ Last(exchanges).answer # <<>> /\ HistoryTurns > 0
                  /\ Len(Last(exchanges).answer) <= HistoryLength
              => /\ KeptHistory(Messages(exchanges)) # <<>>
                 /\ Last(KeptHistory(Messages(exchanges))).text = Last(exchanges).answer
<1>1. Messages(exchanges) \in Seq(Message)
  BY TurnsContribute, ContributedType
<1>2. KeptHistory(Messages(exchanges)) \in Seq(Message)
  <2>1. PICK f \in [0 .. Newest(Messages(exchanges)) -> Fitted] :
           KeptHistory(Messages(exchanges)) = f[Newest(Messages(exchanges))].kept
    BY <1>1, KeptHistoryIs
  <2>2. Newest(Messages(exchanges)) \in Nat
    BY <1>1, FollowUpAssumption DEF Newest
  <2> QED BY <2>1, <2>2 DEF Fitted
<1>3. ASSUME exchanges # <<>>, Last(exchanges).answer # <<>>, HistoryTurns > 0,
             Len(Last(exchanges).answer) <= HistoryLength
      PROVE  /\ KeptHistory(Messages(exchanges)) # <<>>
             /\ Last(KeptHistory(Messages(exchanges))).text = Last(exchanges).answer
  <2>1. PICK front \in Seq(Exchange), x \in Exchange : exchanges = Append(front, x)
    BY <1>3, SequenceEmptyOrAppend
  <2>2. Last(exchanges) = x
    BY <2>1, AppendProperties DEF Last
  <2>3. PICK q \in Message, a \in Message : TurnsOf[x] = <<q, a>> /\ a.text = x.answer
    <3>1. x.answer \in Seq(Place) /\ <<0>> \in Seq(Place)
      BY DEF Exchange, Place
    <3>2. /\ [role |-> "user", text |-> <<0>>] \in Message
          /\ [role |-> "assistant", text |-> x.answer] \in Message
      BY <3>1 DEF Message
    <3> QED BY <1>3, <2>2, <3>2 DEF TurnsOf
  <2>4. Messages(exchanges) = Messages(front) \o <<q, a>> /\ Messages(front) \in Seq(Message)
    <3>1. /\ Messages(front) = Contributed(front, TurnsOf)
          /\ Messages(exchanges) = Contributed(Append(front, x), TurnsOf)
          /\ Contributes(TurnsOf, Exchange, Message)
      BY <2>1, TurnsContribute
    <3>2. /\ Contributed(front, TurnsOf) \in Seq(Message)
          /\ Contributed(Append(front, x), TurnsOf) = Contributed(front, TurnsOf) \o TurnsOf[x]
      <4>1. \A s \in Seq(Exchange), e \in Exchange :
               /\ Contributed(s, TurnsOf) \in Seq(Message)
               /\ Contributed(Append(s, e), TurnsOf) = Contributed(s, TurnsOf) \o TurnsOf[e]
        BY <3>1, ContributedAppend
      <4> QED BY <4>1
    <3> QED BY <2>3, <3>1, <3>2
  <2>5. PICK more \in Seq(Message) : Messages(exchanges) = Append(more, a)
    <3>1. PICK s \in Seq(Message) : s = Messages(front)
      BY <2>4
    <3>2. s \o <<q, a>> = Append(Append(s, q), a) /\ Append(s, q) \in Seq(Message)
      BY TwoMore
    <3> QED BY <2>4, <3>1, <3>2, Zenon
  <2>6. Len(a.text) <= HistoryLength
    BY <1>3, <2>2, <2>3
  <2>7. /\ KeptHistory(Append(more, a)) # <<>>
        /\ Last(KeptHistory(Append(more, a))) = a
    BY <1>3, <2>6, NewestIsKept
  <2> QED BY <2>2, <2>3, <2>5, <2>7, Zenon
<1> QED BY <1>2, <1>3

-----------------------------------------------------------------------------
\* What the frames on a wire carry.
Carried(w) == FlattenSeq([i \in DOMAIN w |-> IF w[i].kind = "text" THEN <<w[i].delta>> ELSE <<>>])

\* OnTheWire is what the wire carries, now and after a step.
LEMMA CarriedIs == OnTheWire = Carried(wire) /\ OnTheWire' = Carried(wire')
BY DEF OnTheWire, Carried

\* What a frame contributes to the answer is deltas.
LEMMA DeltaContributes == Contributes(DeltaOf, Frame, Place)
<1>1. <<>> \in Seq(Place) /\ \A f \in Frame : <<f.delta>> \in Seq(Place)
  BY DEF Frame
<1>2. \A f \in Frame : DeltaOf[f] \in Seq(Place)
  BY <1>1 DEF DeltaOf
<1>3. DeltaOf \in [Frame -> Seq(Place)]
  BY <1>2 DEF DeltaOf
<1> QED BY <1>3 DEF Contributes

\* What frames carry is what each contributes, one after the other.
LEMMA CarriedContributed ==
    ASSUME NEW w \in Seq(Frame)
    PROVE  Carried(w) = Contributed(w, DeltaOf) /\ Carried(w) \in Seq(Place)
<1>1. \A i \in DOMAIN w : w[i] \in Frame
  OBVIOUS
<1>2. [i \in DOMAIN w |-> IF w[i].kind = "text" THEN <<w[i].delta>> ELSE <<>>]
          = [i \in DOMAIN w |-> DeltaOf[w[i]]]
  BY <1>1 DEF DeltaOf
<1>3. Carried(w) = Contributed(w, DeltaOf)
  BY <1>2 DEF Carried, Contributed
<1> QED BY <1>3, DeltaContributes, ContributedType

\* What two runs of frames carry.
LEMMA CarriedConcat ==
    ASSUME NEW a \in Seq(Frame), NEW b \in Seq(Frame)
    PROVE  Carried(a \o b) = Carried(a) \o Carried(b)
<1>1. a \o b \in Seq(Frame)
  BY ConcatProperties
<1>2. \A x \in Seq(Frame) : Carried(x) = Contributed(x, DeltaOf)
  BY CarriedContributed
<1>3. Contributed(a \o b, DeltaOf) = Contributed(a, DeltaOf) \o Contributed(b, DeltaOf)
  BY DeltaContributes, ContributedConcat
<1> QED BY <1>1, <1>2, <1>3, Zenon

\* What one frame carries.
LEMMA CarriedOne ==
    ASSUME NEW f \in Frame
    PROVE  Carried(<<f>>) = IF f.kind = "text" THEN <<f.delta>> ELSE <<>>
<1>1. <<f>> \in Seq(Frame)
  OBVIOUS
<1>2. Contributed(<<f>>, DeltaOf) = DeltaOf[f]
  <2>1. \A e \in Frame : Contributed(<<e>>, DeltaOf) = DeltaOf[e]
    BY DeltaContributes, ContributedOne
  <2> QED BY <2>1
<1> QED BY <1>1, <1>2, CarriedContributed DEF DeltaOf

\* Frames without text.
Wordless == {"error", "DONE", "truncated", "continued"}

\* The frames the server builds.
LEMMA FramesAre ==
    /\ \A n \in Place : Delta(n) \in Frame /\ Delta(n).kind = "text" /\ Delta(n).delta = n
                        /\ <<Delta(n)>> \in Seq(Frame) /\ Carried(<<Delta(n)>>) = <<n>>
    /\ \A k \in Wordless : Notice(k) \in Frame /\ Notice(k).kind = k
                           /\ <<Notice(k)>> \in Seq(Frame) /\ Carried(<<Notice(k)>>) = <<>>
<1>1. \A n \in Place : Delta(n) \in Frame /\ Delta(n).kind = "text" /\ Delta(n).delta = n
  BY DEF Delta, Frame
<1>2. \A k \in Wordless : Notice(k) \in Frame /\ Notice(k).kind = k /\ k # "text"
  BY DEF Notice, Frame, Wordless, Place
<1>3. \A f \in Frame : <<f>> \in Seq(Frame)
  OBVIOUS
<1>4. \A f \in Frame : Carried(<<f>>) = IF f.kind = "text" THEN <<f.delta>> ELSE <<>>
  BY CarriedOne
<1> QED BY <1>1, <1>2, <1>3, <1>4

\* A frame without text changes nothing of what is on the way, and a delta comes last.
LEMMA WordsSent ==
    ASSUME NEW w \in Seq(Frame)
    PROVE  /\ \A k \in Wordless : w \o <<Notice(k)>> \in Seq(Frame)
                                  /\ Carried(w \o <<Notice(k)>>) = Carried(w)
           /\ \A n \in Place : w \o <<Delta(n)>> \in Seq(Frame)
                               /\ Carried(w \o <<Delta(n)>>) = Append(Carried(w), n)
<1>1. Carried(w) \in Seq(Place)
  BY CarriedContributed
<1>2. \A b \in Seq(Frame) : w \o b \in Seq(Frame) /\ Carried(w \o b) = Carried(w) \o Carried(b)
  BY CarriedConcat, ConcatProperties
<1>3. Carried(w) \o <<>> = Carried(w) /\ \A n \in Place : Append(Carried(w), n) = Carried(w) \o <<n>>
  BY <1>1, ConcatEmptySeq, AppendIsConcat
<1>4. ASSUME NEW k \in Wordless
      PROVE  w \o <<Notice(k)>> \in Seq(Frame) /\ Carried(w \o <<Notice(k)>>) = Carried(w)
  BY <1>2, <1>3, FramesAre, Zenon
<1>5. ASSUME NEW n \in Place
      PROVE  w \o <<Delta(n)>> \in Seq(Frame) /\ Carried(w \o <<Delta(n)>>) = Append(Carried(w), n)
  BY <1>2, <1>3, FramesAre, Zenon
<1> QED BY <1>4, <1>5

\* The page takes the first frame.
LEMMA HeadRead ==
    ASSUME NEW w \in Seq(Frame), w # <<>>
    PROVE  /\ Head(w) \in Frame /\ Tail(w) \in Seq(Frame) /\ Carried(Tail(w)) \in Seq(Place)
           /\ Carried(w) = (IF Head(w).kind = "text" THEN <<Head(w).delta>> ELSE <<>>) \o Carried(Tail(w))
<1>1. /\ Head(w) \in Frame /\ Tail(w) \in Seq(Frame) /\ <<Head(w)>> \in Seq(Frame)
      /\ w = <<Head(w)>> \o Tail(w)
  BY HeadThenTail
<1>2. Carried(<<Head(w)>> \o Tail(w)) = Carried(<<Head(w)>>) \o Carried(Tail(w))
  <2>1. \A a, b \in Seq(Frame) : Carried(a \o b) = Carried(a) \o Carried(b)
    BY CarriedConcat
  <2> QED BY <1>1, <2>1, Zenon
<1>3. Carried(<<Head(w)>>) = IF Head(w).kind = "text" THEN <<Head(w).delta>> ELSE <<>>
  <2>1. \A f \in Frame : Carried(<<f>>) = IF f.kind = "text" THEN <<f.delta>> ELSE <<>>
    BY CarriedOne
  <2> QED BY <1>1, <2>1
<1>4. Carried(w) = Carried(<<Head(w)>>) \o Carried(Tail(w))
  BY <1>1, <1>2, Zenon
<1> QED BY <1>1, <1>3, <1>4, CarriedContributed

-----------------------------------------------------------------------------
(***************************************************************************)
(* The invariant.  The answer on the page followed by the deltas on the    *)
(* wire is what the model has said, and so is what the server would send   *)
(* back to have it continued.                                              *)
(***************************************************************************)

\* The beginning of what the model said, and what is on its way.
LEMMA BeginningOfSaid ==
    ASSUME NEW a \in Seq(Place), NEW b \in Seq(Place), NEW n \in Nat, a \o b = UpTo(n)
    PROVE  /\ a = UpTo(Len(a)) /\ Len(a) <= n
           /\ b = <<>> => Len(a) = n
<1>1. Len(a) \in Nat /\ Len(b) \in Nat /\ Len(a \o b) = Len(a) + Len(b)
      /\ \A i \in 1 .. Len(a) : (a \o b)[i] = a[i]
  BY ConcatProperties
<1>2. Len(UpTo(n)) = n /\ DOMAIN UpTo(n) = 1 .. n /\ \A i \in 1 .. n : UpTo(n)[i] = i
  BY DEF UpTo
<1>3. Len(a) + Len(b) = n
  BY <1>1, <1>2
<1>4. \A i \in 1 .. Len(a) : a[i] = i
  BY <1>1, <1>2, <1>3
<1>5. a = [i \in 1 .. Len(a) |-> a[i]]
  OBVIOUS
<1>6. a = UpTo(Len(a))
  BY <1>4, <1>5 DEF UpTo
<1>7. b = <<>> => Len(b) = 0
  OBVIOUS
<1> QED BY <1>1, <1>3, <1>6, <1>7

\* The model says one more delta.
LEMMA OneMoreSaid ==
    ASSUME NEW n \in Nat
    PROVE  /\ UpTo(n) \in Seq(Place) /\ Append(UpTo(n), n + 1) = UpTo(n + 1)
           /\ UpTo(0) = <<>>
<1>1. UpTo(n) \in Seq(Place) /\ Len(UpTo(n)) = n /\ \A i \in 1 .. n : UpTo(n)[i] = i
  BY DEF UpTo, Place
<1>2. PICK s \in Seq(Place) : s = UpTo(n)
  BY <1>1
<1>3. PICK t : t = Append(s, n + 1)
  OBVIOUS
<1>4. t \in Seq(Place) /\ Len(t) = n + 1 /\ t[n + 1] = n + 1 /\ \A i \in 1 .. n : t[i] = s[i]
  <2>1. n + 1 \in Place
    BY DEF Place
  <2> QED BY <1>1, <1>2, <1>3, <2>1, AppendProperties
<1>5. \A i \in 1 .. n + 1 : t[i] = i
  <2>1. \A i \in 1 .. n + 1 : i \in 1 .. n \/ i = n + 1
    OBVIOUS
  <2> QED BY <1>1, <1>2, <1>4, <2>1
<1>6. t = [i \in 1 .. n + 1 |-> t[i]]
  BY <1>4
<1>7. t = UpTo(n + 1)
  BY <1>5, <1>6 DEF UpTo
<1>8. UpTo(0) = <<>>
  BY DEF UpTo
<1> QED BY <1>1, <1>2, <1>3, <1>7, <1>8

\* Deltas that follow each other may be grouped either way.
LEMMA DeltasRegroup == \A x, y, z \in Seq(Place) : (x \o y) \o z = x \o (y \o z)
BY Regroup

\* One more delta, whatever the answer is split into.
LEMMA SplitGrows ==
    ASSUME NEW a \in Seq(Place), NEW b \in Seq(Place), NEW n \in Nat, a \o b = UpTo(n)
    PROVE  a \o Append(b, n + 1) = UpTo(n + 1) /\ Append(b, n + 1) \in Seq(Place)
<1>1. n + 1 \in Place
  BY DEF Place
<1>2. <<n + 1>> \in Seq(Place) /\ Append(b, n + 1) = b \o <<n + 1>> /\ Append(b, n + 1) \in Seq(Place)
  BY <1>1, AppendIsConcat, AppendProperties
<1>3. \A x, y, z \in Seq(Place) : (x \o y) \o z = x \o (y \o z)
  BY DeltasRegroup
<1>4. a \o Append(b, n + 1) = (a \o b) \o <<n + 1>>
  <2>1. (a \o b) \o <<n + 1>> = a \o (b \o <<n + 1>>)
    BY <1>2, <1>3, Zenon
  <2> QED BY <1>2, <2>1, Zenon
<1>5. UpTo(n) \o <<n + 1>> = Append(UpTo(n), n + 1)
  <2>1. UpTo(n) \in Seq(Place)
    BY OneMoreSaid
  <2> QED BY <1>1, <2>1, AppendIsConcat
<1> QED BY <1>2, <1>4, <1>5, OneMoreSaid

\* What the page reads goes from the wire to the answer.
LEMMA SplitMoves ==
    ASSUME NEW a \in Seq(Place), NEW d \in Place, NEW b \in Seq(Place)
    PROVE  a \o (<<d>> \o b) = Append(a, d) \o b
<1>1. <<d>> \in Seq(Place) /\ Append(a, d) = a \o <<d>>
  BY AppendIsConcat
<1>2. \A x, y, z \in Seq(Place) : (x \o y) \o z = x \o (y \o z)
  BY DeltasRegroup
<1>3. (a \o <<d>>) \o b = a \o (<<d>> \o b)
  BY <1>1, <1>2, Zenon
<1> QED BY <1>1, <1>3, Zenon

-----------------------------------------------------------------------------
\* The frames of a stream that goes on, and of one that has ended.
Going == {"text", "continued"}

\* The frames after which the page reads no more.
Final == {"error", "DONE"}

\* A stream under way carries nothing else.
GoesOn(w) == \A i \in DOMAIN w : w[i].kind \in Going

\* One that has ended says so, last, and says that the answer was cut.
Ended(w, x) ==
    /\ w # <<>> /\ w[Len(w)].kind \in Final
    /\ \A i \in DOMAIN w : w[i].kind \in Final => i = Len(w)
    /\ w[Len(w)].kind = "DONE" =>
           x.end = "finished" \/ x.incomplete \/ \E i \in DOMAIN w : w[i].kind = "truncated"

\* While the page reads, what it has and what is on its way is what the model said, and
\* so is what the server would send back.
Flowing(x, w, at, before, now) ==
    /\ x.answer \o Carried(w) = UpTo(x.said)
    /\ at = "idle" => Ended(w, x)
    /\ at # "idle" => before \o now = UpTo(x.said) /\ ~x.incomplete /\ GoesOn(w)

\* The stream of the question under way, if there is one.
Streaming ==
    /\ link <=> Sending
    /\ ~link => wire = <<>>
    /\ server = "request" => segment = <<>>
    /\ link => Flowing(Last(thread), wire, server, prior, segment)

\* The inductive invariant.
FollowInv == FollowTyped /\ Exchanges /\ Calls /\ Streaming /\ NextSeesTheAnswer

\* One more frame on a stream that goes on: it still does, or has ended well.
LEMMA SendsOne ==
    ASSUME NEW w \in Seq(Frame), GoesOn(w), NEW f \in Frame
    PROVE  /\ f.kind \in Going => GoesOn(w \o <<f>>)
           /\ \A x : f.kind \in Final /\ (f.kind = "DONE" => x.end = "finished" \/ x.incomplete)
                        => Ended(w \o <<f>>, x)
<1>1. <<f>> \in Seq(Frame) /\ Len(<<f>>) = 1 /\ <<f>>[1] = f
  OBVIOUS
<1>2. PICK n \in Nat : n = Len(w)
  OBVIOUS
<1>3. PICK u \in Seq(Frame) : u = w \o <<f>>
  BY <1>1, ConcatProperties
<1>4. Len(u) = n + 1 /\ u[n + 1] = f /\ \A i \in 1 .. n : u[i] = w[i]
  BY <1>1, <1>2, <1>3, ConcatProperties
<1>5. DOMAIN u = 1 .. n + 1 /\ DOMAIN w = 1 .. n /\ \A i \in 1 .. n + 1 : i \in 1 .. n \/ i = n + 1
  BY <1>2, <1>4
<1>6. f.kind \in Going => GoesOn(u)
  BY <1>4, <1>5 DEF GoesOn
<1>7. ASSUME NEW x, f.kind \in Final, f.kind = "DONE" => x.end = "finished" \/ x.incomplete
      PROVE  Ended(u, x)
  <2>1. u # <<>>
    BY <1>4
  <2>2. \A i \in 1 .. n : u[i].kind \notin Final
    BY <1>4, <1>5 DEF GoesOn, Going, Final
  <2> QED BY <1>4, <1>5, <1>7, <2>1, <2>2 DEF Ended
<1> QED BY <1>3, <1>6, <1>7

\* The server sends the notice of a cut answer, and ends the stream.
LEMMA SendsTwo ==
    ASSUME NEW w \in Seq(Frame), GoesOn(w), NEW x
    PROVE  /\ <<Notice("truncated"), Notice("DONE")>> \in Seq(Frame)
           /\ w \o <<Notice("truncated"), Notice("DONE")>> \in Seq(Frame)
           /\ Ended(w \o <<Notice("truncated"), Notice("DONE")>>, x)
           /\ Carried(w \o <<Notice("truncated"), Notice("DONE")>>) = Carried(w)
<1>1. PICK t \in Frame, d \in Frame :
         t = Notice("truncated") /\ d = Notice("DONE") /\ t.kind = "truncated" /\ d.kind = "DONE"
  BY FramesAre DEF Wordless
<1>2. PICK n \in Nat : n = Len(w)
  OBVIOUS
<1>3. PICK v \in Seq(Frame) : v = Append(w, t)
  BY AppendProperties
<1>4. PICK u \in Seq(Frame) : u = w \o <<t, d>> /\ u = Append(v, d)
  <2>1. w \o <<t, d>> = Append(Append(w, t), d)
    BY TwoMore
  <2>2. Append(v, d) \in Seq(Frame)
    BY AppendProperties
  <2>3. w \o <<t, d>> = Append(v, d)
    BY <1>3, <2>1, Zenon
  <2> QED BY <2>2, <2>3, Zenon
<1>5. Len(u) = n + 2 /\ u[n + 2] = d /\ u[n + 1] = t /\ \A i \in 1 .. n : u[i] = w[i]
  <2>1. Len(v) = n + 1 /\ v[n + 1] = t /\ \A i \in 1 .. n : v[i] = w[i]
    BY <1>2, <1>3, AppendProperties
  <2>2. Len(u) = n + 2 /\ u[n + 2] = d /\ \A i \in 1 .. n + 1 : u[i] = v[i]
    <3>1. u = Append(v, d) /\ Len(v) = n + 1
      BY <1>4, <2>1
    <3>2. Len(u) = Len(v) + 1 /\ u[Len(v) + 1] = d /\ \A i \in 1 .. Len(v) : u[i] = v[i]
      BY <3>1, AppendProperties
    <3> QED BY <3>1, <3>2
  <2>3. n + 1 \in 1 .. n + 1 /\ \A i \in 1 .. n : i \in 1 .. n + 1
    OBVIOUS
  <2> QED BY <2>1, <2>2, <2>3
<1>6. /\ DOMAIN u = 1 .. n + 2 /\ DOMAIN w = 1 .. n
      /\ \A i \in 1 .. n + 2 : i \in 1 .. n \/ i = n + 1 \/ i = n + 2
  BY <1>2, <1>5
<1>7. Ended(u, x)
  <2>1. u # <<>> /\ n + 1 \in DOMAIN u
    BY <1>5, <1>6
  <2>2. \A i \in 1 .. n : u[i].kind \notin Final
    BY <1>5, <1>6 DEF GoesOn, Going, Final
  <2> QED BY <1>1, <1>5, <1>6, <2>1, <2>2 DEF Ended, Final
<1>8. Carried(u) = Carried(w)
  <2>1. \A y \in Seq(Frame), k \in Wordless : Carried(y \o <<Notice(k)>>) = Carried(y)
    BY WordsSent
  <2>2. v = w \o <<t>> /\ u = v \o <<d>>
    BY <1>3, <1>4, AppendIsConcat
  <2>3. Carried(v) = Carried(w)
    BY <1>1, <2>1, <2>2 DEF Wordless
  <2>4. Carried(u) = Carried(v)
    BY <1>1, <2>1, <2>2 DEF Wordless
  <2> QED BY <2>3, <2>4
<1>9. <<t, d>> \in Seq(Frame)
  OBVIOUS
<1> QED BY <1>1, <1>4, <1>7, <1>8, <1>9

\* Taking the first frame away.
LEMMA ReadsOne ==
    ASSUME NEW w \in Seq(Frame), w # <<>>
    PROVE  /\ GoesOn(w) => Head(w).kind \in Going /\ GoesOn(Tail(w))
           /\ \A x, y : Ended(w, x) /\ Head(w).kind \in Final
                => Tail(w) = <<>> /\ (Head(w).kind = "DONE" => x.end = "finished" \/ x.incomplete)
           /\ \A x, y : /\ Ended(w, x) /\ Head(w).kind \notin Final /\ y.end = x.end
                        /\ x.incomplete \/ Head(w).kind = "truncated" => y.incomplete
                => Ended(Tail(w), y)
<1>1. PICK n \in Nat : n + 1 = Len(w)
  <2>1. Len(w) \in Nat /\ Len(w) # 0
    OBVIOUS
  <2>2. Len(w) - 1 \in Nat /\ (Len(w) - 1) + 1 = Len(w)
    BY <2>1
  <2> QED BY <2>2
<1>2. PICK t \in Seq(Frame) : t = Tail(w)
  BY HeadTailProperties
<1>3. /\ Head(w) = w[1] /\ Len(t) = n /\ DOMAIN t = 1 .. n /\ DOMAIN w = 1 .. n + 1
      /\ \A i \in 1 .. n : t[i] = w[i + 1] /\ i + 1 \in 1 .. n + 1
      /\ \A i \in 1 .. n + 1 : i = 1 \/ (i - 1 \in 1 .. n /\ t[i - 1] = w[i])
      /\ 1 \in 1 .. n + 1
  BY <1>1, <1>2, HeadTailProperties
<1>4. GoesOn(w) => Head(w).kind \in Going /\ GoesOn(t)
  BY <1>3 DEF GoesOn
<1>5. ASSUME NEW x, Ended(w, x), Head(w).kind \in Final
      PROVE  t = <<>> /\ (Head(w).kind = "DONE" => x.end = "finished" \/ x.incomplete)
  <2>1. Len(w) = 1 /\ n = 0
    BY <1>1, <1>3, <1>5 DEF Ended
  <2>2. t = <<>>
    BY <1>3, <2>1
  <2>3. \A i \in DOMAIN w : i = 1
    BY <1>3, <2>1
  <2>4. Head(w).kind = "DONE" => \A i \in DOMAIN w : w[i].kind # "truncated"
    BY <1>3, <2>3
  <2> QED BY <1>3, <1>5, <2>1, <2>2, <2>4 DEF Ended
<1>6. ASSUME NEW x, NEW y, Ended(w, x), Head(w).kind \notin Final, y.end = x.end,
             x.incomplete \/ Head(w).kind = "truncated" => y.incomplete
      PROVE  Ended(t, y)
  <2>1. w[n + 1].kind \in Final /\ n # 0
    BY <1>1, <1>3, <1>6 DEF Ended
  <2>2. t # <<>> /\ t[n] = w[n + 1] /\ n \in 1 .. n
    BY <1>3, <2>1
  <2>3. ASSUME NEW i \in 1 .. n, t[i].kind \in Final PROVE i = n
    <3>1. i + 1 \in DOMAIN w /\ w[i + 1].kind \in Final
      BY <1>3, <2>3
    <3>2. i + 1 = Len(w)
      BY <1>6, <3>1 DEF Ended
    <3> QED BY <1>1, <3>2
  <2>4. ASSUME t[n].kind = "DONE"
        PROVE  y.end = "finished" \/ y.incomplete \/ \E i \in DOMAIN t : t[i].kind = "truncated"
    <3>1. x.end = "finished" \/ x.incomplete \/ \E i \in DOMAIN w : w[i].kind = "truncated"
      BY <1>1, <1>6, <2>2, <2>4 DEF Ended
    <3>2. ASSUME NEW i \in DOMAIN w, w[i].kind = "truncated"
          PROVE  y.incomplete \/ \E j \in DOMAIN t : t[j].kind = "truncated"
      BY <1>3, <1>6, <3>2
    <3> QED BY <1>6, <3>1, <3>2
  <2> QED BY <1>3, <2>1, <2>2, <2>3, <2>4 DEF Ended
<1> QED BY <1>2, <1>4, <1>5, <1>6

-----------------------------------------------------------------------------
(* Steps that leave the answer alone. *)

\* It holds when the page opens.
LEMMA FollowBegins == FollowInit => FollowInv
<1> SUFFICES ASSUME FollowInit PROVE FollowInv
  OBVIOUS
<1> USE DEF FollowInit
<1>1. <<>> \in Seq(Exchange) /\ <<>> \in Seq(Frame) /\ <<>> \in Seq(Place) /\ <<>> \in Seq(Message)
  OBVIOUS
<1>2. FollowTyped
  <2>1. 0 \in 0 .. MaxContinuations
    BY FollowUpAssumption
  <2> QED BY <1>1, <2>1 DEF FollowTyped
<1>3. Exchanges /\ NextSeesTheAnswer
  BY DEF Exchanges, NextSeesTheAnswer
<1>4. Calls
  BY DEF Calls
<1>5. Streaming
  BY DEF Streaming, Sending
<1> QED BY <1>2, <1>3, <1>4, <1>5 DEF FollowInv

\* The last exchange is changed.
LEMMA Patched ==
    ASSUME FollowTyped, Exchanges, NextSeesTheAnswer, Sending,
           NEW x \in Exchange, Faithful(x), Patch(x), history' = history
    PROVE  /\ thread' \in Seq(Exchange) /\ thread' # <<>> /\ Last(thread') = x
           /\ Exchanges' /\ NextSeesTheAnswer' /\ (Sending' <=> x.state = "pending")
<1>1. PICK n \in Nat : n = Len(thread) /\ n # 0
  BY DEF FollowTyped, Sending
<1>2. /\ thread \in Seq(Exchange) /\ DOMAIN thread = 1 .. n /\ n \in 1 .. n
      /\ thread' = [thread EXCEPT ![n] = x]
  BY <1>1 DEF FollowTyped, Patch
<1>3. /\ thread' \in Seq(Exchange) /\ Len(thread') = n /\ DOMAIN thread' = 1 .. n /\ thread'[n] = x
      /\ \A i \in 1 .. n : i # n => thread'[i] = thread[i]
  BY <1>2
<1>4. thread' # <<>> /\ Last(thread') = x
  BY <1>1, <1>3 DEF Last
<1>5. Sending' <=> x.state = "pending"
  BY <1>4 DEF Sending
<1>6. Exchanges'
  <2>1. \A i \in 1 .. n : Faithful(thread'[i])
    BY <1>2, <1>3 DEF Exchanges
  <2>2. \A i \in 1 .. n : i < n => thread'[i].state # "pending"
    BY <1>1, <1>2, <1>3 DEF Exchanges
  <2> QED BY <1>3, <2>1, <2>2 DEF Exchanges
<1>7. NextSeesTheAnswer'
  <2> SUFFICES ASSUME n > 1
               PROVE  thread'[n - 1] = thread[n - 1]
    BY <1>1, <1>3 DEF NextSeesTheAnswer
  <2> QED BY <1>3
<1> QED BY <1>3, <1>4, <1>5, <1>6, <1>7

\* A question is asked: the thread grows by an exchange that has no answer.
LEMMA AskKeepsFollowInv == FollowInv /\ Ask => FollowInv'
<1> SUFFICES ASSUME FollowInv, Ask PROVE FollowInv'
  OBVIOUS
<1>1. /\ ~Sending /\ thread' = Append(thread, Asked) /\ history' = KeptHistory(Messages(thread))
      /\ prior' = <<>> /\ segment' = <<>> /\ capped' = TRUE
      /\ continuations' = 0 /\ calls' = 0 /\ link' = TRUE
      /\ \/ server' = "request" /\ wire' = <<>>
         \/ server' = "idle" /\ wire' = <<Notice("error")>>
  BY DEF Ask
<1>2. thread \in Seq(Exchange) /\ Exchanges
  BY DEF FollowInv, FollowTyped
<1>3. <<>> \in Seq(Frame) /\ <<>> \in Seq(Place)
  OBVIOUS
<1>4. /\ Asked \in Exchange /\ Faithful(Asked) /\ Asked.state = "pending" /\ Asked.answer = <<>>
      /\ Asked.said = 0 /\ Asked.incomplete = FALSE
  <2>1. UpTo(0) = <<>> /\ Len(<<>>) = 0
    BY OneMoreSaid
  <2> QED BY <1>3, <2>1, FollowUpAssumption DEF Asked, Exchange, Faithful
<1>5. PICK n \in Nat : n = Len(thread)
  BY <1>2
<1>6. /\ thread' \in Seq(Exchange) /\ Len(thread') = n + 1 /\ thread'[n + 1] = Asked
      /\ \A i \in 1 .. n : thread'[i] = thread[i]
      /\ DOMAIN thread = 1 .. n /\ DOMAIN thread' = 1 .. n + 1
  BY <1>1, <1>2, <1>4, <1>5, AppendProperties
<1>7. thread' # <<>> /\ Last(thread') = Asked /\ Sending'
  BY <1>4, <1>6 DEF Last, Sending
<1>8. /\ wire' \in Seq(Frame) /\ Carried(wire') = <<>>
      /\ server' = "request" => GoesOn(wire')
      /\ server' = "idle" => Ended(wire', Asked)
  <2>1. CASE server' = "request" /\ wire' = <<>>
    <3>1. Carried(<<>>) = <<>>
      BY <1>3, CarriedContributed, ContributedNothing
    <3> QED BY <1>3, <2>1, <3>1 DEF GoesOn
  <2>2. CASE server' = "idle" /\ wire' = <<Notice("error")>>
    <3>1. PICK f \in Frame : f = Notice("error") /\ f.kind = "error" /\ Carried(<<f>>) = <<>> /\ <<f>> \in Seq(Frame)
      BY FramesAre DEF Wordless
    <3>2. <<>> \o <<f>> = <<f>> /\ GoesOn(<<>>)
      BY DEF GoesOn
    <3>3. Ended(<<>> \o <<f>>, Asked)
      BY <1>3, <3>1, <3>2, SendsOne DEF Final
    <3> QED BY <2>2, <3>1, <3>2, <3>3
  <2> QED BY <1>1, <2>1, <2>2
<1>9. KeptHistory(Messages(thread)) \in Seq(Message)
  BY <1>2, AnswerIsShown
<1>10. FollowTyped'
  BY <1>1, <1>3, <1>6, <1>8, <1>9, FollowUpAssumption DEF FollowTyped
<1>11. Exchanges'
  <2>1. \A i \in 1 .. n + 1 : i \in 1 .. n \/ i = n + 1
    OBVIOUS
  <2>2. \A i \in 1 .. n : thread[i].state # "pending"
    <3>1. \A i \in 1 .. n : i < n => thread[i].state # "pending"
      BY <1>2, <1>5, <1>6 DEF Exchanges
    <3>2. n # 0 => thread[n].state # "pending"
      BY <1>1, <1>2, <1>5 DEF Sending, Last
    <3> QED BY <3>1, <3>2
  <2> QED BY <1>2, <1>4, <1>6, <2>1, <2>2 DEF Exchanges
<1>12. Calls'
  BY <1>1 DEF Calls
<1>13. Streaming'
  <2>1. <<>> \o <<>> = <<>> /\ UpTo(0) = <<>>
    BY OneMoreSaid
  <2>2. Flowing(Asked, wire', server', prior', segment')
    BY <1>1, <1>4, <1>8, <2>1 DEF Flowing
  <2> QED BY <1>1, <1>7, <2>2 DEF Streaming
<1>14. NextSeesTheAnswer'
  <2> SUFFICES ASSUME n # 0, thread[n].answer # <<>>, Len(thread[n].answer) <= HistoryLength,
                      HistoryTurns > 0
               PROVE  history' # <<>> /\ Last(history').text = thread[n].answer
    BY <1>6 DEF NextSeesTheAnswer
  <2>1. thread # <<>> /\ Last(thread) = thread[n]
    BY <1>5 DEF Last
  <2> QED BY <1>1, <1>2, <2>1, AnswerIsShown
<1> QED BY <1>10, <1>11, <1>12, <1>13, <1>14 DEF FollowInv

\* A step that leaves the thread alone.
LEMMA ThreadKept ==
    ASSUME Exchanges, NextSeesTheAnswer, UNCHANGED <<thread, history>>
    PROVE  Exchanges' /\ NextSeesTheAnswer' /\ (Sending' <=> Sending)
BY DEF Exchanges, NextSeesTheAnswer, Sending

\* The model takes the request.
LEMMA BeginKeepsFollowInv == FollowInv /\ Begin => FollowInv'
<1> SUFFICES ASSUME FollowInv, Begin PROVE FollowInv'
  OBVIOUS
<1>1. /\ server = "request" /\ server' = "segment" /\ segment' = <<>> /\ calls' = calls + 1
      /\ UNCHANGED <<thread, history, prior, capped, continuations, wire, link>>
  BY DEF Begin
<1>2. FollowTyped /\ Exchanges /\ Calls /\ Streaming /\ NextSeesTheAnswer
  BY DEF FollowInv
<1>3. <<>> \in Seq(Place)
  OBVIOUS
<1>4. FollowTyped'
  BY <1>1, <1>2, <1>3 DEF FollowTyped
<1>5. Calls'
  BY <1>1, <1>2, FollowUpAssumption DEF Calls, FollowTyped
<1>6. Streaming'
  BY <1>1, <1>2 DEF Streaming, Flowing, Sending
<1> QED BY <1>1, <1>2, <1>4, <1>5, <1>6, ThreadKept DEF FollowInv

\* It refuses max_tokens, which later requests leave out.
LEMMA DowngradeKeepsFollowInv == FollowInv /\ Downgrade => FollowInv'
<1> SUFFICES ASSUME FollowInv, Downgrade PROVE FollowInv'
  OBVIOUS
<1>1. /\ server = "request" /\ capped /\ capped' = FALSE /\ calls' = calls + 1
      /\ UNCHANGED <<thread, server, history, prior, segment, continuations, wire, link>>
  BY DEF Downgrade
<1>2. FollowTyped /\ Exchanges /\ Calls /\ Streaming /\ NextSeesTheAnswer
  BY DEF FollowInv
<1>4. FollowTyped'
  <2>1. capped' \in BOOLEAN
    BY <1>1, Zenon
  <2>2. calls' \in Nat
    BY <1>1, <1>2 DEF FollowTyped
  <2>3. UNCHANGED <<thread, server, history, prior, segment, continuations, wire, link>>
    BY <1>1
  <2> QED BY <1>2, <2>1, <2>2, <2>3 DEF FollowTyped
<1>5. Calls'
  <2>1. calls <= continuations + 0 + 0 /\ calls \in Nat /\ continuations \in Nat
    BY <1>1, <1>2, FollowUpAssumption DEF Calls, FollowTyped
  <2>2. calls + 1 <= continuations + 1 + 0
    BY <2>1
  <2>3. calls' <= continuations' + 1 + (IF server' = "request" THEN 0 ELSE 1)
    BY <1>1, <2>2
  <2> QED BY <1>1, <2>3 DEF Calls
<1>6. Streaming'
  BY <1>1, <1>2 DEF Streaming, Sending
<1> QED BY <1>1, <1>2, <1>4, <1>5, <1>6, ThreadKept DEF FollowInv

\* The server notices that the page has gone.
LEMMA NoticeKeepsFollowInv == FollowInv /\ NoticeDisconnect => FollowInv'
<1> SUFFICES ASSUME FollowInv, NoticeDisconnect PROVE FollowInv'
  OBVIOUS
<1>1. /\ ~link /\ server # "idle" /\ server' = "idle"
      /\ UNCHANGED <<thread, history, prior, segment, capped, continuations, calls, wire, link>>
  BY DEF NoticeDisconnect
<1>2. FollowTyped /\ Exchanges /\ Calls /\ Streaming /\ NextSeesTheAnswer
  BY DEF FollowInv
<1>4. FollowTyped'
  BY <1>1, <1>2 DEF FollowTyped
<1>5. Calls'
  BY <1>1, <1>2, FollowUpAssumption DEF Calls, FollowTyped
<1>6. Streaming'
  BY <1>1, <1>2 DEF Streaming, Sending
<1> QED BY <1>1, <1>2, <1>4, <1>5, <1>6, ThreadKept DEF FollowInv

\* The stream of an open link ends with a frame of its own.
LEMMA ClosesWell ==
    ASSUME FollowTyped, Streaming, server # "idle", NEW k \in Final, CloseWith(<<Notice(k)>>),
           NEW x, x.answer = Last(thread).answer, x.said = Last(thread).said,
           k = "DONE" => x.end = "finished"
    PROVE  /\ wire' \in Seq(Frame) /\ server' = "idle" /\ (~link => wire' = <<>>)
           /\ link => Flowing(x, wire', "idle", prior', segment')
<1>1. wire \in Seq(Frame) /\ server' = "idle" /\ wire' = IF link THEN wire \o <<Notice(k)>> ELSE wire
  BY DEF FollowTyped, CloseWith, Frames
<1>2. PICK f \in Frame : f = Notice(k) /\ f.kind = k
  BY FramesAre DEF Wordless, Final
<1>3. wire \o <<f>> \in Seq(Frame) /\ Carried(wire \o <<f>>) = Carried(wire)
  BY <1>1, <1>2, WordsSent DEF Wordless, Final
<1>4. ASSUME link PROVE Flowing(x, wire', "idle", prior', segment')
  <2>1. Flowing(Last(thread), wire, server, prior, segment)
    BY <1>4 DEF Streaming
  <2>2. GoesOn(wire) /\ Last(thread).answer \o Carried(wire) = UpTo(Last(thread).said)
    BY <2>1 DEF Flowing
  <2>3. Ended(wire \o <<f>>, x)
    BY <1>1, <1>2, <2>2, SendsOne
  <2> QED BY <1>1, <1>2, <1>3, <1>4, <2>2, <2>3 DEF Flowing
<1> QED BY <1>1, <1>2, <1>3, <1>4 DEF Streaming

\* A request fails: the stream ends with an error.
LEMMA FailKeepsFollowInv == FollowInv /\ FailSegment => FollowInv'
<1> SUFFICES ASSUME FollowInv, FailSegment PROVE FollowInv'
  OBVIOUS
<1>1. /\ server \in {"request", "segment"} /\ CloseWith(<<Notice("error")>>)
      /\ calls' = calls + (IF server = "request" THEN 1 ELSE 0)
      /\ UNCHANGED <<thread, history, prior, segment, capped, continuations, link>>
  BY DEF FailSegment
<1>2. FollowTyped /\ Exchanges /\ Calls /\ Streaming /\ NextSeesTheAnswer
  BY DEF FollowInv
<1>3. /\ wire' \in Seq(Frame) /\ server' = "idle" /\ (~link => wire' = <<>>)
      /\ link => Flowing(Last(thread), wire', "idle", prior', segment')
  <2>1. "error" \in Final /\ "error" # "DONE" /\ server # "idle"
    BY <1>1 DEF Final
  <2> QED BY <1>1, <1>2, <2>1, ClosesWell
<1>4. FollowTyped'
  BY <1>1, <1>2, <1>3 DEF FollowTyped
<1>5. Calls'
  BY <1>1, <1>2, <1>3, FollowUpAssumption DEF Calls, FollowTyped
<1>6. Streaming'
  BY <1>1, <1>2, <1>3 DEF Streaming, Sending
<1> QED BY <1>1, <1>2, <1>4, <1>5, <1>6, ThreadKept DEF FollowInv

-----------------------------------------------------------------------------
(* Steps that add to it, end it or read it. *)

\* The exchange that is under way.
LEMMA Pending ==
    ASSUME FollowTyped, Sending
    PROVE  Last(thread) \in Exchange /\ Last(thread).state = "pending"
<1>1. PICK n \in Nat : n = Len(thread) /\ n # 0
  BY DEF FollowTyped, Sending
<1>2. thread[n] \in Exchange
  BY <1>1 DEF FollowTyped
<1> QED BY <1>1, <1>2 DEF Last, Sending

\* One more delta.
LEMMA SayKeepsFollowInv == FollowInv /\ Say => FollowInv'
<1> SUFFICES ASSUME FollowInv, Say PROVE FollowInv'
  OBVIOUS
<1>2. FollowTyped /\ Exchanges /\ Calls /\ Streaming /\ NextSeesTheAnswer
  BY DEF FollowInv
<1>3. PICK x \in Exchange : x = Last(thread) /\ x.state = "pending" /\ Sending
  BY <1>2, Pending DEF Say, Streaming
<1>4. PICK n \in Nat : n = x.said /\ n < MaxDeltas
  BY <1>3, FollowUpAssumption DEF Say, Exchange
<1>5. PICK y : y = [x EXCEPT !.said = n + 1]
  OBVIOUS
<1>6. /\ server = "segment" /\ link /\ segment' = Append(segment, n + 1)
      /\ Frames(<<Delta(n + 1)>>) /\ Patch(y)
      /\ UNCHANGED <<server, history, prior, capped, continuations, calls, link>>
  BY <1>3, <1>4, <1>5 DEF Say
<1>7. /\ y \in Exchange /\ y.answer = x.answer /\ y.said = n + 1 /\ y.state = "pending"
      /\ y.incomplete = x.incomplete /\ Faithful(y)
  <2>1. y \in Exchange /\ y.answer = x.answer /\ y.said = n + 1 /\ y.state = x.state
        /\ y.incomplete = x.incomplete
    BY <1>4, <1>5, FollowUpAssumption DEF Exchange
  <2>2. x.answer = UpTo(Len(x.answer))
    BY <1>2, <1>3 DEF Exchanges, Faithful, Sending, Last, FollowTyped
  <2> QED BY <1>3, <2>1, <2>2 DEF Faithful
<1>8. /\ thread' \in Seq(Exchange) /\ thread' # <<>> /\ Last(thread') = y
      /\ Exchanges' /\ NextSeesTheAnswer' /\ Sending'
  BY <1>2, <1>3, <1>6, <1>7, Patched
<1>9. wire \in Seq(Frame) /\ prior \in Seq(Place) /\ segment \in Seq(Place) /\ x.answer \in Seq(Place)
      /\ n + 1 \in Place
  BY <1>2 DEF FollowTyped, Exchange, Place
<1>10. /\ x.answer \o Carried(wire) = UpTo(n) /\ prior \o segment = UpTo(n)
       /\ ~x.incomplete /\ GoesOn(wire)
  BY <1>2, <1>3, <1>4, <1>6 DEF Streaming, Flowing
<1>11. PICK f \in Frame : f = Delta(n + 1) /\ f.kind = "text"
  BY <1>9, FramesAre
<1>12. wire' = wire \o <<f>> /\ wire' \in Seq(Frame) /\ Carried(wire') = Append(Carried(wire), n + 1)
  <2>1. wire' = wire \o <<f>>
    BY <1>6, <1>11 DEF Frames
  <2>2. \A k \in Place : wire \o <<Delta(k)>> \in Seq(Frame)
                         /\ Carried(wire \o <<Delta(k)>>) = Append(Carried(wire), k)
    BY <1>9, WordsSent
  <2> QED BY <1>9, <1>11, <2>1, <2>2
<1>13. GoesOn(wire')
  BY <1>9, <1>10, <1>11, <1>12, SendsOne DEF Going
<1>14. /\ x.answer \o Append(Carried(wire), n + 1) = UpTo(n + 1)
       /\ prior \o Append(segment, n + 1) = UpTo(n + 1)
       /\ Append(segment, n + 1) \in Seq(Place)
  <2>1. Carried(wire) \in Seq(Place)
    BY <1>9, CarriedContributed
  <2> QED BY <1>9, <1>10, <2>1, SplitGrows
<1>15. FollowTyped'
  BY <1>2, <1>6, <1>8, <1>12, <1>14 DEF FollowTyped
<1>16. Calls'
  BY <1>2, <1>6 DEF Calls
<1>17. Flowing(y, wire', server', prior', segment')
  BY <1>6, <1>7, <1>10, <1>12, <1>13, <1>14 DEF Flowing
<1>18. Streaming'
  BY <1>6, <1>8, <1>17 DEF Streaming
<1> QED BY <1>8, <1>15, <1>16, <1>18 DEF FollowInv

\* A segment ends: the answer is continued, cut or finished.
LEMMA EndKeepsFollowInv == FollowInv /\ EndSegment => FollowInv'
<1> SUFFICES ASSUME FollowInv, EndSegment PROVE FollowInv'
  OBVIOUS
<1>2. FollowTyped /\ Exchanges /\ Calls /\ Streaming /\ NextSeesTheAnswer
  BY DEF FollowInv
<1>3. PICK x \in Exchange : x = Last(thread) /\ x.state = "pending" /\ Sending
  BY <1>2, Pending DEF EndSegment, Streaming
<1>4. PICK end \in Ends :
          /\ Patch([Last(thread) EXCEPT !.end = IF end.reason = "length" THEN "cut"
                                               ELSE IF end.reason = "stop" \/ end.done
                                               THEN "finished" ELSE "lost"])
          /\ IF CutShort(end) THEN
                /\ CloseWith(<<Notice("error")>>)
                /\ UNCHANGED <<prior, continuations>>
             ELSE
                /\ prior' = AnswerSoFar
                /\ IF end.reason # "length" THEN
                      CloseWith(<<Notice("DONE")>>) /\ UNCHANGED continuations
                   ELSE IF continuations >= MaxContinuations THEN
                      /\ CloseWith(<<Notice("truncated"), Notice("DONE")>>)
                      /\ UNCHANGED continuations
                   ELSE
                      /\ server' = "request" /\ continuations' = continuations + 1
                      /\ Frames(<<Notice("continued")>>)
  BY DEF EndSegment
<1>5. /\ server = "segment" /\ link /\ segment' = <<>>
      /\ UNCHANGED <<history, capped, calls, link>>
  BY DEF EndSegment
<1>6. PICK e \in {"cut", "finished", "lost"} :
          /\ e = IF end.reason = "length" THEN "cut"
                 ELSE IF end.reason = "stop" \/ end.done THEN "finished" ELSE "lost"
          /\ end.reason # "length" /\ ~CutShort(end) => e = "finished"
  <2>1. end.reason \in {"stop", "length", "none"}
    BY DEF Ends
  <2> QED BY <2>1 DEF CutShort
<1>7. PICK y : y = [x EXCEPT !.end = e]
  OBVIOUS
<1>8. Patch(y)
  BY <1>3, <1>4, <1>6, <1>7
<1>9. /\ y \in Exchange /\ y.answer = x.answer /\ y.said = x.said /\ y.state = "pending"
      /\ y.incomplete = x.incomplete /\ y.end = e /\ Faithful(y)
  <2>1. y \in Exchange /\ y.answer = x.answer /\ y.said = x.said /\ y.state = x.state
        /\ y.incomplete = x.incomplete /\ y.end = e
    BY <1>6, <1>7 DEF Exchange
  <2>2. x.answer = UpTo(Len(x.answer))
    BY <1>2, <1>3 DEF Exchanges, Faithful, Sending, Last, FollowTyped
  <2> QED BY <1>3, <2>1, <2>2 DEF Faithful
<1>10. /\ thread' \in Seq(Exchange) /\ thread' # <<>> /\ Last(thread') = y
       /\ Exchanges' /\ NextSeesTheAnswer' /\ Sending'
  BY <1>2, <1>3, <1>5, <1>8, <1>9, Patched
<1>11. /\ wire \in Seq(Frame) /\ prior \in Seq(Place) /\ segment \in Seq(Place)
       /\ <<>> \in Seq(Place) /\ prior \o segment \in Seq(Place)
       /\ (prior \o segment) \o <<>> = prior \o segment
  <2>1. wire \in Seq(Frame) /\ prior \in Seq(Place) /\ segment \in Seq(Place)
    BY <1>2 DEF FollowTyped
  <2>2. prior \o segment \in Seq(Place)
    BY <2>1, ConcatProperties
  <2> QED BY <2>1, <2>2, ConcatEmptySeq
<1>12. /\ x.answer \o Carried(wire) = UpTo(x.said) /\ prior \o segment = UpTo(x.said)
       /\ ~x.incomplete /\ GoesOn(wire)
  BY <1>2, <1>3, <1>5 DEF Streaming, Flowing
\* The stream ends, in one way or another.
<1>13. ASSUME wire' \in Seq(Frame), server' = "idle", prior' \in Seq(Place),
              Flowing(y, wire', "idle", prior', segment'), UNCHANGED continuations
       PROVE  FollowInv'
  <2>1. FollowTyped'
    BY <1>2, <1>5, <1>10, <1>11, <1>13 DEF FollowTyped
  <2>2. Calls'
    BY <1>2, <1>5, <1>13 DEF Calls
  <2>3. Streaming'
    BY <1>5, <1>10, <1>13 DEF Streaming
  <2> QED BY <1>10, <2>1, <2>2, <2>3 DEF FollowInv
<1>14. CASE CutShort(end)
  <2>1. CloseWith(<<Notice("error")>>) /\ UNCHANGED <<prior, continuations>>
    BY <1>4, <1>14
  <2>2. "error" \in Final /\ "error" # "DONE" /\ server # "idle"
    BY <1>5 DEF Final
  <2>3. wire' \in Seq(Frame) /\ server' = "idle" /\ Flowing(y, wire', "idle", prior', segment')
    BY <1>2, <1>3, <1>5, <1>9, <2>1, <2>2, ClosesWell
  <2> QED BY <1>11, <1>13, <2>1, <2>3
<1>15. CASE ~CutShort(end) /\ end.reason # "length"
  <2>1. CloseWith(<<Notice("DONE")>>) /\ UNCHANGED continuations /\ prior' = prior \o segment
        /\ y.end = "finished"
    BY <1>4, <1>6, <1>9, <1>15 DEF AnswerSoFar
  <2>2. "DONE" \in Final /\ server # "idle"
    BY <1>5 DEF Final
  <2>3. wire' \in Seq(Frame) /\ server' = "idle" /\ Flowing(y, wire', "idle", prior', segment')
    BY <1>2, <1>3, <1>5, <1>9, <2>1, <2>2, ClosesWell
  <2> QED BY <1>11, <1>13, <2>1, <2>3
<1>16. CASE ~CutShort(end) /\ end.reason = "length" /\ continuations >= MaxContinuations
  <2>1. /\ CloseWith(<<Notice("truncated"), Notice("DONE")>>) /\ UNCHANGED continuations
        /\ prior' = prior \o segment
    BY <1>4, <1>16 DEF AnswerSoFar
  <2>2. server' = "idle" /\ wire' = wire \o <<Notice("truncated"), Notice("DONE")>>
    BY <1>5, <2>1 DEF CloseWith, Frames
  <2>3. wire' \in Seq(Frame) /\ Carried(wire') = Carried(wire) /\ Ended(wire', y)
    BY <1>11, <1>12, <2>2, SendsTwo
  <2>4. Flowing(y, wire', "idle", prior', segment')
    BY <1>9, <1>12, <2>3 DEF Flowing
  <2> QED BY <1>11, <1>13, <2>1, <2>2, <2>3, <2>4
<1>17. CASE ~CutShort(end) /\ end.reason = "length" /\ ~(continuations >= MaxContinuations)
  <2>1. /\ server' = "request" /\ continuations' = continuations + 1
        /\ Frames(<<Notice("continued")>>) /\ prior' = prior \o segment
    BY <1>4, <1>17 DEF AnswerSoFar
  <2>2. PICK f \in Frame : f = Notice("continued") /\ f.kind = "continued"
    BY FramesAre DEF Wordless
  <2>3. wire' = wire \o <<f>> /\ wire' \in Seq(Frame) /\ Carried(wire') = Carried(wire)
    <3>1. wire' = wire \o <<f>>
      BY <1>5, <2>1, <2>2 DEF Frames
    <3>2. \A k \in Wordless : wire \o <<Notice(k)>> \in Seq(Frame)
                              /\ Carried(wire \o <<Notice(k)>>) = Carried(wire)
      BY <1>11, WordsSent
    <3>3. "continued" \in Wordless
      BY DEF Wordless
    <3> QED BY <2>2, <3>1, <3>2, <3>3
  <2>4. GoesOn(wire')
    BY <1>11, <1>12, <2>2, <2>3, SendsOne DEF Going
  <2>5. Flowing(y, wire', server', prior', segment')
    BY <1>5, <1>9, <1>11, <1>12, <2>1, <2>3, <2>4 DEF Flowing
  <2>6. continuations' \in 0 .. MaxContinuations
    BY <1>2, <1>17, <2>1, FollowUpAssumption DEF FollowTyped
  <2>7. FollowTyped'
    BY <1>2, <1>5, <1>10, <1>11, <2>1, <2>3, <2>6 DEF FollowTyped
  <2>8. Calls'
    BY <1>2, <1>5, <2>1, FollowUpAssumption DEF Calls, FollowTyped
  <2>9. Streaming'
    BY <1>5, <1>10, <2>5 DEF Streaming
  <2> QED BY <1>10, <2>7, <2>8, <2>9 DEF FollowInv
<1> QED BY <1>14, <1>15, <1>16, <1>17

\* An exchange that has failed.
LEMMA FailedIs ==
    ASSUME FollowTyped, Exchanges, Sending
    PROVE  /\ Failed \in Exchange /\ Failed.state = "failed" /\ Faithful(Failed)
<1>1. PICK x \in Exchange : x = Last(thread)
  BY Pending
<1>2. /\ Failed \in Exchange /\ Failed.state = "failed" /\ Failed.answer = x.answer
  BY <1>1 DEF Failed, Exchange
<1>3. x.answer = UpTo(Len(x.answer))
  BY <1>1 DEF Exchanges, Faithful, Sending, Last, FollowTyped
<1> QED BY <1>2, <1>3 DEF Faithful

\* The connection is lost.
LEMMA LoseKeepsFollowInv == FollowInv /\ LoseLink => FollowInv'
<1> SUFFICES ASSUME FollowInv, LoseLink PROVE FollowInv'
  OBVIOUS
<1>1. Sending /\ link' = FALSE /\ wire' = <<>> /\ Patch(Failed) /\ UNCHANGED serverSide
  BY DEF LoseLink
<1>2. FollowTyped /\ Exchanges /\ Calls /\ Streaming /\ NextSeesTheAnswer
  BY DEF FollowInv
<1>3. /\ thread' \in Seq(Exchange) /\ thread' # <<>>
      /\ Exchanges' /\ NextSeesTheAnswer' /\ ~Sending'
  BY <1>1, <1>2, FailedIs, Patched DEF serverSide
<1>4. <<>> \in Seq(Frame)
  OBVIOUS
<1>5. FollowTyped'
  BY <1>1, <1>2, <1>3, <1>4 DEF FollowTyped, serverSide
<1>6. Calls'
  BY <1>1, <1>2 DEF Calls, serverSide
<1>7. Streaming'
  BY <1>1, <1>2, <1>3 DEF Streaming, serverSide
<1> QED BY <1>3, <1>5, <1>6, <1>7 DEF FollowInv

\* The page reads a frame.
LEMMA ReadKeepsFollowInv == FollowInv /\ ReadFrame => FollowInv'
<1> SUFFICES ASSUME FollowInv, ReadFrame PROVE FollowInv'
  OBVIOUS
<1>2. FollowTyped /\ Exchanges /\ Calls /\ Streaming /\ NextSeesTheAnswer
  BY DEF FollowInv
<1>3. PICK x \in Exchange : x = Last(thread) /\ x.state = "pending" /\ Sending
  BY <1>2, Pending DEF ReadFrame
<1>4. wire # <<>> /\ wire \in Seq(Frame)
  BY <1>2 DEF ReadFrame, FollowTyped
<1>5. PICK f \in Frame : f = Head(wire)
  BY <1>4, HeadRead
<1>6. PICK y : y = Shown(f)
  OBVIOUS
<1>7. /\ Patch(y) /\ wire' = Tail(wire) /\ link' = (link /\ f.kind \notin Final)
      /\ UNCHANGED serverSide
  BY <1>5, <1>6 DEF ReadFrame, Final
<1>8. /\ wire' \in Seq(Frame) /\ Carried(wire') \in Seq(Place)
      /\ Carried(wire) = (IF f.kind = "text" THEN <<f.delta>> ELSE <<>>) \o Carried(wire')
  BY <1>4, <1>5, <1>7, HeadRead
<1>9. /\ GoesOn(wire) => f.kind \in Going /\ GoesOn(wire')
      /\ \A u, v : Ended(wire, u) /\ f.kind \in Final
            => wire' = <<>> /\ (f.kind = "DONE" => u.end = "finished" \/ u.incomplete)
      /\ \A u, v : /\ Ended(wire, u) /\ f.kind \notin Final /\ v.end = u.end
                   /\ u.incomplete \/ f.kind = "truncated" => v.incomplete
            => Ended(wire', v)
  BY <1>4, <1>5, <1>7, ReadsOne
<1>10. link /\ Flowing(x, wire, server, prior, segment)
  BY <1>2, <1>3 DEF Streaming
<1>11. x.answer \in Seq(Place) /\ x.said \in Nat /\ Carried(wire) \in Seq(Place)
  BY <1>4, CarriedContributed, FollowUpAssumption DEF Exchange
<1>12. /\ x.answer \o Carried(wire) = UpTo(x.said) /\ x.answer = UpTo(Len(x.answer))
       /\ f.kind # "text" => Carried(wire) = Carried(wire')
  <2>1. x.answer \o Carried(wire) = UpTo(x.said)
    BY <1>10 DEF Flowing
  <2>2. x.answer = UpTo(Len(x.answer))
    BY <1>11, <2>1, BeginningOfSaid
  <2>3. <<>> \o Carried(wire') = Carried(wire')
    BY <1>8, ConcatEmptySeq
  <2> QED BY <1>8, <2>1, <2>2, <2>3
\* What is left to prove, of the exchange and of the stream.
<1>13. ASSUME y \in Exchange, Faithful(y), y.state = "pending" <=> f.kind \notin Final,
              f.kind \in Final => wire' = <<>>,
              f.kind \notin Final => Flowing(y, wire', server, prior, segment)
       PROVE  FollowInv'
  <2>1. /\ thread' \in Seq(Exchange) /\ thread' # <<>> /\ Last(thread') = y
        /\ Exchanges' /\ NextSeesTheAnswer' /\ (Sending' <=> y.state = "pending")
    BY <1>2, <1>3, <1>7, <1>13, Patched DEF serverSide
  <2>2. link' \in BOOLEAN /\ (link' <=> f.kind \notin Final)
    BY <1>7, <1>10
  <2>3. FollowTyped'
    BY <1>2, <1>7, <1>8, <2>1, <2>2 DEF FollowTyped, serverSide
  <2>4. Calls'
    BY <1>2, <1>7 DEF Calls, serverSide
  <2>5. Streaming'
    BY <1>2, <1>7, <1>13, <2>1, <2>2 DEF Streaming, serverSide
  <2> QED BY <2>1, <2>3, <2>4, <2>5 DEF FollowInv
<1>14. CASE f.kind = "text"
  <2>1. y = [x EXCEPT !.answer = Append(x.answer, f.delta)]
    BY <1>3, <1>6, <1>14 DEF Shown
  <2>2. f.delta \in Place /\ Append(x.answer, f.delta) \in Seq(Place)
    BY <1>11, AppendProperties DEF Frame
  <2>3. /\ y \in Exchange /\ y.answer = Append(x.answer, f.delta) /\ y.said = x.said
        /\ y.state = "pending" /\ y.incomplete = x.incomplete /\ y.end = x.end
    BY <1>3, <2>1, <2>2 DEF Exchange
  <2>4. y.answer \o Carried(wire') = UpTo(y.said)
    <3>1. Carried(wire) = <<f.delta>> \o Carried(wire')
      BY <1>8, <1>14
    <3>2. x.answer \o (<<f.delta>> \o Carried(wire')) = Append(x.answer, f.delta) \o Carried(wire')
      BY <1>8, <1>11, <2>2, SplitMoves
    <3> QED BY <1>12, <2>3, <3>1, <3>2, Zenon
  <2>5. Faithful(y)
    <3>1. y.answer = UpTo(Len(y.answer))
      BY <1>8, <1>11, <2>2, <2>3, <2>4, BeginningOfSaid
    <3> QED BY <2>3, <3>1 DEF Faithful
  <2>6. f.kind \notin Final /\ f.kind # "truncated"
    BY <1>14 DEF Final
  <2>7. Flowing(y, wire', server, prior, segment)
    BY <1>9, <1>10, <2>3, <2>4, <2>6 DEF Flowing
  <2> QED BY <1>13, <2>3, <2>5, <2>6, <2>7
<1>15. CASE f.kind = "truncated"
  <2>1. y = [x EXCEPT !.incomplete = TRUE]
    BY <1>3, <1>6, <1>15 DEF Shown, SaysIncomplete
  <2>2. /\ y \in Exchange /\ y.answer = x.answer /\ y.said = x.said
        /\ y.state = "pending" /\ y.incomplete /\ y.end = x.end
    BY <1>3, <2>1 DEF Exchange
  <2>3. f.kind \notin Final /\ f.kind \notin Going /\ f.kind # "text"
    BY <1>15 DEF Final, Going
  <2>4. Faithful(y)
    BY <1>12, <2>2 DEF Faithful
  <2>5. server = "idle"
    BY <1>9, <1>10, <2>3 DEF Flowing
  <2>6. Flowing(y, wire', server, prior, segment)
    BY <1>9, <1>10, <1>12, <2>2, <2>3, <2>5 DEF Flowing
  <2> QED BY <1>13, <2>2, <2>3, <2>4, <2>6
<1>16. CASE f.kind = "continued"
  <2>1. y = x
    BY <1>3, <1>6, <1>16 DEF Shown, SaysIncomplete
  <2>2. f.kind \notin Final /\ f.kind # "truncated" /\ f.kind # "text"
    BY <1>16 DEF Final
  <2>3. Faithful(y)
    BY <1>3, <1>12, <2>1 DEF Faithful
  <2>4. Flowing(y, wire', server, prior, segment)
    BY <1>9, <1>10, <1>12, <2>1, <2>2 DEF Flowing
  <2> QED BY <1>3, <1>13, <2>1, <2>2, <2>3, <2>4
<1>17. ASSUME f.kind \in Final
       PROVE  wire' = <<>> /\ (f.kind = "DONE" => x.end = "finished" \/ x.incomplete)
              /\ Len(x.answer) = x.said
  <2>1. f.kind \notin Going /\ f.kind # "text"
    BY <1>17 DEF Final, Going
  <2>2. Ended(wire, x)
    <3>1. server = "idle"
      BY <1>9, <1>10, <2>1 DEF Flowing
    <3> QED BY <1>10, <3>1 DEF Flowing
  <2>3. wire' = <<>> /\ (f.kind = "DONE" => x.end = "finished" \/ x.incomplete)
    BY <1>9, <1>17, <2>2
  <2>4. Carried(wire') = <<>>
    <3>1. <<>> \in Seq(Frame)
      OBVIOUS
    <3> QED BY <2>3, <3>1, CarriedContributed, ContributedNothing
  <2>5. Carried(wire) = <<>>
    BY <1>12, <2>1, <2>4
  <2> QED BY <1>11, <1>12, <2>3, <2>5, BeginningOfSaid
<1>18. CASE f.kind = "DONE"
  <2>1. y = [x EXCEPT !.state = "ok"]
    BY <1>3, <1>6, <1>18 DEF Shown, SaysIncomplete
  <2>2. /\ y \in Exchange /\ y.answer = x.answer /\ y.said = x.said
        /\ y.state = "ok" /\ y.incomplete = x.incomplete /\ y.end = x.end
    BY <2>1 DEF Exchange
  <2>3. f.kind \in Final
    BY <1>18 DEF Final
  <2>4. Faithful(y)
    BY <1>12, <1>17, <1>18, <2>2, <2>3 DEF Faithful
  <2> QED BY <1>13, <1>17, <2>2, <2>3, <2>4
<1>19. CASE f.kind = "error"
  <2>1. y = Failed
    BY <1>6, <1>19 DEF Shown, SaysIncomplete
  <2>2. f.kind \in Final
    BY <1>19 DEF Final
  <2>3. y \in Exchange /\ y.state = "failed" /\ Faithful(y)
    BY <1>2, <1>3, <2>1, FailedIs
  <2> QED BY <1>13, <1>17, <2>2, <2>3
<1> QED BY <1>14, <1>15, <1>16, <1>18, <1>19 DEF Frame

\* Every step keeps the invariant.
LEMMA FollowGoesOn == FollowInv /\ [FollowNext]_followVars => FollowInv'
<1> SUFFICES ASSUME FollowInv, [FollowNext]_followVars PROVE FollowInv'
  OBVIOUS
<1>1. CASE UNCHANGED followVars
  <2>1. FollowTyped /\ Exchanges /\ Calls /\ Streaming /\ NextSeesTheAnswer
    BY DEF FollowInv
  <2>2. FollowTyped' /\ Calls' /\ Streaming'
    BY <1>1, <2>1 DEF followVars, FollowTyped, Calls, Streaming, Sending
  <2> QED BY <1>1, <2>1, <2>2, ThreadKept DEF followVars, FollowInv
<1>2. CASE FollowNext
  BY <1>2, AskKeepsFollowInv, BeginKeepsFollowInv, DowngradeKeepsFollowInv, FailKeepsFollowInv,
     SayKeepsFollowInv, EndKeepsFollowInv, NoticeKeepsFollowInv, ReadKeepsFollowInv,
     LoseKeepsFollowInv DEF FollowNext
<1> QED BY <1>1, <1>2

\* So it always holds.
LEMMA FollowInvariance == FollowSpec => []FollowInv
BY FollowBegins, FollowGoesOn, PTL DEF FollowSpec

\* follow_up_stream and the page that reads it, for every number of continuations, turns of
\* history, deltas and questions: an answer the page shows is the beginning of what the
\* model said and the whole of it if it bears no mark, and a model asked to go on is shown
\* the answer as the page has it or is about to.
THEOREM FollowUpAnswersAreWhole == FollowSpec => []AnswersAreWhole
<1>1. FollowInv => AnswersAreWhole
  <2> SUFFICES ASSUME FollowInv PROVE AnswersAreWhole
    OBVIOUS
  <2>1. FollowTyped /\ Exchanges /\ Calls /\ Streaming /\ NextSeesTheAnswer
    BY DEF FollowInv
  <2>2. \A x \in Range(thread) : x \in Exchange /\ Faithful(x)
    BY <2>1 DEF Range, Exchanges, FollowTyped
  <2>3. WholeOrMarked
    BY <2>2 DEF WholeOrMarked, Faithful, UpTo
  <2>4. FollowTypeOK
    <3>1. \A x \in Range(thread) :
             /\ x.state \in {"pending", "ok", "failed"} /\ x.incomplete \in BOOLEAN
             /\ x.said \in 0 .. MaxDeltas /\ x.end \in {"open", "cut", "finished", "lost"}
      BY <2>2 DEF Exchange
    <3>2. calls <= MaxContinuations + 2
      BY <2>1, FollowUpAssumption DEF Calls, FollowTyped
    <3> QED BY <2>1, <3>1, <3>2 DEF FollowTypeOK, FollowTyped
  <2>5. ASSUME server = "request", link PROVE prior = Last(thread).answer \o OnTheWire
    <3>1. Flowing(Last(thread), wire, server, prior, segment) /\ segment = <<>>
      BY <2>1, <2>5 DEF Streaming
    <3>2. prior \in Seq(Place) /\ prior \o <<>> = prior
      BY <2>1, ConcatEmptySeq DEF FollowTyped
    <3> QED BY <2>5, <3>1, <3>2, CarriedIs DEF Flowing
  <2> QED BY <2>1, <2>3, <2>4, <2>5 DEF AnswersAreWhole
<1> QED BY <1>1, FollowInvariance, PTL
=============================================================================
