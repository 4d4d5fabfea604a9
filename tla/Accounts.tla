------------------------------ MODULE Accounts ------------------------------
(***************************************************************************)
(* Registration, password reset and sessions: AuthService                  *)
(* (packages/accounts/service.py) over UsersRepository and                 *)
(* AuthTokensRepository (accounts/repository.py) and the e-mailed codes    *)
(* (accounts/verification.py), behind apps/api/routers/auth.py and         *)
(* routers/account.py.                                                     *)
(*                                                                         *)
(* A request is a transaction of its own (get_session): it reads what is   *)
(* committed, holds the row it has written until it ends, and an exception *)
(* undoes it.  Time is what the code asks of it: whether the last code is  *)
(* a minute old, whether it has expired, whether it was sent today.        *)
(***************************************************************************)
EXTENDS Naturals, FiniteSets

CONSTANTS
    Handler,      \* requests that can be in progress at once
    Name,         \* usernames
    Email,        \* normalised addresses
    GuessLimit,   \* MAX_VERIFY_ATTEMPTS
    DailyLimit,   \* MAX_DAILY_CODES
    MaxCodes,     \* bound: codes ever generated
    MaxChanges    \* bound: passwords ever set

ASSUME AccountsAssumption == {GuessLimit, DailyLimit, MaxCodes, MaxChanges} \subseteq Nat \ {0}

VARIABLES
    users,      \* rows of users: [name, email, password]
    codes,      \* <<email, purpose>> -> its row of email_verifications
    sessions,   \* rows of auth_tokens: [email, password] they were opened with
    desk,       \* handler -> the request it serves
    holder,     \* <<email, purpose>> -> the transactions that hold its row
    fresh,      \* codes generated so far
    version,    \* passwords set so far
    guesses,    \* history: code -> wrong guesses compared with it and answered
    redeemed       \* history: code -> accounts and resets it has bought

accVars == <<users, codes, sessions, desk, holder, fresh, version, guesses, redeemed>>

Purpose == {"register", "reset"}
Slot == Email \X Purpose
NoCode == 0
NoRow == [code |-> NoCode, guessed |-> 0, used |-> FALSE, live |-> FALSE, recent |-> FALSE, sent |-> 0]
Free == [op |-> "none", at |-> "done", name |-> "", email |-> "", guess |-> NoCode, draft |-> NoRow]

AccInit ==
    /\ users = {} /\ sessions = {}
    /\ codes = [s \in Slot |-> NoRow]
    /\ desk = [h \in Handler |-> Free]
    /\ holder = [s \in Slot |-> {}]
    /\ fresh = 0 /\ version = 0
    /\ guesses = [k \in 1 .. MaxCodes |-> 0]
    /\ redeemed = [k \in 1 .. MaxCodes |-> 0]

HasName(n) == \E u \in users : u.name = n
HasEmail(e) == \E u \in users : u.email = e

\* The row a request is about.
SlotOf(h) == <<desk[h].email, IF desk[h].op \in {"ask reset", "reset"} THEN "reset" ELSE "register">>

\* The request ends: its answer is given, its row is let go.
Done(h) ==
    /\ desk' = [desk EXCEPT ![h] = Free]
    /\ holder' = [s \in Slot |-> holder[s] \ {h}]

Undo(h) == Done(h) /\ UNCHANGED <<users, codes, sessions, fresh, version, guesses, redeemed>>

\* An exception, a lost connection or a dead process: the transaction is undone.
AbortRequest(h) == desk[h].op # "none" /\ Undo(h)

-----------------------------------------------------------------------------
(* Requesting a code *)

\* /register looks the name up, /forgot-password the address; an unknown address is
\* answered as if a code had been sent.
AskForCode(h, op, n, e) ==
    /\ desk[h].op = "none"
    /\ \/ op = "ask register" /\ ~HasName(n)
       \/ op = "ask reset" /\ HasEmail(e)
    /\ desk' = [desk EXCEPT ![h] = [Free EXCEPT !.op = op, !.at = "checked", !.name = n, !.email = e]]
    /\ UNCHANGED <<users, codes, sessions, holder, fresh, version, guesses, redeemed>>

MaySend(row) == row.code = NoCode \/ (~row.recent /\ row.sent < DailyLimit)

NewRow(row) ==
    [code |-> fresh + 1, guessed |-> 0, used |-> FALSE, live |-> TRUE, recent |-> TRUE, sent |-> row.sent + 1]

\* One upsert decides, on the row's last committed version, and holds the row.
StoreCode(h) ==
    LET s == SlotOf(h) IN
    /\ desk[h].at = "checked" /\ desk[h].op \in {"ask register", "ask reset"}
    /\ holder[s] = {}
    /\ fresh < MaxCodes /\ fresh' = fresh + 1
    /\ IF MaySend(codes[s])
       THEN /\ desk' = [desk EXCEPT ![h] = [@ EXCEPT !.at = "stored", !.draft = NewRow(codes[s])]]
            /\ holder' = [holder EXCEPT ![s] = {h}]
       ELSE Done(h)
    /\ UNCHANGED <<users, codes, sessions, version, guesses, redeemed>>

\* The mail is out and the request commits.
SendCode(h) ==
    /\ desk[h].at = "stored"
    /\ codes' = [codes EXCEPT ![SlotOf(h)] = desk[h].draft]
    /\ Done(h)
    /\ UNCHANGED <<users, sessions, fresh, version, guesses, redeemed>>

-----------------------------------------------------------------------------
(* Confirming it: a registration, or a reset *)

\* Guesses are the codes generated so far, or one that never was.
AskToConfirm(h, op, n, e, k) ==
    /\ desk[h].op = "none"
    /\ \/ op = "register" /\ ~HasName(n) /\ ~HasEmail(e)
       \/ op = "reset" /\ HasEmail(e)
    /\ desk' = [desk EXCEPT ![h] = [Free EXCEPT !.op = op, !.at = "checked", !.name = n, !.email = e, !.guess = k]]
    /\ UNCHANGED <<users, codes, sessions, holder, fresh, version, guesses, redeemed>>

Open(row) == row.code # NoCode /\ ~row.used /\ row.live /\ row.guessed < GuessLimit

\* A mistake: the code may have bought something already.
AcceptsTwice(row, k) == row.code = k /\ row.live /\ row.guessed < GuessLimit

Accepts(row, k) == row.code = k /\ Open(row)

\* The conditional UPDATE finds its row.
CodeAccepted(h) ==
    LET s == SlotOf(h) IN
    /\ desk[h].at = "checked" /\ desk[h].op \in {"register", "reset"}
    /\ holder[s] = {}
    /\ Accepts(codes[s], desk[h].guess)
    /\ desk' = [desk EXCEPT ![h] = [@ EXCEPT !.at = "accepted", !.draft = [codes[s] EXCEPT !.used = TRUE]]]
    /\ holder' = [holder EXCEPT ![s] = {h}]
    /\ UNCHANGED <<users, codes, sessions, fresh, version, guesses, redeemed>>

Counts(row, k) == Open(row) /\ row.code # k

\* A mistake: the exception that answers takes the count back.
Uncounted(row, k) == row

\* A wrong guess at an open code is counted, and committed before the answer.
Counted(row, k) == IF Counts(row, k) THEN [row EXCEPT !.guessed = @ + 1] ELSE row

CodeRefused(h) ==
    LET s == SlotOf(h) IN
    /\ desk[h].at = "checked" /\ desk[h].op \in {"register", "reset"}
    /\ holder[s] = {}
    /\ ~Accepts(codes[s], desk[h].guess)
    /\ codes' = [codes EXCEPT ![s] = Counted(@, desk[h].guess)]
    /\ guesses' = IF Counts(codes[s], desk[h].guess)
                  THEN [guesses EXCEPT ![codes[s].code] = @ + 1] ELSE guesses
    /\ Done(h)
    /\ UNCHANGED <<users, sessions, fresh, version, redeemed>>

Redeem(h) ==
    /\ codes' = [codes EXCEPT ![SlotOf(h)] = desk[h].draft]
    /\ redeemed' = [redeemed EXCEPT ![desk[h].draft.code] = @ + 1]
    /\ version < MaxChanges /\ version' = version + 1

\* The unique constraints have the last word on name and address; where one is
\* violated the transaction is undone, and the code is open again (AbortRequest).
CreateUser(h) ==
    LET d == desk[h] IN
    /\ d.at = "accepted" /\ d.op = "register"
    /\ ~HasName(d.name) /\ ~HasEmail(d.email)
    /\ Redeem(h)
    /\ users' = users \cup {[name |-> d.name, email |-> d.email, password |-> version + 1]}
    /\ sessions' = sessions \cup {[email |-> d.email, password |-> version + 1]}
    /\ Done(h)
    /\ UNCHANGED <<fresh, guesses>>

WithPassword(e, p) == {IF u.email = e THEN [u EXCEPT !.password = p] ELSE u : u \in users}

ResetPassword(h) ==
    LET e == desk[h].email IN
    /\ desk[h].at = "accepted" /\ desk[h].op = "reset"
    /\ Redeem(h)
    /\ users' = WithPassword(e, version + 1)
    /\ sessions' = {t \in sessions : t.email # e}
    /\ Done(h)
    /\ UNCHANGED <<fresh, guesses>>

-----------------------------------------------------------------------------
(* With a password, or a token *)

\* login, /account/password and /account/username check the password they read.
CheckPassword(h, op, u) ==
    /\ desk[h].op = "none"
    /\ op \in {"login", "password", "rename"}
    /\ desk' = [desk EXCEPT ![h] = [Free EXCEPT !.op = op, !.at = "checked", !.name = u.name,
                                                !.email = u.email, !.guess = u.password]]
    /\ UNCHANGED <<users, codes, sessions, holder, fresh, version, guesses, redeemed>>

Login(h) ==
    /\ desk[h].op = "login"
    /\ sessions' = sessions \cup {[email |-> desk[h].email, password |-> desk[h].guess]}
    /\ Done(h)
    /\ UNCHANGED <<users, codes, fresh, version, guesses, redeemed>>

\* Every token but the one in the request's header goes.
ChangePassword(h) ==
    LET e == desk[h].email IN
    /\ desk[h].op = "password"
    /\ version < MaxChanges /\ version' = version + 1
    /\ users' = WithPassword(e, version + 1)
    /\ \E kept \in {{}} \cup {{t} : t \in {t \in sessions : t.email = e}} :
           sessions' = {t \in sessions : t.email # e} \cup kept
    /\ Done(h)
    /\ UNCHANGED <<codes, fresh, guesses, redeemed>>

\* The name was looked up; should it be taken by now, the UPDATE fails (AbortRequest).
ChangeUsername(h, n) ==
    /\ desk[h].op = "rename"
    /\ ~HasName(n)
    /\ users' = {IF u.email = desk[h].email THEN [u EXCEPT !.name = n] ELSE u : u \in users}
    /\ Done(h)
    /\ UNCHANGED <<codes, sessions, fresh, version, guesses, redeemed>>

\* /logout, or TOKEN_TTL runs out: lookup refuses the token.
Logout(t) ==
    /\ sessions' = sessions \ {t}
    /\ UNCHANGED <<users, codes, desk, holder, fresh, version, guesses, redeemed>>

-----------------------------------------------------------------------------
(* Time *)

MinutePasses(s) ==
    /\ codes[s].recent
    /\ codes' = [codes EXCEPT ![s].recent = FALSE]

Expire(s) ==
    /\ codes[s].live /\ ~codes[s].recent
    /\ codes' = [codes EXCEPT ![s].live = FALSE]

Midnight ==
    /\ \E s \in Slot : codes[s].sent > 0
    /\ codes' = [s \in Slot |-> [codes[s] EXCEPT !.sent = 0]]

\* Who holds a row has read the clock already.
TimePasses ==
    /\ \A h \in Handler : desk[h].at \notin {"stored", "accepted"}
    /\ Midnight \/ \E s \in Slot : MinutePasses(s) \/ Expire(s)
    /\ UNCHANGED <<users, sessions, desk, holder, fresh, version, guesses, redeemed>>

Serve(h) ==
    \/ \E op \in {"ask register", "ask reset"}, n \in Name, e \in Email : AskForCode(h, op, n, e)
    \/ \E op \in Purpose, n \in Name, e \in Email, k \in 0 .. fresh : AskToConfirm(h, op, n, e, k)
    \/ \E op \in {"login", "password", "rename"}, u \in users : CheckPassword(h, op, u)
    \/ StoreCode(h) \/ SendCode(h)
    \/ CodeAccepted(h) \/ CodeRefused(h)
    \/ CreateUser(h) \/ ResetPassword(h)
    \/ Login(h) \/ ChangePassword(h)
    \/ \E n \in Name : ChangeUsername(h, n)
    \/ AbortRequest(h)

AccNext ==
    \/ \E h \in Handler : Serve(h)
    \/ \E t \in sessions : Logout(t)
    \/ TimePasses

AccSpec == AccInit /\ [][AccNext]_accVars

-----------------------------------------------------------------------------
(* Properties *)

CodeRow == [code : 0 .. MaxCodes, guessed : 0 .. GuessLimit, used : BOOLEAN,
            live : BOOLEAN, recent : BOOLEAN, sent : 0 .. DailyLimit]

\* Every variable holds a value of its type.
AccTypeOK ==
    /\ users \subseteq [name : Name, email : Email, password : 1 .. MaxChanges]
    /\ codes \in [Slot -> CodeRow]
    /\ sessions \subseteq [email : Email, password : 1 .. MaxChanges]
    /\ \A h \in Handler : desk[h].draft \in CodeRow
    /\ \A s \in Slot : holder[s] \subseteq Handler /\ Cardinality(holder[s]) <= 1
    /\ fresh \in 0 .. MaxCodes /\ version \in 0 .. MaxChanges

\* A code that was mailed buys one account or one new password, however many
\* confirmations of it overlap, and may be guessed at MAX_VERIFY_ATTEMPTS times,
\* however many requests fail, are undone or overlap.
CodesAreLimited ==
    /\ AccTypeOK
    /\ \A k \in 1 .. MaxCodes : redeemed[k] <= 1 /\ guesses[k] <= GuessLimit
=============================================================================
