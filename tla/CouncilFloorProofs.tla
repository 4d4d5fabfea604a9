------------------------- MODULE CouncilFloorProofs -------------------------
(***************************************************************************)
(* What happens inside a council phase, proved for every roster, every     *)
(* number of slots, attempts, repairs and retries, every deadline and      *)
(* every price, every bench and everything the seats may answer: a seat's  *)
(* call (ModelCall), the collection of a phase's seats (SeatCollection)    *)
(* and what the rounds make of the answers (CouncilRounds), the three      *)
(* parts of MCCouncilFloor.                                                *)
(***************************************************************************)
EXTENDS SeatCollection, ModelCall, CouncilRounds, SequenceLemmas, FiniteSetTheorems

(***************************************************************************)
(* PART 1.  A call, for any number of repairs and retries: its type        *)
(* invariant, the bound on its requests, and what its bill covers.         *)
(***************************************************************************)

\* The requests one pass over the schema may take.
Tries == TransportRetries + 1

\* The passes over the schema a call has finished: one per repair, and the one whose
\* tool was refused; a call that never asked for the tool may count one too many.
Passes == attempt + (IF forced THEN 0 ELSE 1)

\* What holds while a call is under way: the sums are exact, every request belongs to a
\* finished pass or to the current one, and there is no result before the end.
UnderWay ==
    /\ leg # "over" => bill = answered /\ answered = attempt /\ tries <= TransportRetries
    /\ leg # "over" => retries + tries <= requests
    /\ leg # "over" => requests <= Passes * Tries + tries
    /\ leg = "stream" => attempt = 0 /\ requests = 0
    /\ leg # "over" => result = "none"

CallInv == CallTypeOK /\ UnderWay /\ CallIsAccountedFor

-----------------------------------------------------------------------------

\* Arithmetic the bound on requests rests on: one more pass takes Tries more requests,
\* and the passes never exceed one per schema attempt and one for the downgrade.
LEMMA OneMorePass == \A n \in Nat, k \in Nat : (n + 1) * k = n * k + k
  BY SMT

\* The same for the last pass a call can be in, below the bound of the model.
LEMMA PassesFit ==
    ASSUME NEW n \in Nat, NEW m \in Nat, NEW k \in Nat, n <= m
    PROVE  n * k <= m * k
  <1>1. PICK d \in Nat : m = n + d
    <2>1. m - n \in Nat /\ m = n + (m - n)  OBVIOUS
    <2> QED  BY <2>1
  <1>2. (n + d) * k = n * k + d * k  BY SMT
  <1>3. d * k \in Nat  BY SMT
  <1> QED  BY <1>1, <1>2, <1>3

\* Wherever a call under way stands, one more request stays within the bound.
LEMMA RoomForOneMore ==
    ASSUME CallInv, leg # "over"
    PROVE  /\ Passes \in Nat /\ Tries \in Nat
           /\ requests + 1 <= (Passes + 1) * Tries
           /\ (Passes + 1) * Tries <= MostRequests
  <1> USE ModelCallAssumption
  <1>1. attempt \in Nat /\ attempt <= Repairs /\ requests \in Nat /\ tries \in Nat
    BY DEF CallInv, CallTypeOK, MostRequests
  <1>2. Passes \in Nat /\ Passes + 1 <= Repairs + 2  BY <1>1 DEF Passes, CallInv, CallTypeOK
  <1>3. Tries \in Nat  BY DEF Tries
  <1>4. requests <= Passes * Tries + tries /\ tries <= TransportRetries  BY DEF CallInv, UnderWay
  <1>5. (Passes + 1) * Tries = Passes * Tries + Tries  BY <1>2, <1>3, OneMorePass
  <1>6. Passes * Tries \in Nat  BY <1>2, <1>3, SMT
  <1>7. requests + 1 <= (Passes + 1) * Tries  BY <1>1, <1>3, <1>4, <1>5, <1>6 DEF Tries
  <1>8. (Passes + 1) * Tries <= (Repairs + 2) * Tries  BY <1>2, <1>3, PassesFit
  <1> QED  BY <1>2, <1>3, <1>7, <1>8 DEF MostRequests, Tries

-----------------------------------------------------------------------------

\* A call begins with nothing spent.
LEMMA CallBegins == CallInit => CallInv
  <1> SUFFICES ASSUME CallInit PROVE CallInv  OBVIOUS
  <1> USE ModelCallAssumption DEF CallInit
  <1>1. Tries \in Nat /\ Passes \in Nat  BY DEF Tries, Passes
  <1>2. Passes * Tries \in Nat  BY <1>1, SMT
  <1>3. MostRequests \in Nat
    <2>1. (Repairs + 2) * Tries \in Nat  BY <1>1, SMT
    <2> QED  BY <2>1 DEF MostRequests, Tries
  <1>4. CallTypeOK  BY <1>3 DEF CallTypeOK
  <1>5. UnderWay  BY <1>2 DEF UnderWay
  <1>6. CallIsAccountedFor
    BY <1>3 DEF CallIsAccountedFor, RequestsAreBounded, ResultBillsEveryReply, FailureLosesOnlyRepairs
  <1> QED  BY <1>4, <1>5, <1>6 DEF CallInv

\* A request that is tried again, or fails for good, is one more of the same pass.
LEMMA SendingAgain ==
    ASSUME CallInv, leg = "invoke", requests' = requests + 1, SendAgain
    PROVE  CallInv'
  <1> USE ModelCallAssumption DEF SendAgain, Fail, End
  <1>1. /\ Passes \in Nat /\ Tries \in Nat /\ requests + 1 <= (Passes + 1) * Tries
        /\ (Passes + 1) * Tries <= MostRequests
    BY RoomForOneMore
  <1>2. /\ (Passes + 1) * Tries \in Nat /\ Passes * Tries \in Nat /\ MostRequests \in Nat
    <2>1. (Repairs + 2) * Tries \in Nat  BY <1>1, SMT
    <2>2. MostRequests \in Nat  BY <2>1 DEF MostRequests, Tries
    <2> QED  BY <1>1, <2>2, SMT
  <1>3. Passes' = Passes /\ MostRequests' = MostRequests /\ Tries' = Tries
    BY DEF Passes, MostRequests, Tries
  <1>4. CallTypeOK'
    BY <1>1, <1>2, <1>3 DEF CallInv, CallTypeOK, UnderWay
  <1>5. UnderWay'
    BY <1>1, <1>2, <1>3 DEF CallInv, UnderWay, CallTypeOK
  <1>6. CallIsAccountedFor'
    BY <1>1, <1>2, <1>3 DEF CallInv, CallTypeOK, UnderWay, CallIsAccountedFor,
                            RequestsAreBounded, ResultBillsEveryReply, FailureLosesOnlyRepairs
  <1> QED  BY <1>4, <1>5, <1>6 DEF CallInv

\* A refused tool ends a pass, and there is one such pass: the next is not forced.
LEMMA Downgrading ==
    ASSUME CallInv, leg = "invoke", forced, requests' = requests + 1, Downgrade
    PROVE  CallInv'
  <1> USE ModelCallAssumption DEF Downgrade
  <1>1. /\ Passes \in Nat /\ Tries \in Nat /\ requests + 1 <= (Passes + 1) * Tries
        /\ (Passes + 1) * Tries <= MostRequests
    BY RoomForOneMore
  <1>2. (Passes + 1) * Tries \in Nat /\ MostRequests \in Nat
    <2>1. (Repairs + 2) * Tries \in Nat  BY <1>1, SMT
    <2>2. MostRequests \in Nat  BY <2>1 DEF MostRequests, Tries
    <2> QED  BY <1>1, <2>2, SMT
  <1>3. Passes' = Passes + 1 /\ MostRequests' = MostRequests /\ Tries' = Tries
    BY DEF Passes, MostRequests, Tries, CallInv, CallTypeOK
  <1>4. Passes' * Tries' = (Passes + 1) * Tries  BY <1>3
  <1>5. CallTypeOK'
    <2>1. requests + 1 <= MostRequests /\ retries + 1 <= requests + 1
      BY <1>1, <1>2 DEF CallInv, CallTypeOK, UnderWay
    <2>2. {retries', requests'} \subseteq 0 .. MostRequests'
      BY <2>1, <1>2, <1>3 DEF CallInv, CallTypeOK
    <2>3. forced' \in BOOLEAN  BY Zenon
    <2>4. tries' \in 0 .. TransportRetries + 1  OBVIOUS
    <2> QED  BY <2>2, <2>3, <2>4 DEF CallInv, CallTypeOK
  <1>6. UnderWay'
    <2>1. leg' # "over" => requests' <= Passes' * Tries' + tries'  BY <1>1, <1>2, <1>4
    <2> QED  BY <2>1 DEF CallInv, UnderWay, CallTypeOK
  <1>7. CallIsAccountedFor'
    BY <1>1, <1>2, <1>3 DEF CallInv, CallTypeOK, UnderWay, CallIsAccountedFor,
                            RequestsAreBounded, ResultBillsEveryReply, FailureLosesOnlyRepairs
  <1> QED  BY <1>5, <1>6, <1>7 DEF CallInv

\* A reply with an error in it ends a pass too, and is on the bill; the last pass ends
\* the call.
LEMMA Repairing ==
    ASSUME CallInv, leg = "invoke", requests' = requests + 1, Invalid
    PROVE  CallInv'
  <1> USE ModelCallAssumption DEF Invalid, Count, End
  <1>1. /\ Passes \in Nat /\ Tries \in Nat /\ requests + 1 <= (Passes + 1) * Tries
        /\ (Passes + 1) * Tries <= MostRequests
    BY RoomForOneMore
  <1>2. (Passes + 1) * Tries \in Nat /\ MostRequests \in Nat
    <2>1. (Repairs + 2) * Tries \in Nat  BY <1>1, SMT
    <2>2. MostRequests \in Nat  BY <2>1 DEF MostRequests, Tries
    <2> QED  BY <1>1, <2>2, SMT
  <1>3. /\ attempt' = attempt + 1 => Passes' = Passes + 1
        /\ MostRequests' = MostRequests /\ Tries' = Tries
    BY DEF Passes, MostRequests, Tries, CallInv, CallTypeOK
  <1>4. attempt' = attempt + 1 => Passes' * Tries' = (Passes + 1) * Tries  BY <1>3
  <1>5. CallTypeOK'
    BY <1>1, <1>2, <1>3 DEF CallInv, CallTypeOK, UnderWay
  <1>6. UnderWay'
    <2>1. leg' # "over" => requests' <= Passes' * Tries' + tries'
      BY <1>1, <1>2, <1>4 DEF CallInv, CallTypeOK
    <2> QED  BY <2>1 DEF CallInv, UnderWay, CallTypeOK
  <1>7. CallIsAccountedFor'
    BY <1>1, <1>2, <1>3 DEF CallInv, CallTypeOK, UnderWay, CallIsAccountedFor,
                            RequestsAreBounded, ResultBillsEveryReply, FailureLosesOnlyRepairs
  <1> QED  BY <1>5, <1>6, <1>7 DEF CallInv

\* A reply that ends the call: a good one, which is on the bill, or one that says
\* nothing, which is not.
LEMMA Ending ==
    ASSUME CallInv, leg = "invoke", requests' = requests + 1, Valid \/ Rejected \/ Garbled
    PROVE  CallInv'
  <1> USE ModelCallAssumption DEF Valid, Rejected, Garbled, Count, Fail, End
  <1>1. requests + 1 <= MostRequests /\ MostRequests \in Nat
    <2>1. /\ Passes \in Nat /\ Tries \in Nat /\ requests + 1 <= (Passes + 1) * Tries
          /\ (Passes + 1) * Tries <= MostRequests
      BY RoomForOneMore
    <2>2. (Repairs + 2) * Tries \in Nat /\ (Passes + 1) * Tries \in Nat  BY <2>1, SMT
    <2>3. MostRequests \in Nat  BY <2>2 DEF MostRequests, Tries
    <2> QED  BY <2>1, <2>2, <2>3 DEF CallInv, CallTypeOK
  <1>2. MostRequests' = MostRequests  BY DEF MostRequests
  <1>3. CallTypeOK'  BY <1>1, <1>2 DEF CallInv, CallTypeOK, UnderWay
  <1>4. UnderWay'  BY DEF UnderWay
  <1>5. CallIsAccountedFor'
    BY <1>1, <1>2 DEF CallInv, CallTypeOK, UnderWay, CallIsAccountedFor, RequestsAreBounded,
                      ResultBillsEveryReply, FailureLosesOnlyRepairs
  <1> QED  BY <1>3, <1>4, <1>5 DEF CallInv

\* What the stream, a deadline or the researcher does asks the vendor for nothing.
LEMMA NoRequest ==
    ASSUME CallInv, StreamCompletes \/ StreamBreaks \/ CutShort \/ UNCHANGED callVars
    PROVE  CallInv'
  <1> USE ModelCallAssumption DEF StreamCompletes, StreamBreaks, CutShort, callVars, Fail, End
  <1>1. Passes' = Passes /\ MostRequests' = MostRequests /\ Tries' = Tries
    BY DEF Passes, MostRequests, Tries
  <1>2. CallTypeOK'  BY <1>1 DEF CallInv, CallTypeOK
  <1>3. UnderWay'  BY <1>1 DEF CallInv, CallTypeOK, UnderWay
  <1>4. CallIsAccountedFor'
    BY <1>1 DEF CallInv, CallTypeOK, UnderWay, CallIsAccountedFor, RequestsAreBounded,
                ResultBillsEveryReply, FailureLosesOnlyRepairs
  <1> QED  BY <1>2, <1>3, <1>4 DEF CallInv

\* The invariant is inductive: each reply and each step without one keeps it.
LEMMA CallGoesOn == CallInv /\ [CallNext]_callVars => CallInv'
  <1> SUFFICES ASSUME CallInv, [CallNext]_callVars PROVE CallInv'  OBVIOUS
  <1>1. CASE StreamCompletes \/ StreamBreaks \/ CutShort \/ UNCHANGED callVars
    BY <1>1, NoRequest
  <1>2. CASE \E reply \in Reply : Post(reply)
    <2> PICK reply \in Reply : Post(reply)  BY <1>2
    <2>1. leg = "invoke" /\ requests' = requests + 1  BY DEF Post
    <2>2. CASE SendAgain  BY <2>1, <2>2, SendingAgain
    <2>3. CASE forced /\ Downgrade  BY <2>1, <2>3, Downgrading
    <2>4. CASE Invalid  BY <2>1, <2>4, Repairing
    <2>5. CASE Valid \/ Rejected \/ Garbled  BY <2>1, <2>5, Ending
    <2> QED  BY <2>2, <2>3, <2>4, <2>5 DEF Post
  <1> QED  BY <1>1, <1>2 DEF CallNext

-----------------------------------------------------------------------------

\* For every number of repairs and transport retries, a call of
\* openai_compatible.py is in a state of the model.
THEOREM CallTypeCorrect == CallSpec => []CallTypeOK
  <1>1. CallInv => CallTypeOK  BY DEF CallInv
  <1> QED  BY <1>1, CallBegins, CallGoesOn, PTL DEF CallSpec

\* For every number of repairs and transport retries, and whatever the vendor replies, a
\* call makes at most (Repairs + 2) * (TransportRetries + 1) plain requests and reports no
\* more retries than requests; its result bills every reply; and if it ends by an
\* exception, it bills none of the at most Repairs replies it had been given.
THEOREM CallsAreAccountedFor == CallSpec => []CallIsAccountedFor
  <1>1. CallInv => CallIsAccountedFor  BY DEF CallInv
  <1> QED  BY <1>1, CallBegins, CallGoesOn, PTL DEF CallSpec

-----------------------------------------------------------------------------
(***************************************************************************)
(* PART 2.  The collection: calls the vendor has answered are recorded,    *)
(* and an absence is explained by the seat's own last failure.             *)
(*                                                                         *)
(* Both promises speak of a pass that is over, so neither is inductive.    *)
(* What every step keeps is a balance for each seat -- the rows committed  *)
(* and the row being written are the calls answered, unless the connection *)
(* is lost -- and the reason of an absence from the moment it is given.    *)
(***************************************************************************)

\* The row of a call that is being written.
Recording(s) == IF at[s] \in InWrite THEN 1 ELSE 0

\* The calls a seat has made, had answered and had recorded.
CallsInv(s) ==
    /\ recorded[s] + Recording(s) <= paid[s]
    /\ ~gone => recorded[s] + Recording(s) = paid[s]
    /\ paid[s] <= attempts[s]
    /\ at[s] \in InCall => paid[s] < attempts[s]
    /\ at[s] \in {"waiting", "ready", "pausing"} => attempts[s] < MaxAttempts

Explained(s) ==
    \/ reasons[s] = failures[s] /\ attempts[s] > 0 /\ failures[s] # NoReason
    \/ reasons[s] = "deadline" /\ now >= Deadline
    \/ reasons[s] = "no provider" /\ ~provider

\* A seat that returns without an answer has its own error to give.
ReasonInv(s) ==
    /\ at[s] \in InCall \cup InWrite \cup {"returning"} => attempts[s] > 0
    /\ at[s] = "returning" => seatErrors[s] = failures[s] /\ failures[s] # NoReason
    /\ at[s] = "absent" => Explained(s)

\* The session's lock is held by a seat that writes.
LockInv == writer # Nobody => at[writer] \in InWrite

OverInv == passOutcome # "running" => \A s \in Seat : at[s] \in Over

\* The inductive invariant.
SeatInv ==
    /\ SeatTypeOK
    /\ LockInv
    /\ OverInv
    /\ \A s \in Seat : CallsInv(s) /\ ReasonInv(s)


-----------------------------------------------------------------------------
(***************************************************************************)
(* The type invariant, seat by seat                                        *)
(***************************************************************************)

Places == InCall \cup InWrite \cup Over \cup {"waiting", "ready", "returning", "pausing"}

SeatTyped(s) ==
    /\ at[s] \in Places
    /\ attempts[s] \in 0..MaxAttempts /\ due[s] \in 0..Deadline + 1
    /\ window[s] \in {"attempt", "deadline"}
    /\ reasons[s] \in Reason /\ failures[s] \in Reason /\ seatErrors[s] \in Reason
    /\ fate[s] \in {NoReason, "timeout", "stop", "cancel"} /\ answer[s] \in {"ok", "quarantined"}
    /\ paid[s] \in 0..MaxAttempts /\ recorded[s] \in 0..MaxAttempts

PassTyped ==
    /\ phase \in 1..NPhases
    /\ provider \in BOOLEAN /\ stop \in BOOLEAN /\ gone \in BOOLEAN
    /\ ending \in BOOLEAN /\ cancelled \in BOOLEAN
    /\ passOutcome \in {"running", "collected", "cancelled", "session lost"}
    /\ raised \in {NoReason, "cancelled", "session lost"}
    /\ now \in 0..Deadline + 1
    /\ lastError \in Reason /\ writer \in Seat \cup {Nobody}
    /\ open \subseteq Seat /\ used \in 0..ModelBudget

\* What is kept of the seats, s excepted.
OnlySeat(s) ==
    /\ at' = [at EXCEPT ![s] = at'[s]]
    /\ attempts' = [attempts EXCEPT ![s] = attempts'[s]]
    /\ due' = [due EXCEPT ![s] = due'[s]]
    /\ window' = [window EXCEPT ![s] = window'[s]]
    /\ reasons' = [reasons EXCEPT ![s] = reasons'[s]]
    /\ failures' = [failures EXCEPT ![s] = failures'[s]]
    /\ seatErrors' = [seatErrors EXCEPT ![s] = seatErrors'[s]]
    /\ fate' = [fate EXCEPT ![s] = fate'[s]]
    /\ answer' = [answer EXCEPT ![s] = answer'[s]]
    /\ paid' = [paid EXCEPT ![s] = paid'[s]]
    /\ recorded' = [recorded EXCEPT ![s] = recorded'[s]]

\* What a step of a seat keeps of the pass; it takes the lock, if at all, to write.
PassStays(s) ==
    /\ passOutcome' = passOutcome /\ now' = now /\ provider' = provider
    /\ gone => gone'
    /\ writer' \in {writer, Nobody, s}
    /\ writer' = s => at'[s] \in InWrite

\* The constants are numbers, one by one.
LEMMA Numbers ==
    /\ MaxAttempts \in Nat /\ Concurrency \in Nat /\ Deadline \in Nat
    /\ AttemptTimeout \in Nat /\ NPhases \in Nat
    /\ Pause \in Nat /\ CallCost \in Nat /\ ModelBudget \in Nat
    /\ MaxAttempts > 0 /\ Deadline > 0 /\ AttemptTimeout > 0 /\ NPhases > 0
    /\ Nobody \notin Seat
<1> QED BY SeatAssumption DEF SeatAssumption



LEMMA SeatsAreTyped ==
    ASSUME SeatTypeOK
    PROVE  PassTyped /\ \A s \in Seat : SeatTyped(s)
<1> QED BY DEF SeatTypeOK, PassTyped, SeatTyped, Places

LEMMA TypesAreKept ==
    ASSUME NEW s \in Seat, SeatTypeOK, OnlySeat(s), SeatTyped(s)', PassTyped'
    PROVE  SeatTypeOK'
<1> QED BY DEF SeatTypeOK, OnlySeat, SeatTyped, PassTyped, Places

\* The counters are numbers.
LEMMA CountersAreNumbers ==
    ASSUME NEW s \in Seat, SeatTyped(s)
    PROVE  attempts[s] \in Nat /\ paid[s] \in Nat /\ recorded[s] \in Nat /\ MaxAttempts \in Nat
<1> QED BY Numbers DEF SeatTyped

\* A counter that is not at its limit can be raised by one.
LEMMA OneMore ==
    ASSUME NEW n \in 0..MaxAttempts, n < MaxAttempts
    PROVE  n + 1 \in 0..MaxAttempts
<1> QED BY Numbers

\* A call is made; it is answered; its row is committed.
LEMMA CallMade ==
    ASSUME NEW s \in Seat, SeatTyped(s), CallsInv(s), at[s] = "ready",
           at'[s] \in {"absent", "streaming"}, attempts'[s] = attempts[s] + 1,
           paid'[s] = paid[s], recorded'[s] = recorded[s], gone' = gone
    PROVE  CallsInv(s)'
<1> QED BY CountersAreNumbers DEF CallsInv, Recording, InCall, InWrite

LEMMA CallAnswered ==
    ASSUME NEW s \in Seat, SeatTyped(s), CallsInv(s), at[s] \in InCall, at'[s] = "recording",
           attempts'[s] = attempts[s], paid'[s] = paid[s] + 1,
           recorded'[s] = recorded[s], gone' = gone
    PROVE  CallsInv(s)'
<1> QED BY CountersAreNumbers DEF CallsInv, Recording, InCall, InWrite

LEMMA CallRecorded ==
    ASSUME NEW s \in Seat, SeatTyped(s), CallsInv(s), at[s] \in InWrite,
           at'[s] \in Over \cup {"returning", "pausing"},
           at'[s] = "pausing" => attempts[s] < MaxAttempts,
           attempts'[s] = attempts[s], paid'[s] = paid[s],
           recorded'[s] = recorded[s] + 1, gone' = gone
    PROVE  CallsInv(s)'
<1> QED BY CountersAreNumbers DEF CallsInv, Recording, InCall, InWrite, Over

\* A row that is lost with the connection.
LEMMA CallLost ==
    ASSUME NEW s \in Seat, SeatTyped(s), CallsInv(s), at[s] \in InWrite,
           at'[s] \in Over \cup {"pausing"},
           at'[s] = "pausing" => attempts[s] < MaxAttempts,
           attempts'[s] = attempts[s], paid'[s] = paid[s],
           recorded'[s] = recorded[s], gone'
    PROVE  CallsInv(s)'
<1> QED BY CountersAreNumbers DEF CallsInv, Recording, InCall, InWrite, Over

\* A step that counts nothing.
LEMMA NothingCounted ==
    ASSUME NEW s \in Seat, SeatTyped(s), CallsInv(s),
           at'[s] \in InWrite <=> at[s] \in InWrite, at'[s] \in InCall => at[s] \in InCall,
           at'[s] \in {"waiting", "ready", "pausing"} => attempts[s] < MaxAttempts,
           attempts'[s] = attempts[s], paid'[s] = paid[s],
           recorded'[s] = recorded[s], gone' = gone
    PROVE  CallsInv(s)'
<1> QED BY CountersAreNumbers DEF CallsInv, Recording

\* A step of one seat keeps the invariant if it keeps what is said of that seat, of
\* the pass and of the lock.
LEMMA SeatStep ==
    ASSUME NEW s \in Seat, SeatInv, at[s] \notin Over,
           OnlySeat(s), PassStays(s), SeatTyped(s)', PassTyped', CallsInv(s)', ReasonInv(s)'
    PROVE  SeatInv'
<1>1. SeatTypeOK'
  BY TypesAreKept DEF SeatInv
<1>2. LockInv'
  <2>1. CASE writer' = s
    BY <2>1 DEF LockInv, PassStays
  <2>2. CASE writer' # s
    <3>1. writer' = writer \/ writer' = Nobody
      BY <2>2 DEF PassStays
    <3>2. writer # Nobody => writer \in Seat /\ at[writer] \in InWrite
      BY DEF SeatInv, LockInv, SeatTypeOK
    <3>3. \A x \in Seat : x # s => at'[x] = at[x]
      BY DEF SeatInv, SeatTypeOK, OnlySeat
    <3> QED BY <2>2, <3>1, <3>2, <3>3 DEF LockInv
  <2> QED BY <2>1, <2>2
<1>3. OverInv'
  BY DEF SeatInv, OverInv, PassStays
<1>4. ASSUME NEW x \in Seat, x # s PROVE CallsInv(x)' /\ ReasonInv(x)'
  <2>1. /\ at'[x] = at[x] /\ attempts'[x] = attempts[x]
        /\ reasons'[x] = reasons[x] /\ failures'[x] = failures[x]
        /\ seatErrors'[x] = seatErrors[x]
        /\ paid'[x] = paid[x] /\ recorded'[x] = recorded[x]
    <3>0. SeatTypeOK
      BY DEF SeatInv
    <3>1. at'[x] = at[x] /\ attempts'[x] = attempts[x]
      BY <1>4, <3>0 DEF SeatTypeOK, OnlySeat
    <3>2. reasons'[x] = reasons[x] /\ failures'[x] = failures[x] /\ seatErrors'[x] = seatErrors[x]
      BY <1>4, <3>0 DEF SeatTypeOK, OnlySeat
    <3>3. paid'[x] = paid[x] /\ recorded'[x] = recorded[x]
      BY <1>4, <3>0 DEF SeatTypeOK, OnlySeat
    <3> QED BY <3>1, <3>2, <3>3
  <2>2. CallsInv(x)'
    BY <2>1 DEF SeatInv, PassStays, CallsInv, Recording
  <2>3. ReasonInv(x)'
    BY <2>1 DEF SeatInv, PassStays, ReasonInv, Explained
  <2> QED BY <2>2, <2>3
<1> QED BY <1>1, <1>2, <1>3, <1>4 DEF SeatInv

LEMMA TakeKeepsSeatInv ==
    ASSUME NEW s \in Seat, SeatInv, Take(s)
    PROVE  SeatInv'
<1>1. /\ SeatTypeOK /\ LockInv /\ CallsInv(s) /\ ReasonInv(s)
      /\ SeatTyped(s) /\ PassTyped
  BY SeatsAreTyped DEF SeatInv
<1>2. /\ at[s] = "waiting" /\ at'[s] = "ready"
      /\ reasons'[s] = reasons[s] /\ failures'[s] = failures[s] /\ seatErrors'[s] = seatErrors[s]
      /\ due'[s] = due[s] /\ window'[s] = window[s] /\ fate'[s] = fate[s] /\ answer'[s] = answer[s]
  BY <1>1 DEF SeatTypeOK, passVars, auditVars, errorVars, seatVars, Take, FirstWaiting, Goto
<1>3. /\ attempts'[s] = attempts[s] /\ paid'[s] = paid[s] /\ recorded'[s] = recorded[s]
  BY <1>1 DEF SeatTypeOK, passVars, auditVars, errorVars, seatVars, Take, FirstWaiting, Goto
<1>4. /\ passOutcome' = passOutcome /\ now' = now /\ provider' = provider
      /\ gone' = gone /\ writer' = writer
  BY <1>1 DEF passVars, auditVars, errorVars, seatVars, Take, FirstWaiting, Goto
<1>5. OnlySeat(s)
  BY <1>1 DEF SeatTypeOK, OnlySeat, passVars, auditVars, errorVars, seatVars, Take, FirstWaiting, Goto
<1>6. PassTyped'
  BY <1>1 DEF PassTyped, passVars, auditVars, errorVars, seatVars, Take
<1>7. SeatTyped(s)'
  BY <1>1, <1>2, <1>3 DEF SeatTyped, Places, InCall, InWrite, Over, Reason
<1>8. CallsInv(s)'
  BY <1>1, <1>2, <1>3, <1>4, NothingCounted DEF CallsInv, InCall, InWrite, Over
<1>9. ReasonInv(s)'
  BY <1>1, <1>2, <1>3, <1>4, CountersAreNumbers DEF ReasonInv, Explained, InCall, InWrite, NoReason
<1>10. PassStays(s) /\ at[s] \notin Over
  BY <1>1, <1>2, <1>4, SeatAssumption DEF LockInv, PassStays, InCall, InWrite, Over, SeatAssumption
<1> QED BY <1>5, <1>6, <1>7, <1>8, <1>9, <1>10, SeatStep

LEMMA StreamFailsKeepsSeatInv ==
    ASSUME NEW s \in Seat, SeatInv, StreamFails(s)
    PROVE  SeatInv'
<1>1. /\ SeatTypeOK /\ LockInv /\ CallsInv(s) /\ ReasonInv(s)
      /\ SeatTyped(s) /\ PassTyped
  BY SeatsAreTyped DEF SeatInv
<1>2. /\ at[s] = "streaming" /\ at'[s] = "invoking"
      /\ reasons'[s] = reasons[s] /\ failures'[s] = failures[s] /\ seatErrors'[s] = seatErrors[s]
      /\ due'[s] = due[s] /\ window'[s] = window[s] /\ fate'[s] = fate[s] /\ answer'[s] = answer[s]
  BY <1>1 DEF SeatTypeOK, passVars, auditVars, errorVars, seatVars, StreamFails, Goto
<1>3. /\ attempts'[s] = attempts[s] /\ paid'[s] = paid[s] /\ recorded'[s] = recorded[s]
  BY <1>1 DEF SeatTypeOK, passVars, auditVars, errorVars, seatVars, StreamFails, Goto
<1>4. /\ passOutcome' = passOutcome /\ now' = now /\ provider' = provider
      /\ gone' = gone /\ writer' = writer
  BY <1>1 DEF passVars, auditVars, errorVars, seatVars, StreamFails, Goto
<1>5. OnlySeat(s)
  BY <1>1 DEF SeatTypeOK, OnlySeat, passVars, auditVars, errorVars, seatVars, StreamFails, Goto
<1>6. PassTyped'
  BY <1>1 DEF PassTyped, passVars, auditVars, errorVars, seatVars, StreamFails
<1>7. SeatTyped(s)'
  BY <1>1, <1>2, <1>3 DEF SeatTyped, Places, InCall, InWrite, Over, Reason
<1>8. CallsInv(s)'
  BY <1>1, <1>2, <1>3, <1>4, NothingCounted DEF CallsInv, InCall, InWrite, Over
<1>9. ReasonInv(s)'
  BY <1>1, <1>2, <1>3, <1>4, CountersAreNumbers DEF ReasonInv, Explained, InCall, InWrite, NoReason
<1>10. PassStays(s) /\ at[s] \notin Over
  BY <1>1, <1>2, <1>4, SeatAssumption DEF LockInv, PassStays, InCall, InWrite, Over, SeatAssumption
<1> QED BY <1>5, <1>6, <1>7, <1>8, <1>9, <1>10, SeatStep

LEMMA WakeKeepsSeatInv ==
    ASSUME NEW s \in Seat, SeatInv, Wake(s)
    PROVE  SeatInv'
<1>1. /\ SeatTypeOK /\ LockInv /\ CallsInv(s) /\ ReasonInv(s)
      /\ SeatTyped(s) /\ PassTyped
  BY SeatsAreTyped DEF SeatInv
<1>2. /\ at[s] = "pausing" /\ at'[s] = "ready"
      /\ reasons'[s] = reasons[s] /\ failures'[s] = failures[s] /\ seatErrors'[s] = seatErrors[s]
      /\ due'[s] = due[s] /\ window'[s] = window[s] /\ fate'[s] = fate[s] /\ answer'[s] = answer[s]
  BY <1>1 DEF SeatTypeOK, passVars, auditVars, errorVars, seatVars, Wake, Goto
<1>3. /\ attempts'[s] = attempts[s] /\ paid'[s] = paid[s] /\ recorded'[s] = recorded[s]
  BY <1>1 DEF SeatTypeOK, passVars, auditVars, errorVars, seatVars, Wake, Goto
<1>4. /\ passOutcome' = passOutcome /\ now' = now /\ provider' = provider
      /\ gone' = gone /\ writer' = writer
  BY <1>1 DEF passVars, auditVars, errorVars, seatVars, Wake, Goto
<1>5. OnlySeat(s)
  BY <1>1 DEF SeatTypeOK, OnlySeat, passVars, auditVars, errorVars, seatVars, Wake, Goto
<1>6. PassTyped'
  BY <1>1 DEF PassTyped, passVars, auditVars, errorVars, seatVars, Wake
<1>7. SeatTyped(s)'
  BY <1>1, <1>2, <1>3 DEF SeatTyped, Places, InCall, InWrite, Over, Reason
<1>8. CallsInv(s)'
  BY <1>1, <1>2, <1>3, <1>4, NothingCounted DEF CallsInv, InCall, InWrite, Over
<1>9. ReasonInv(s)'
  BY <1>1, <1>2, <1>3, <1>4, CountersAreNumbers DEF ReasonInv, Explained, InCall, InWrite, NoReason
<1>10. PassStays(s) /\ at[s] \notin Over
  BY <1>1, <1>2, <1>4, SeatAssumption DEF LockInv, PassStays, InCall, InWrite, Over, SeatAssumption
<1> QED BY <1>5, <1>6, <1>7, <1>8, <1>9, <1>10, SeatStep

LEMMA BeginWriteKeepsSeatInv ==
    ASSUME NEW s \in Seat, SeatInv, BeginWrite(s)
    PROVE  SeatInv'
<1>1. /\ SeatTypeOK /\ LockInv /\ CallsInv(s) /\ ReasonInv(s)
      /\ SeatTyped(s) /\ PassTyped
  BY SeatsAreTyped DEF SeatInv
<1>2. /\ at[s] \in InWrite /\ at'[s] = at[s]
      /\ reasons'[s] = reasons[s] /\ failures'[s] = failures[s] /\ seatErrors'[s] = seatErrors[s]
      /\ due'[s] = due[s] /\ window'[s] = window[s] /\ fate'[s] = fate[s] /\ answer'[s] = answer[s]
  BY <1>1 DEF SeatTypeOK, passVars, auditVars, errorVars, seatVars, BeginWrite
<1>3. /\ attempts'[s] = attempts[s] /\ paid'[s] = paid[s] /\ recorded'[s] = recorded[s]
  BY <1>1 DEF SeatTypeOK, passVars, auditVars, errorVars, seatVars, BeginWrite
<1>4. /\ passOutcome' = passOutcome /\ now' = now /\ provider' = provider
      /\ gone' = gone /\ writer' = s
  BY <1>1 DEF passVars, auditVars, errorVars, seatVars, BeginWrite
<1>5. OnlySeat(s)
  BY <1>1 DEF SeatTypeOK, OnlySeat, passVars, auditVars, errorVars, seatVars, BeginWrite
<1>6. PassTyped'
  BY <1>1 DEF PassTyped, passVars, auditVars, errorVars, seatVars, BeginWrite
<1>7. SeatTyped(s)'
  BY <1>1, <1>2, <1>3 DEF SeatTyped, Places, InCall, InWrite, Over, Reason
<1>8. CallsInv(s)'
  BY <1>1, <1>2, <1>3, <1>4, NothingCounted DEF CallsInv, InCall, InWrite, Over
<1>9. ReasonInv(s)'
  BY <1>1, <1>2, <1>3, <1>4, CountersAreNumbers DEF ReasonInv, Explained, InCall, InWrite, NoReason
<1>10. PassStays(s) /\ at[s] \notin Over
  BY <1>1, <1>2, <1>4, SeatAssumption DEF LockInv, PassStays, InCall, InWrite, Over, SeatAssumption
<1> QED BY <1>5, <1>6, <1>7, <1>8, <1>9, <1>10, SeatStep

LEMMA GiveUpKeepsSeatInv ==
    ASSUME NEW s \in Seat, SeatInv, GiveUp(s)
    PROVE  SeatInv'
<1>1. /\ SeatTypeOK /\ LockInv /\ CallsInv(s) /\ ReasonInv(s)
      /\ SeatTyped(s) /\ PassTyped
  BY SeatsAreTyped DEF SeatInv
<1>2. /\ at[s] = "ready" /\ at'[s] \in {"ended", "absent"} /\ now' = now
      /\ at'[s] = "absent" => reasons'[s] = "deadline" /\ now >= Deadline
      /\ reasons'[s] \in {reasons[s], "deadline"}
      /\ failures'[s] = failures[s] /\ seatErrors'[s] = seatErrors[s]
      /\ due'[s] = due[s] /\ window'[s] = window[s] /\ fate'[s] = fate[s] /\ answer'[s] = answer[s]
  BY <1>1 DEF SeatTypeOK, passVars, auditVars, errorVars, seatVars, GiveUp, Absent, Goto
<1>3. /\ attempts'[s] = attempts[s] /\ paid'[s] = paid[s] /\ recorded'[s] = recorded[s]
  BY <1>1 DEF SeatTypeOK, passVars, auditVars, errorVars, seatVars, GiveUp, Absent, Goto
<1>4. /\ passOutcome' = passOutcome /\ now' = now /\ provider' = provider
      /\ gone' = gone /\ writer' = writer
  BY <1>1 DEF passVars, auditVars, errorVars, seatVars, GiveUp, Absent, Goto
<1>5. OnlySeat(s)
  BY <1>1 DEF SeatTypeOK, OnlySeat, passVars, auditVars, errorVars, seatVars, GiveUp, Absent, Goto
<1>6. PassTyped'
  BY <1>1 DEF PassTyped, passVars, auditVars, errorVars, seatVars, GiveUp
<1>7. SeatTyped(s)'
  BY <1>1, <1>2, <1>3 DEF SeatTyped, Places, InCall, InWrite, Over, Reason
<1>8. CallsInv(s)'
  BY <1>1, <1>2, <1>3, <1>4, NothingCounted DEF CallsInv, InCall, InWrite, Over
<1>9. ReasonInv(s)'
  BY <1>1, <1>2, <1>3, <1>4, CountersAreNumbers DEF ReasonInv, Explained, InCall, InWrite, NoReason
<1>10. PassStays(s) /\ at[s] \notin Over
  BY <1>1, <1>2, <1>4, SeatAssumption DEF LockInv, PassStays, InCall, InWrite, Over, SeatAssumption
<1> QED BY <1>5, <1>6, <1>7, <1>8, <1>9, <1>10, SeatStep

LEMMA AskNobodyKeepsSeatInv ==
    ASSUME NEW s \in Seat, SeatInv, AskNobody(s)
    PROVE  SeatInv'
<1>1. /\ SeatTypeOK /\ LockInv /\ CallsInv(s) /\ ReasonInv(s)
      /\ SeatTyped(s) /\ PassTyped
  BY SeatsAreTyped DEF SeatInv
<1>2. /\ at[s] = "ready" /\ at'[s] = "absent" /\ ~provider
      /\ reasons'[s] = "no provider" /\ failures'[s] = failures[s] /\ seatErrors'[s] = seatErrors[s]
      /\ due'[s] = due[s] /\ window'[s] = window[s] /\ fate'[s] = fate[s] /\ answer'[s] = answer[s]
  BY <1>1 DEF SeatTypeOK, passVars, auditVars, errorVars, seatVars, AskNobody, Absent, Goto
<1>3. /\ attempts'[s] = attempts[s] + 1 /\ paid'[s] = paid[s] /\ recorded'[s] = recorded[s]
  BY <1>1 DEF SeatTypeOK, passVars, auditVars, errorVars, seatVars, AskNobody, Absent, Goto
<1>4. /\ passOutcome' = passOutcome /\ now' = now /\ provider' = provider
      /\ gone' = gone /\ writer' = writer
  BY <1>1 DEF passVars, auditVars, errorVars, seatVars, AskNobody, Absent, Goto
<1>5. OnlySeat(s)
  BY <1>1 DEF SeatTypeOK, OnlySeat, passVars, auditVars, errorVars, seatVars, AskNobody, Absent, Goto
<1>a. attempts[s] + 1 \in 0..MaxAttempts
  BY <1>1, <1>2, OneMore DEF CallsInv, SeatTyped
<1>6. PassTyped'
  BY <1>1 DEF PassTyped, passVars, auditVars, errorVars, seatVars, AskNobody
<1>7. SeatTyped(s)'
  BY <1>1, <1>2, <1>3, <1>a DEF SeatTyped, Places, InCall, InWrite, Over, Reason
<1>8. CallsInv(s)'
  BY <1>1, <1>2, <1>3, <1>4, CallMade DEF CallsInv, InCall, InWrite, Over
<1>9. ReasonInv(s)'
  BY <1>1, <1>2, <1>3, <1>4, CountersAreNumbers DEF ReasonInv, Explained, InCall, InWrite, NoReason
<1>10. PassStays(s) /\ at[s] \notin Over
  BY <1>1, <1>2, <1>4, SeatAssumption DEF LockInv, PassStays, InCall, InWrite, Over, SeatAssumption
<1> QED BY <1>5, <1>6, <1>7, <1>8, <1>9, <1>10, SeatStep

LEMMA AskSeatKeepsSeatInv ==
    ASSUME NEW s \in Seat, SeatInv, AskSeat(s)
    PROVE  SeatInv'
<1>1. /\ SeatTypeOK /\ LockInv /\ CallsInv(s) /\ ReasonInv(s)
      /\ SeatTyped(s) /\ PassTyped
  BY SeatsAreTyped DEF SeatInv
<1>2. /\ at[s] = "ready" /\ at'[s] = "streaming"
      /\ failures'[s] = NoReason /\ seatErrors'[s] = NoReason /\ reasons'[s] = reasons[s]
      /\ due'[s] = now + CallWindow /\ now < Deadline
      /\ window'[s] \in {"attempt", "deadline"} /\ fate'[s] = fate[s] /\ answer'[s] = answer[s]
  BY <1>1 DEF SeatTypeOK, passVars, auditVars, errorVars, seatVars, AskSeat, Goto, MayAsk
<1>3. /\ attempts'[s] = attempts[s] + 1 /\ paid'[s] = paid[s] /\ recorded'[s] = recorded[s]
  BY <1>1 DEF SeatTypeOK, passVars, auditVars, errorVars, seatVars, AskSeat, Goto, MayAsk
<1>4. /\ passOutcome' = passOutcome /\ now' = now /\ provider' = provider
      /\ gone' = gone /\ writer' = writer
  BY <1>1 DEF passVars, auditVars, errorVars, seatVars, AskSeat, Goto, MayAsk
<1>5. OnlySeat(s)
  BY <1>1 DEF SeatTypeOK, OnlySeat, passVars, auditVars, errorVars, seatVars, AskSeat, Goto, MayAsk
<1>a. attempts[s] + 1 \in 0..MaxAttempts
  BY <1>1, <1>2, OneMore DEF CallsInv, SeatTyped
<1>b. now + CallWindow \in 0..Deadline + 1
  <2>1. now \in 0..Deadline + 1 /\ now < Deadline /\ Deadline \in Nat /\ AttemptTimeout \in Nat
    BY <1>1, <1>2, Numbers DEF PassTyped
  <2>2. CallWindow \in 0..Deadline - now
    BY <2>1 DEF CallWindow, Smaller
  <2> QED BY <2>1, <2>2
<1>6. PassTyped'
  BY <1>1 DEF PassTyped, passVars, auditVars, errorVars, seatVars, Reason, AskSeat
<1>7. SeatTyped(s)'
  BY <1>1, <1>2, <1>3, <1>a, <1>b DEF SeatTyped, Places, InCall, InWrite, Over, Reason
<1>8. CallsInv(s)'
  BY <1>1, <1>2, <1>3, <1>4, CallMade DEF CallsInv, InCall, InWrite, Over
<1>9. ReasonInv(s)'
  BY <1>1, <1>2, <1>3, <1>4, CountersAreNumbers DEF ReasonInv, Explained, InCall, InWrite, NoReason
<1>10. PassStays(s) /\ at[s] \notin Over
  BY <1>1, <1>2, <1>4, SeatAssumption DEF LockInv, PassStays, InCall, InWrite, Over, SeatAssumption
<1> QED BY <1>5, <1>6, <1>7, <1>8, <1>9, <1>10, SeatStep

LEMMA VendorAnswersKeepsSeatInv ==
    ASSUME NEW s \in Seat, SeatInv, VendorAnswers(s)
    PROVE  SeatInv'
<1>1. /\ SeatTypeOK /\ LockInv /\ CallsInv(s) /\ ReasonInv(s)
      /\ SeatTyped(s) /\ PassTyped
  BY SeatsAreTyped DEF SeatInv
<1>2. /\ at[s] \in InCall /\ at'[s] = "recording"
      /\ answer'[s] \in {"ok", "quarantined"} /\ due'[s] = due[s] /\ window'[s] = window[s] /\ fate'[s] = fate[s]
      /\ reasons'[s] = reasons[s] /\ failures'[s] = failures[s] /\ seatErrors'[s] = seatErrors[s]
  <2>1. at[s] \in InCall
    BY DEF VendorAnswers, InCall
  <2>2. answer'[s] \in {"ok", "quarantined"}
    BY <1>1 DEF SeatTypeOK, VendorAnswers
  <2> QED BY <1>1, <2>1, <2>2 DEF SeatTypeOK, errorVars, VendorAnswers, Goto
<1>3. /\ paid'[s] = paid[s] + 1 /\ attempts'[s] = attempts[s] /\ recorded'[s] = recorded[s]
  BY <1>1 DEF SeatTypeOK, passVars, auditVars, errorVars, seatVars, VendorAnswers, Goto
<1>4. /\ passOutcome' = passOutcome /\ now' = now /\ provider' = provider
      /\ gone' = gone /\ writer' = writer
  BY <1>1 DEF passVars, auditVars, errorVars, seatVars, VendorAnswers, Goto
<1>5. OnlySeat(s)
  BY <1>1 DEF SeatTypeOK, OnlySeat, passVars, auditVars, errorVars, seatVars, VendorAnswers, Goto
<1>a. paid[s] + 1 \in 0..MaxAttempts
  BY <1>1, <1>2, CountersAreNumbers, Numbers DEF CallsInv, SeatTyped
<1>6. PassTyped'
  <2>1. open' \subseteq Seat
    BY <1>1 DEF PassTyped, VendorAnswers
  <2> QED BY <1>1, <2>1 DEF PassTyped, passVars, errorVars, VendorAnswers
<1>7. SeatTyped(s)'
  BY <1>1, <1>2, <1>3, <1>a DEF SeatTyped, Places, InCall, InWrite, Over, Reason
<1>8. CallsInv(s)'
  BY <1>1, <1>2, <1>3, <1>4, CallAnswered DEF CallsInv, InCall, InWrite, Over
<1>9. ReasonInv(s)'
  BY <1>1, <1>2, <1>3, <1>4, CountersAreNumbers DEF ReasonInv, Explained, InCall, InWrite, NoReason
<1>10. PassStays(s) /\ at[s] \notin Over
  BY <1>1, <1>2, <1>4, SeatAssumption DEF LockInv, PassStays, InCall, InWrite, Over, SeatAssumption
<1> QED BY <1>5, <1>6, <1>7, <1>8, <1>9, <1>10, SeatStep

LEMMA VendorFailsKeepsSeatInv ==
    ASSUME NEW s \in Seat, SeatInv, VendorFails(s)
    PROVE  SeatInv'
<1>1. /\ SeatTypeOK /\ LockInv /\ CallsInv(s) /\ ReasonInv(s)
      /\ SeatTyped(s) /\ PassTyped
  BY SeatsAreTyped DEF SeatInv
<1>2. /\ at[s] = "invoking" /\ at'[s] = "returning"
      /\ seatErrors'[s] = failures'[s] /\ failures'[s] \in {"unreachable", "refused"}
      /\ reasons'[s] = reasons[s]
      /\ due'[s] = due[s] /\ window'[s] = window[s] /\ fate'[s] = fate[s] /\ answer'[s] = answer[s]
  BY <1>1 DEF SeatTypeOK, passVars, auditVars, errorVars, seatVars, VendorFails, RecordError, Goto
<1>3. /\ attempts'[s] = attempts[s] /\ paid'[s] = paid[s] /\ recorded'[s] = recorded[s]
  BY <1>1 DEF SeatTypeOK, passVars, auditVars, errorVars, seatVars, VendorFails, RecordError, Goto
<1>4. /\ passOutcome' = passOutcome /\ now' = now /\ provider' = provider
      /\ gone' = gone /\ writer' = writer
  BY <1>1 DEF passVars, auditVars, errorVars, seatVars, VendorFails, RecordError, Goto
<1>5. OnlySeat(s)
  BY <1>1 DEF SeatTypeOK, OnlySeat, passVars, auditVars, errorVars, seatVars, VendorFails, RecordError, Goto
<1>6. PassTyped'
  BY <1>1 DEF PassTyped, passVars, auditVars, errorVars, seatVars, Reason, RecordError, VendorFails
<1>7. SeatTyped(s)'
  BY <1>1, <1>2, <1>3 DEF SeatTyped, Places, InCall, InWrite, Over, Reason
<1>8. CallsInv(s)'
  BY <1>1, <1>2, <1>3, <1>4, NothingCounted DEF CallsInv, InCall, InWrite, Over
<1>9. ReasonInv(s)'
  BY <1>1, <1>2, <1>3, <1>4, CountersAreNumbers DEF ReasonInv, Explained, InCall, InWrite, NoReason
<1>10. PassStays(s) /\ at[s] \notin Over
  BY <1>1, <1>2, <1>4, SeatAssumption DEF LockInv, PassStays, InCall, InWrite, Over, SeatAssumption
<1> QED BY <1>5, <1>6, <1>7, <1>8, <1>9, <1>10, SeatStep

(***************************************************************************)
(* A call is cut off, or its row is written                                *)
(***************************************************************************)

\* A pause ends by the deadline.
LEMMA PauseIsBounded ==
    ASSUME NEW s \in Seat, SeatTypeOK
    PROVE  now + Smaller(Pause * attempts[s], Deadline - Smaller(now, Deadline)) \in 0..Deadline + 1
<1>1. now \in 0..Deadline + 1 /\ Deadline \in Nat
  BY Numbers DEF SeatTypeOK
<1>2. Pause * attempts[s] \in Nat
  <2>1. Pause \in Nat /\ attempts[s] \in Nat
    BY Numbers, SeatsAreTyped, CountersAreNumbers
  <2> QED BY <2>1
<1>3. Deadline - Smaller(now, Deadline) \in Nat /\ now + (Deadline - Smaller(now, Deadline)) <= Deadline + 1
  BY <1>1 DEF Smaller
<1>4. \A a, b \in Nat : Smaller(a, b) \in Nat /\ Smaller(a, b) <= b
  BY DEF Smaller
<1> DEFINE left == Deadline - Smaller(now, Deadline)
           wait == Smaller(Pause * attempts[s], left)
<1>5. wait \in Nat /\ wait <= left
  BY <1>2, <1>3, <1>4
<1>6. left \in Nat /\ now + left <= Deadline + 1
  BY <1>3
<1> HIDE DEF left, wait
<1>7. now + wait \in 0..Deadline + 1
  BY <1>1, <1>5, <1>6
<1> QED BY <1>7 DEF wait, left

\* A seat that has failed is asked again or is absent for the reason given.
LEMMA FailureIsRetriedOrExplained ==
    ASSUME NEW s \in Seat, SeatTypeOK, NEW why \in Reason, Retry(s, why)
    PROVE  /\ at' = [at EXCEPT ![s] = at'[s]] /\ at'[s] \in {"absent", "pausing"}
           /\ reasons' = [reasons EXCEPT ![s] = reasons'[s]] /\ reasons'[s] \in Reason
           /\ due' = [due EXCEPT ![s] = due'[s]] /\ due'[s] \in 0..Deadline + 1
           /\ at'[s] = "absent" => reasons'[s] = why
           /\ at'[s] = "pausing" => attempts[s] < MaxAttempts
<1>1. CASE attempts[s] >= MaxAttempts
  BY <1>1 DEF SeatTypeOK, Retry, Absent, Goto
<1>2. CASE ~(attempts[s] >= MaxAttempts)
  <2>1. attempts[s] < MaxAttempts
    BY <1>2, SeatsAreTyped, CountersAreNumbers
  <2> DEFINE until == now + Smaller(Pause * attempts[s], Deadline - Smaller(now, Deadline))
  <2>2. until \in 0..Deadline + 1
    BY PauseIsBounded
  <2>3. at' = [at EXCEPT ![s] = "pausing"] /\ due' = [due EXCEPT ![s] = until] /\ reasons' = reasons
    BY <1>2 DEF Retry, Goto
  <2> HIDE DEF until
  <2> QED BY <2>1, <2>2, <2>3 DEF SeatTypeOK
<1> QED BY <1>1, <1>2

\* How the turn of a seat whose call is cut off goes on.
CallIsOver(s) ==
    /\ at' = [at EXCEPT ![s] = at'[s]]
    /\ reasons' = [reasons EXCEPT ![s] = reasons'[s]]
    /\ failures' = [failures EXCEPT ![s] = failures'[s]]
    /\ due' = [due EXCEPT ![s] = due'[s]]
    /\ at'[s] \in {"absent", "pausing", "raised", "ended"}
    /\ reasons'[s] \in Reason /\ failures'[s] \in Reason /\ due'[s] \in 0..Deadline + 1
    /\ at'[s] = "absent" => reasons'[s] = failures'[s] /\ failures'[s] # NoReason
    /\ at'[s] = "pausing" => attempts[s] < MaxAttempts
    /\ open' \subseteq Seat /\ ending' \in BOOLEAN
    /\ raised' \in {NoReason, "cancelled", "session lost"}
    /\ passOutcome' = passOutcome /\ cancelled' = cancelled

LEMMA TimeoutEndsTheCall ==
    ASSUME NEW s \in Seat, SeatTypeOK, TimedOut(s), UNCHANGED <<open, passVars>>
    PROVE  CallIsOver(s)
<1>1. window[s] \in Reason /\ window[s] # NoReason
  BY DEF SeatTypeOK, Reason, NoReason
<1>2. Retry(s, window[s]) /\ failures' = [failures EXCEPT ![s] = window[s]]
  BY DEF TimedOut
<1>3. failures' = [failures EXCEPT ![s] = failures'[s]] /\ failures'[s] = window[s]
  BY <1>2 DEF SeatTypeOK
<1>4. /\ open' \subseteq Seat /\ ending' \in BOOLEAN
      /\ raised' \in {NoReason, "cancelled", "session lost"}
      /\ passOutcome' = passOutcome /\ cancelled' = cancelled
  BY DEF SeatTypeOK, passVars
<1> QED BY <1>1, <1>2, <1>3, <1>4, FailureIsRetriedOrExplained DEF CallIsOver

LEMMA RaisingEndsTheCall ==
    ASSUME NEW s \in Seat, SeatTypeOK, NEW what \in {"cancelled", "session lost"},
           Raise(s, what), UNCHANGED <<due, reasons, failures>>
    PROVE  CallIsOver(s)
<1>1. at' = [at EXCEPT ![s] = at'[s]] /\ at'[s] = "raised"
  BY DEF SeatTypeOK, Raise, Goto
<1>2. /\ open' \subseteq Seat /\ ending' \in BOOLEAN
      /\ raised' \in {NoReason, "cancelled", "session lost"}
      /\ passOutcome' = passOutcome /\ cancelled' = cancelled
  BY DEF SeatTypeOK, Raise
<1>3. /\ reasons' = [reasons EXCEPT ![s] = reasons'[s]]
      /\ failures' = [failures EXCEPT ![s] = failures'[s]]
      /\ due' = [due EXCEPT ![s] = due'[s]]
      /\ reasons'[s] \in Reason /\ failures'[s] \in Reason /\ due'[s] \in 0..Deadline + 1
  BY DEF SeatTypeOK
<1> QED BY <1>1, <1>2, <1>3 DEF CallIsOver

LEMMA CuttingOffEndsTheCall ==
    ASSUME NEW s \in Seat, SeatTypeOK, CutOff(s)
    PROVE  CallIsOver(s)
<1>1. CASE fate[s] = "timeout" /\ TimedOut(s) /\ UNCHANGED <<open, passVars>>
  BY <1>1, TimeoutEndsTheCall
<1>2. CASE fate[s] = "stop" /\ Raise(s, "cancelled") /\ UNCHANGED <<due, reasons, failures>>
  BY <1>2, RaisingEndsTheCall
<1>3. CASE /\ fate[s] = "cancel" /\ Goto(s, "ended")
           /\ UNCHANGED <<due, reasons, failures, open, passVars>>
  <2>1. at' = [at EXCEPT ![s] = at'[s]] /\ at'[s] = "ended"
    BY <1>3 DEF SeatTypeOK, Goto
  <2>2. /\ reasons' = [reasons EXCEPT ![s] = reasons'[s]]
        /\ failures' = [failures EXCEPT ![s] = failures'[s]]
        /\ due' = [due EXCEPT ![s] = due'[s]]
        /\ reasons'[s] \in Reason /\ failures'[s] \in Reason /\ due'[s] \in 0..Deadline + 1
    BY <1>3 DEF SeatTypeOK
  <2>3. /\ open' \subseteq Seat /\ ending' \in BOOLEAN
        /\ raised' \in {NoReason, "cancelled", "session lost"}
        /\ passOutcome' = passOutcome /\ cancelled' = cancelled
    BY <1>3 DEF SeatTypeOK, passVars
  <2> QED BY <2>1, <2>2, <2>3 DEF CallIsOver
<1> QED BY <1>1, <1>2, <1>3 DEF CutOff

\* The end of a call keeps the invariant, if its row is accounted for.
LEMMA TheEndOfACall ==
    ASSUME NEW s \in Seat, SeatInv, at[s] \in InCall \cup InWrite, CallIsOver(s),
           UNCHANGED <<phase, provider, now, stop, attempts, window, fate, answer, paid,
                       seatErrors, lastError, used>>,
           recorded' = [recorded EXCEPT ![s] = recorded'[s]],
           recorded'[s] \in 0..MaxAttempts,
           gone' \in BOOLEAN, gone => gone', writer' \in {writer, Nobody}, writer' # s,
           CallsInv(s)'
    PROVE  SeatInv'
<1>1. SeatTypeOK /\ ReasonInv(s) /\ SeatTyped(s) /\ PassTyped
  BY SeatsAreTyped DEF SeatInv
<1>2. OnlySeat(s)
  BY <1>1 DEF SeatTypeOK, OnlySeat, CallIsOver
<1>3. PassTyped'
  BY <1>1 DEF PassTyped, CallIsOver
<1>4. SeatTyped(s)'
  BY <1>1 DEF SeatTyped, CallIsOver, Places, Over
<1>5. ReasonInv(s)'
  BY <1>1, CountersAreNumbers DEF ReasonInv, Explained, CallIsOver, InCall, InWrite
<1>6. PassStays(s) /\ at[s] \notin Over
  BY DEF PassStays, CallIsOver, InCall, InWrite, Over
<1> QED BY <1>2, <1>3, <1>4, <1>5, <1>6, SeatStep

\* A write that is cut off goes on.
LEMMA TheWriteGoesOn ==
    ASSUME NEW s \in Seat, SeatInv, at[s] = "recording",
           NEW why \in {"timeout", "stop"}, Shielded(s, why),
           UNCHANGED <<phase, provider, now, stop, open, attempts, due, window, reasons, failures,
                       errorVars, passVars, auditVars, used>>
    PROVE  SeatInv'
<1>1. SeatTypeOK /\ CallsInv(s) /\ ReasonInv(s) /\ SeatTyped(s) /\ PassTyped
  BY SeatsAreTyped DEF SeatInv
<1>2. at'[s] = "dropped" /\ fate'[s] = why /\ OnlySeat(s)
  BY <1>1 DEF SeatTypeOK, OnlySeat, Shielded, Goto, errorVars, auditVars
<1>3. PassTyped'
  BY <1>1 DEF PassTyped, errorVars, passVars, auditVars
<1>4. SeatTyped(s)'
  BY <1>1, <1>2 DEF SeatTyped, Places, InWrite, errorVars, auditVars
<1>5. attempts'[s] = attempts[s] /\ paid'[s] = paid[s] /\ recorded'[s] = recorded[s] /\ gone' = gone
  BY DEF auditVars
<1>6. CallsInv(s)'
  BY <1>1, <1>2, <1>5, NothingCounted DEF InCall, InWrite
<1>7. ReasonInv(s)'
  BY <1>1, <1>2, <1>5 DEF ReasonInv, InCall, InWrite
<1>8. PassStays(s) /\ at[s] \notin Over
  BY <1>2 DEF PassStays, passVars, auditVars, InWrite, Over
<1> QED BY <1>2, <1>3, <1>4, <1>6, <1>7, <1>8, SeatStep

LEMMA ReturnKeepsSeatInv ==
    ASSUME NEW s \in Seat, SeatInv, Return(s)
    PROVE  SeatInv'
<1>1. SeatTypeOK /\ LockInv /\ CallsInv(s) /\ ReasonInv(s) /\ SeatTyped(s) /\ PassTyped
  BY SeatsAreTyped DEF SeatInv
<1>2. seatErrors[s] = failures[s] /\ failures[s] # NoReason /\ failures[s] \in Reason
  BY <1>1 DEF Return, ReasonInv, SeatTyped
<1>3. Retry(s, failures[s])
  BY <1>2 DEF Return, SeatError
<1>4. /\ at' = [at EXCEPT ![s] = at'[s]] /\ at'[s] \in {"absent", "pausing"}
      /\ reasons' = [reasons EXCEPT ![s] = reasons'[s]] /\ reasons'[s] \in Reason
      /\ due' = [due EXCEPT ![s] = due'[s]] /\ due'[s] \in 0..Deadline + 1
      /\ at'[s] = "absent" => reasons'[s] = failures[s]
      /\ at'[s] = "pausing" => attempts[s] < MaxAttempts
  BY <1>1, <1>2, <1>3, FailureIsRetriedOrExplained
<1>5. OnlySeat(s)
  BY <1>1, <1>4 DEF SeatTypeOK, OnlySeat, Return, errorVars, auditVars
<1>6. PassTyped'
  BY <1>1 DEF PassTyped, Return, errorVars, passVars, auditVars
<1>7. SeatTyped(s)'
  BY <1>1, <1>4 DEF SeatTyped, Places, Over, Return, errorVars, auditVars
<1>8. /\ attempts'[s] = attempts[s] /\ paid'[s] = paid[s] /\ recorded'[s] = recorded[s]
      /\ gone' = gone /\ failures'[s] = failures[s] /\ at[s] = "returning"
  BY DEF Return, auditVars
<1>9. CallsInv(s)'
  BY <1>1, <1>4, <1>8, NothingCounted DEF InCall, InWrite
<1>10. ReasonInv(s)'
  BY <1>1, <1>2, <1>4, <1>8, CountersAreNumbers DEF ReasonInv, Explained, InCall, InWrite
<1>11. PassStays(s) /\ at[s] \notin Over
  <2>1. writer # s
    BY <1>1, <1>8, SeatAssumption DEF LockInv, InWrite, SeatAssumption
  <2>2. passOutcome' = passOutcome /\ now' = now /\ provider' = provider /\ writer' = writer
    BY DEF Return, passVars, auditVars
  <2> QED BY <1>8, <2>1, <2>2 DEF PassStays, Over
<1> QED BY <1>5, <1>6, <1>7, <1>9, <1>10, <1>11, SeatStep

\* What a call that is cut off while it is asked has counted.
LEMMA ACallThatIsCutOff ==
    ASSUME NEW s \in Seat, SeatInv, at[s] \in InCall, CallIsOver(s),
           UNCHANGED <<phase, provider, now, stop, attempts, window, fate, seatErrors, lastError,
                       used, auditVars>>
    PROVE  SeatInv'
<1>1. SeatTypeOK /\ LockInv /\ CallsInv(s) /\ SeatTyped(s)
  BY SeatsAreTyped DEF SeatInv
<1>2. /\ attempts'[s] = attempts[s] /\ paid'[s] = paid[s] /\ recorded'[s] = recorded[s]
      /\ gone' = gone /\ writer' = writer
  BY DEF auditVars
<1>3. CallsInv(s)'
  BY <1>1, <1>2, NothingCounted DEF CallIsOver, InCall, InWrite
<1>4. writer' # s
  BY <1>1, <1>2, SeatAssumption DEF LockInv, InCall, InWrite, SeatAssumption
<1>5. /\ recorded' = [recorded EXCEPT ![s] = recorded'[s]] /\ recorded'[s] \in 0..MaxAttempts
      /\ gone' \in BOOLEAN
  BY <1>1 DEF SeatTypeOK, auditVars
<1> QED BY <1>2, <1>3, <1>4, <1>5, TheEndOfACall DEF auditVars

LEMMA AttemptTimesOutKeepsSeatInv ==
    ASSUME NEW s \in Seat, SeatInv, AttemptTimesOut(s)
    PROVE  SeatInv'
<1>1. CASE at[s] \in InCall /\ TimedOut(s) /\ UNCHANGED fate
  <2>1. CallIsOver(s)
    BY <1>1, TimeoutEndsTheCall DEF SeatInv, AttemptTimesOut
  <2> QED BY <1>1, <2>1, ACallThatIsCutOff DEF AttemptTimesOut, errorVars
<1>2. CASE at[s] = "recording" /\ Shielded(s, "timeout") /\ UNCHANGED <<due, reasons, failures>>
  BY <1>2, TheWriteGoesOn DEF AttemptTimesOut
<1> QED BY <1>1, <1>2 DEF AttemptTimesOut

LEMMA StopSeenKeepsSeatInv ==
    ASSUME NEW s \in Seat, SeatInv, StopSeen(s)
    PROVE  SeatInv'
<1>1. CASE at[s] \in InCall /\ Raise(s, "cancelled") /\ UNCHANGED fate
  <2>1. CallIsOver(s)
    BY <1>1, RaisingEndsTheCall DEF SeatInv, StopSeen
  <2> QED BY <1>1, <2>1, ACallThatIsCutOff DEF StopSeen, errorVars
<1>2. CASE at[s] = "recording" /\ Shielded(s, "stop") /\ UNCHANGED <<open, passVars>>
  BY <1>2, TheWriteGoesOn DEF StopSeen
<1> QED BY <1>1, <1>2 DEF StopSeen

\* The counters when a row is committed.
LEMMA TheRowIsCommitted ==
    ASSUME NEW s \in Seat, SeatInv, Recorded(s)
    PROVE  /\ at[s] \in InWrite /\ writer' = Nobody
           /\ recorded' = [recorded EXCEPT ![s] = recorded'[s]]
           /\ recorded'[s] = recorded[s] + 1 /\ recorded'[s] \in 0..MaxAttempts
<1>1. SeatTypeOK /\ CallsInv(s) /\ SeatTyped(s)
  BY SeatsAreTyped DEF SeatInv
<1>2. at[s] \in InWrite /\ writer' = Nobody
  BY DEF Recorded, InWrite
<1>3. recorded' = [recorded EXCEPT ![s] = recorded[s] + 1] /\ recorded'[s] = recorded[s] + 1
  BY <1>1 DEF Recorded, SeatTypeOK
<1>4. recorded[s] + 1 <= paid[s] /\ paid[s] \in 0..MaxAttempts
  BY <1>1, <1>2 DEF CallsInv, Recording, SeatTyped
<1>5. recorded[s] + 1 \in 0..MaxAttempts
  BY <1>1, <1>4, CountersAreNumbers
<1> QED BY <1>2, <1>3, <1>5

LEMMA ChargesStayInBudget ==
    ASSUME used \in 0..ModelBudget, ConsumeModelCost
    PROVE  used' \in 0..ModelBudget
<1>1. CallCost \in Nat /\ ModelBudget \in Nat
  BY Numbers
<1> QED BY <1>1 DEF ConsumeModelCost, Smaller

LEMMA RecordedKeepsSeatInv ==
    ASSUME NEW s \in Seat, SeatInv, Recorded(s)
    PROVE  SeatInv'
<1>1. SeatTypeOK /\ LockInv /\ CallsInv(s) /\ ReasonInv(s) /\ SeatTyped(s) /\ PassTyped
  BY SeatsAreTyped DEF SeatInv
<1>2. /\ at[s] \in InWrite /\ writer' = Nobody
      /\ recorded' = [recorded EXCEPT ![s] = recorded'[s]]
      /\ recorded'[s] = recorded[s] + 1 /\ recorded'[s] \in 0..MaxAttempts
  BY TheRowIsCommitted
<1>3. UNCHANGED <<phase, provider, now, stop, attempts, window, fate, answer, paid, gone>>
  BY DEF Recorded
<1>4. Nobody # s
  BY SeatAssumption DEF SeatAssumption
<1>5. CASE at[s] = "dropped" /\ CutOff(s)
  <2>1. CallIsOver(s)
    BY <1>1, <1>5, CuttingOffEndsTheCall
  <2>2. CallsInv(s)'
    <3>1. at'[s] \in Over \cup {"returning", "pausing"} /\ (at'[s] = "pausing" => attempts[s] < MaxAttempts)
      BY <2>1 DEF CallIsOver, Over
    <3>2. attempts'[s] = attempts[s] /\ paid'[s] = paid[s] /\ gone' = gone
      BY <1>3
    <3> QED BY <1>1, <1>2, <3>1, <3>2, CallRecorded
  <2>3. seatErrors' = seatErrors /\ lastError' = lastError /\ used' = used
    BY <1>5 DEF CutOff
  <2>4. gone' \in BOOLEAN /\ (gone => gone')
    BY <1>1, <1>3 DEF SeatTypeOK
  <2> QED BY <1>2, <1>3, <1>4, <2>1, <2>2, <2>3, <2>4, TheEndOfACall
<1>6. CASE at[s] = "recording" /\ at'[s] \in {"answered", "returning"}
  <2>0. /\ ConsumeModelCost /\ open' = open \ {s}
        /\ UNCHANGED <<due, reasons, passVars>>
        /\ \/ Goto(s, "answered") /\ UNCHANGED <<errorVars, failures>>
           \/ Goto(s, "returning") /\ RecordError(s, "quarantined")
    BY <1>6 DEF Recorded
  <2>1. OnlySeat(s)
    BY <1>1, <1>2, <1>3, <2>0 DEF SeatTypeOK, OnlySeat, RecordError, Goto, errorVars
  <2>2. /\ at'[s] = "returning" => seatErrors'[s] = failures'[s] /\ failures'[s] # NoReason
        /\ seatErrors'[s] \in Reason /\ failures'[s] \in Reason /\ lastError' \in Reason
    <3>1. CASE Goto(s, "answered") /\ UNCHANGED <<errorVars, failures>>
      BY <1>1, <3>1 DEF SeatTypeOK, Goto, errorVars
    <3>2. CASE Goto(s, "returning") /\ RecordError(s, "quarantined")
      BY <1>1, <3>2 DEF SeatTypeOK, RecordError, Reason, NoReason
    <3> QED BY <2>0, <3>1, <3>2
  <2>3. used' \in 0..ModelBudget
    BY <1>1, <2>0, ChargesStayInBudget DEF PassTyped
  <2>4. PassTyped'
    BY <1>1, <1>2, <1>3, <2>0, <2>2, <2>3 DEF PassTyped, passVars
  <2>5. SeatTyped(s)'
    BY <1>1, <1>2, <1>3, <1>6, <2>0, <2>2 DEF SeatTyped, Places, Over
  <2>6. CallsInv(s)'
    <3>1. at'[s] \in Over \cup {"returning", "pausing"} /\ (at'[s] = "pausing" => attempts[s] < MaxAttempts)
      BY <1>6 DEF Over
    <3>2. attempts'[s] = attempts[s] /\ paid'[s] = paid[s] /\ gone' = gone
      BY <1>3
    <3> QED BY <1>1, <1>2, <3>1, <3>2, CallRecorded
  <2>7. ReasonInv(s)'
    BY <1>1, <1>2, <1>3, <1>6, <2>2 DEF ReasonInv
  <2>8. PassStays(s) /\ at[s] \notin Over
    BY <1>2, <1>3, <1>4, <1>6, <2>0 DEF PassStays, passVars, Over
  <2> QED BY <2>1, <2>4, <2>5, <2>6, <2>7, <2>8, SeatStep
<1>7. (at[s] = "dropped" /\ CutOff(s)) \/ (at[s] = "recording" /\ at'[s] \in {"answered", "returning"})
  BY <1>1 DEF Recorded, Goto, SeatTypeOK
<1> QED BY <1>5, <1>6, <1>7

LEMMA WriteFailsKeepsSeatInv ==
    ASSUME NEW s \in Seat, SeatInv, WriteFails(s)
    PROVE  SeatInv'
<1>1. SeatTypeOK /\ LockInv /\ CallsInv(s) /\ SeatTyped(s)
  BY SeatsAreTyped DEF SeatInv
<1>2. /\ at[s] \in InWrite /\ writer' = Nobody /\ gone' = TRUE
      /\ UNCHANGED <<phase, provider, now, stop, attempts, window, fate, answer, paid, recorded>>
  BY DEF WriteFails, InWrite
<1>3. Nobody # s
  BY SeatAssumption DEF SeatAssumption
<1>4. CallIsOver(s) /\ UNCHANGED <<seatErrors, lastError, used>>
  <2>1. CASE at[s] = "dropped" /\ CutOff(s)
    BY <1>1, <2>1, CuttingOffEndsTheCall DEF CutOff
  <2>2. CASE /\ at[s] = "recording" /\ Raise(s, "session lost")
             /\ UNCHANGED <<due, reasons, failures, errorVars, used>>
    BY <1>1, <2>2, RaisingEndsTheCall DEF errorVars
  <2> QED BY <2>1, <2>2 DEF WriteFails
<1>5. CallsInv(s)'
  <2>1. at'[s] \in Over \cup {"pausing"} /\ (at'[s] = "pausing" => attempts[s] < MaxAttempts)
    BY <1>4 DEF CallIsOver, Over
  <2> QED BY <1>1, <1>2, <2>1, CallLost
<1>6. recorded' = [recorded EXCEPT ![s] = recorded'[s]] /\ recorded'[s] \in 0..MaxAttempts
  BY <1>1, <1>2 DEF SeatTypeOK
<1> QED BY <1>2, <1>3, <1>4, <1>5, <1>6, TheEndOfACall

(***************************************************************************)
(* The pass                                                                *)
(***************************************************************************)

LEMMA TheClockIsANumber ==
    ASSUME PassTyped
    PROVE  now \in Nat /\ Deadline \in Nat /\ now >= now
<1>1. now \in 0..Deadline + 1 /\ Deadline \in Nat
  BY Numbers DEF PassTyped
<1> QED BY <1>1

\* A step that leaves the seats where they are; the clock may go on.
LEMMA SeatsStay ==
    ASSUME SeatInv, PassTyped', UNCHANGED <<provider, seatVars, seatErrors, writer, answer, paid,
                                          recorded, gone>>,
           now' >= now, OverInv'
    PROVE  SeatInv'
<1>1. SeatTypeOK'
  BY DEF SeatInv, SeatTypeOK, PassTyped, seatVars
<1>2. LockInv'
  BY DEF SeatInv, LockInv, seatVars
<1>3. ASSUME NEW s \in Seat PROVE CallsInv(s)' /\ ReasonInv(s)'
  <2>1. CallsInv(s)'
    BY DEF SeatInv, CallsInv, Recording, seatVars
  <2>2. now >= Deadline => now' >= Deadline
    <3>1. now \in Nat /\ Deadline \in Nat
      BY TheClockIsANumber, SeatsAreTyped DEF SeatInv
    <3>2. now' \in Nat
      <4>1. now' \in 0..Deadline + 1
        BY DEF PassTyped
      <4> QED BY <3>1, <4>1
    <3> QED BY <3>1, <3>2
  <2>3. Explained(s) => Explained(s)'
    BY <2>2 DEF Explained, seatVars
  <2>4. ReasonInv(s)'
    BY <2>3 DEF SeatInv, ReasonInv, seatVars
  <2> QED BY <2>1, <2>4
<1> QED BY <1>1, <1>2, <1>3 DEF SeatInv

LEMMA RequestStopKeepsSeatInv ==
    ASSUME SeatInv, RequestStop
    PROVE  SeatInv'
<1>1. PassTyped /\ now >= now
  BY SeatsAreTyped, TheClockIsANumber DEF SeatInv
<1>2. PassTyped' /\ now' >= now
  <2>1. PassTyped'
    BY <1>1 DEF PassTyped, RequestStop, errorVars, passVars, auditVars
  <2> QED BY <1>1, <2>1 DEF RequestStop
<1>3. OverInv'
  BY DEF SeatInv, OverInv, RequestStop, passVars, seatVars
<1> QED BY <1>2, <1>3, SeatsStay DEF RequestStop, errorVars, auditVars

LEMMA TickKeepsSeatInv ==
    ASSUME SeatInv, Tick
    PROVE  SeatInv'
<1>1. PassTyped /\ now \in 0..Deadline + 1 /\ Deadline \in Nat
  BY SeatsAreTyped, Numbers DEF SeatInv, PassTyped
<1>2. now' \in 0..Deadline + 1 /\ now' >= now
  BY <1>1 DEF Tick
<1>3. PassTyped'
  BY <1>1, <1>2 DEF PassTyped, Tick, errorVars, passVars, auditVars
<1>4. OverInv'
  BY DEF SeatInv, OverInv, Tick, passVars, seatVars
<1> QED BY <1>2, <1>3, <1>4, SeatsStay DEF Tick, errorVars, auditVars

LEMMA FinishKeepsSeatInv ==
    ASSUME SeatInv, Finish
    PROVE  SeatInv'
<1>1. PassTyped /\ now >= now
  BY SeatsAreTyped, TheClockIsANumber DEF SeatInv
<1>2. passOutcome' \in {"collected", "cancelled", "session lost"}
  BY <1>1 DEF PassTyped, Finish, NoReason
<1>3. PassTyped' /\ now' >= now
  <2>1. PassTyped'
    BY <1>1, <1>2 DEF PassTyped, Finish, errorVars, auditVars
  <2> QED BY <1>1, <2>1 DEF Finish
<1>4. OverInv'
  BY DEF OverInv, Finish, seatVars
<1> QED BY <1>3, <1>4, SeatsStay DEF Finish, errorVars, auditVars

LEMMA StutteringKeepsSeatInv ==
    ASSUME SeatInv, UNCHANGED collectVars
    PROVE  SeatInv'
<1>1. PassTyped /\ now >= now
  BY SeatsAreTyped, TheClockIsANumber DEF SeatInv
<1>2. PassTyped' /\ now' >= now
  <2>1. PassTyped'
    BY <1>1 DEF PassTyped, collectVars, errorVars, passVars, auditVars
  <2> QED BY <1>1, <2>1 DEF collectVars
<1>3. OverInv'
  BY DEF SeatInv, OverInv, collectVars, passVars, seatVars
<1> QED BY <1>2, <1>3, SeatsStay DEF collectVars, errorVars, auditVars

\* The coroutines that are cancelled have nothing more to do but their writes.
LEMMA CancelOthersKeepsSeatInv ==
    ASSUME SeatInv, CancelOthers
    PROVE  SeatInv'
<1>1. SeatTypeOK /\ LockInv /\ OverInv /\ PassTyped
  BY SeatsAreTyped DEF SeatInv
<1>2. ASSUME NEW s \in Seat
      PROVE  /\ at[s] \in Over => at'[s] = at[s]
             /\ at[s] \in InWrite => at'[s] = "dropped"
             /\ at[s] \notin Over \cup InWrite => at'[s] = "ended"
  BY DEF CancelOthers, Over, InWrite
<1>3. at' \in [Seat -> Places] /\ fate' \in [Seat -> {NoReason, "timeout", "stop", "cancel"}]
  <2>1. \A s \in Seat : at'[s] \in Places
    BY <1>2 DEF Places, Over, InWrite
  <2>2. at' = [s \in Seat |-> at'[s]]
    BY DEF CancelOthers
  <2>3. fate' \in [Seat -> {NoReason, "timeout", "stop", "cancel"}]
    BY <1>1 DEF CancelOthers, SeatTypeOK
  <2> QED BY <2>1, <2>2, <2>3
<1>4. SeatTypeOK'
  BY <1>1, <1>3 DEF SeatTypeOK, Places, CancelOthers, errorVars, auditVars
<1>5. LockInv'
  BY <1>1, <1>2 DEF LockInv, SeatTypeOK, CancelOthers, auditVars, InWrite
<1>6. OverInv'
  BY <1>1, <1>2 DEF OverInv, CancelOthers
<1>7. ASSUME NEW s \in Seat PROVE CallsInv(s)' /\ ReasonInv(s)'
  <2>1. /\ attempts' = attempts /\ paid' = paid /\ recorded' = recorded /\ gone' = gone
        /\ reasons' = reasons /\ failures' = failures /\ now' = now /\ provider' = provider
    BY DEF CancelOthers, auditVars
  <2>2. CallsInv(s) /\ ReasonInv(s) /\ SeatTyped(s)
    BY SeatsAreTyped DEF SeatInv
  <2>3. /\ at'[s] \in InWrite <=> at[s] \in InWrite
        /\ at'[s] \notin InCall /\ at'[s] \notin {"waiting", "ready", "pausing", "returning"}
        /\ at'[s] = "absent" => at[s] = "absent"
    BY <1>2 DEF Over, InWrite, InCall
  <2>4. CallsInv(s)'
    BY <2>1, <2>2, <2>3, NothingCounted
  <2>5. ReasonInv(s)'
    BY <2>1, <2>2, <2>3 DEF ReasonInv, Explained
  <2> QED BY <2>4, <2>5
<1> QED BY <1>4, <1>5, <1>6, <1>7 DEF SeatInv

LEMMA NextPhaseKeepsSeatInv ==
    ASSUME SeatInv, NextPhase
    PROVE  SeatInv'
<1>1. SeatTypeOK /\ LockInv /\ OverInv /\ PassTyped
  BY SeatsAreTyped DEF SeatInv
<1>2. writer' = Nobody
  <2>1. writer = Nobody
    <3>1. \A s \in Seat : at[s] \in Over
      BY <1>1 DEF OverInv, NextPhase
    <3> QED BY <1>1, <3>1 DEF PassTyped, LockInv, Over, InWrite
  <2> QED BY <2>1 DEF NextPhase
<1>3. PassTyped'
  <2>1. phase' \in 1..NPhases /\ now' \in 0..Deadline + 1
    <3>1. NPhases \in Nat /\ Deadline \in Nat /\ phase \in 1..NPhases
      BY <1>1, Numbers DEF PassTyped
    <3> QED BY <3>1 DEF NextPhase
  <2> QED BY <1>1, <2>1 DEF PassTyped, NextPhase, errorVars
<1>4. SeatTypeOK'
  <2>1. 0 \in 0..MaxAttempts /\ 0 \in 0..Deadline + 1
    BY Numbers
  <2>2. "waiting" \in Places /\ NoReason \in Reason /\ seatErrors' \in [Seat -> Reason]
    BY <1>1 DEF Places, Reason, NextPhase, errorVars, SeatTypeOK
  <2>3. /\ at' \in [Seat -> Places] /\ attempts' \in [Seat -> 0..MaxAttempts]
        /\ due' \in [Seat -> 0..Deadline + 1]
        /\ paid' \in [Seat -> 0..MaxAttempts] /\ recorded' \in [Seat -> 0..MaxAttempts]
    BY <2>1, <2>2 DEF NextPhase
  <2>4. /\ window' \in [Seat -> {"attempt", "deadline"}]
        /\ reasons' \in [Seat -> Reason] /\ failures' \in [Seat -> Reason]
        /\ fate' \in [Seat -> {NoReason, "timeout", "stop", "cancel"}]
        /\ answer' \in [Seat -> {"ok", "quarantined"}]
    BY <2>2 DEF NextPhase
  <2> QED BY <1>3, <2>2, <2>3, <2>4 DEF SeatTypeOK, PassTyped, Places
<1>5. LockInv' /\ OverInv'
  BY <1>2 DEF LockInv, OverInv, NextPhase
<1>6. ASSUME NEW s \in Seat PROVE CallsInv(s)' /\ ReasonInv(s)'
  <2>1. /\ at'[s] = "waiting" /\ attempts'[s] = 0 /\ paid'[s] = 0 /\ recorded'[s] = 0
    BY DEF NextPhase
  <2>2. MaxAttempts > 0
    BY Numbers
  <2>3. CallsInv(s)'
    BY <2>1, <2>2 DEF CallsInv, Recording, InCall, InWrite
  <2>4. ReasonInv(s)'
    BY <2>1 DEF ReasonInv, InCall, InWrite
  <2> QED BY <2>3, <2>4
<1> QED BY <1>4, <1>5, <1>6 DEF SeatInv

LEMMA InitialState == SeatInit => SeatInv
<1> SUFFICES ASSUME SeatInit PROVE SeatInv
  OBVIOUS
<1>1. PassTyped
  <2>1. phase \in 1..NPhases /\ now \in 0..Deadline + 1 /\ used \in 0..ModelBudget
    <3>1. NPhases \in Nat /\ NPhases > 0 /\ Deadline \in Nat /\ ModelBudget \in Nat
      BY Numbers
    <3> QED BY <3>1 DEF SeatInit, StartOfPass
  <2> QED BY <2>1 DEF PassTyped, SeatInit, StartOfPass, Reason
<1>2. SeatTypeOK
  <2>1. 0 \in 0..MaxAttempts /\ 0 \in 0..Deadline + 1
    BY Numbers
  <2>2. "waiting" \in Places /\ NoReason \in Reason
    BY DEF Places, Reason
  <2>3. /\ at \in [Seat -> Places] /\ attempts \in [Seat -> 0..MaxAttempts]
        /\ due \in [Seat -> 0..Deadline + 1]
        /\ paid \in [Seat -> 0..MaxAttempts] /\ recorded \in [Seat -> 0..MaxAttempts]
    BY <2>1, <2>2 DEF SeatInit, StartOfPass
  <2>4. /\ window \in [Seat -> {"attempt", "deadline"}]
        /\ reasons \in [Seat -> Reason] /\ failures \in [Seat -> Reason]
        /\ seatErrors \in [Seat -> Reason]
        /\ fate \in [Seat -> {NoReason, "timeout", "stop", "cancel"}]
        /\ answer \in [Seat -> {"ok", "quarantined"}]
    BY <2>2 DEF SeatInit, StartOfPass
  <2> QED BY <1>1, <2>3, <2>4 DEF SeatTypeOK, PassTyped, Places
<1>3. LockInv /\ OverInv
  BY DEF SeatInit, StartOfPass, LockInv, OverInv
<1>4. ASSUME NEW s \in Seat PROVE CallsInv(s) /\ ReasonInv(s)
  <2>1. /\ at[s] = "waiting" /\ attempts[s] = 0 /\ paid[s] = 0 /\ recorded[s] = 0
    BY DEF SeatInit, StartOfPass
  <2>2. MaxAttempts > 0
    BY Numbers
  <2>3. CallsInv(s)
    BY <2>1, <2>2 DEF CallsInv, Recording, InCall, InWrite
  <2>4. ReasonInv(s)
    BY <2>1 DEF ReasonInv, InCall, InWrite
  <2> QED BY <2>3, <2>4
<1> QED BY <1>2, <1>3, <1>4 DEF SeatInv

-----------------------------------------------------------------------------

LEMMA StepKeepsSeatInv == SeatInv /\ [SeatNext]_collectVars => SeatInv'
<1> SUFFICES ASSUME SeatInv, [SeatNext]_collectVars PROVE SeatInv'
  OBVIOUS
<1>1. CASE \E s \in Seat : Code(s)
  BY <1>1, TakeKeepsSeatInv, GiveUpKeepsSeatInv, AskNobodyKeepsSeatInv, AskSeatKeepsSeatInv,
     ReturnKeepsSeatInv, WakeKeepsSeatInv, AttemptTimesOutKeepsSeatInv, BeginWriteKeepsSeatInv,
     RecordedKeepsSeatInv, WriteFailsKeepsSeatInv
  DEF Code
<1>2. CASE \E s \in Seat : World(s)
  BY <1>2, StreamFailsKeepsSeatInv, VendorAnswersKeepsSeatInv, VendorFailsKeepsSeatInv, StopSeenKeepsSeatInv
  DEF World
<1>3. CASE Tick \/ CancelOthers \/ Finish \/ NextPhase \/ RequestStop \/ UNCHANGED collectVars
  BY <1>3, TickKeepsSeatInv, CancelOthersKeepsSeatInv, FinishKeepsSeatInv, NextPhaseKeepsSeatInv,
     RequestStopKeepsSeatInv, StutteringKeepsSeatInv
<1> QED BY <1>1, <1>2, <1>3 DEF SeatNext, Progress

LEMMA SeatsKeepSeatInv == SeatSpec => []SeatInv
<1> QED BY InitialState, StepKeepsSeatInv, PTL DEF SeatSpec

\* The type invariant of the collection.
THEOREM SeatsAreTypeCorrect == SeatSpec => []SeatTypeOK
<1>1. SeatInv => SeatTypeOK
  BY DEF SeatInv
<1> QED BY <1>1, SeatsKeepSeatInv, PTL

\* For any number of seats, slots, attempts and phases: when a pass of _collect is over,
\* every call the vendor has answered has its audit row, also the calls a timeout, a stop
\* or another seat's failure cut off, unless the connection was lost.
THEOREM PaidCallsHaveTheirRows == SeatSpec => []PaidCallsAreRecorded
<1>1. SeatInv => PaidCallsAreRecorded
  <2> SUFFICES ASSUME SeatInv, passOutcome # "running"
               PROVE  writer = Nobody /\ (gone \/ paid = recorded)
    BY DEF PaidCallsAreRecorded
  <2>1. SeatTypeOK /\ LockInv /\ \A s \in Seat : at[s] \in Over
    BY DEF SeatInv, OverInv
  <2>2. writer = Nobody
    BY <2>1 DEF SeatTypeOK, LockInv, Over, InWrite
  <2>3. ASSUME ~gone, NEW s \in Seat PROVE recorded[s] = paid[s]
    <3>1. Recording(s) = 0
      BY <2>1 DEF Recording, Over, InWrite
    <3>2. recorded[s] \in Nat /\ recorded[s] + Recording(s) = paid[s]
      BY <2>1, <2>3, SeatsAreTyped, CountersAreNumbers DEF SeatInv, CallsInv
    <3> QED BY <3>1, <3>2
  <2>4. ~gone => paid = recorded
    <3>1. paid \in [Seat -> 0..MaxAttempts] /\ recorded \in [Seat -> 0..MaxAttempts]
      BY <2>1 DEF SeatTypeOK
    <3> QED BY <2>3, <3>1
  <2> QED BY <2>2, <2>4
<1> QED BY <1>1, SeatsKeepSeatInv, PTL

\* A seat that is absent when the pass is over is reported with the reason of its own last
\* failure, or with the deadline, or with "no provider" where there is none: never with
\* what went wrong for another seat, in whatever order they were asked.
THEOREM AbsencesAreExplained == SeatSpec => []AbsenceIsExplained
<1>1. SeatInv => AbsenceIsExplained
  BY DEF SeatInv, ReasonInv, Explained, AbsenceIsExplained
<1> QED BY <1>1, SeatsKeepSeatInv, PTL

(***************************************************************************)
(* PART 3.  The rounds, for any bench and any answers: their type          *)
(* invariant, that what is said is kept, and what can end the pass.  A     *)
(* round's events are built piece by piece and flattened (SequenceLemmas), *)
(* so what is known of each piece is known of the whole.                   *)
(***************************************************************************)

\* Who answers, and with what.
LEMMA AnswersAre ==
    ASSUME NEW S, NEW a \in Answers(S)
    PROVE  /\ DOMAIN a \subseteq Seats
           /\ a \in [DOMAIN a -> S]
           /\ \A s \in DOMAIN a : a[s] \in S
<1>1. PICK present \in SUBSET Seats : a \in [present -> S]
  BY DEF Answers
<1> QED BY <1>1

\* A seat has a place at the bench.
LEMMA BenchPlaces ==
    /\ Len(Bench) \in Nat
    /\ DOMAIN Bench = 1 .. Len(Bench)
    /\ \A i \in DOMAIN Bench : Bench[i] \in Seats
BY RoundsAssumption DEF Seats

\* What the seats contribute, put together in the order of the bench.
LEMMA BenchParts ==
    ASSUME NEW S, NEW parts, parts = [i \in DOMAIN Bench |-> parts[i]],
           \A i \in DOMAIN Bench : parts[i] \in Seq(S)
    PROVE  /\ FlattenSeq(parts) \in Seq(S)
           /\ MadeOf(FlattenSeq(parts), parts, Len(Bench), S)
BY BenchPlaces, FlattenParts

\* At most one element.
LEMMA AtMostOne ==
    ASSUME NEW S, NEW e \in S, NEW s, s = <<>> \/ s = <<e>>
    PROVE  s \in Seq(S)
<1>1. <<e>> \in Seq(S) /\ <<>> \in Seq(S)
  OBVIOUS
<1> QED BY <1>1

\* Nothing, or a sequence over the set.
LEMMA NothingOrSeq ==
    ASSUME NEW S, NEW t \in Seq(S), NEW s, s = <<>> \/ s = t
    PROVE  s \in Seq(S)
<1>1. <<>> \in Seq(S)
  OBVIOUS
<1> QED BY <1>1

\* Short sequences are sequences.
LEMMA ShortSequences ==
    ASSUME NEW S
    PROVE  SeqOf(S, 2) \subseteq Seq(S)
<1>1. ASSUME NEW s \in SeqOf(S, 2) PROVE s \in Seq(S)
  <2>1. PICK m \in 0 .. 2 : s \in [1 .. m -> S]
    BY DEF SeqOf
  <2>2. m \in Nat
    OBVIOUS
  <2> QED BY <2>1, <2>2
<1> QED BY <1>1

\* A finite set put in a sequence is a sequence over it.
LEMMA ListedIsASeq ==
    ASSUME NEW S, IsFiniteSet(S)
    PROVE  SetToSeq(S) \in Seq(S)
<1>1. Cardinality(S) \in Nat
  BY FS_CardinalityType
<1>2. \E f : f \in [1 .. Cardinality(S) -> S] /\ IsInjective(f)
  <2>1. ExistsBijection(1 .. Cardinality(S), S)
    BY FS_CardinalityType
  <2>2. PICK f \in Bijection(1 .. Cardinality(S), S) : TRUE
    BY <2>1 DEF ExistsBijection
  <2>3. f \in [1 .. Cardinality(S) -> S] /\ IsInjective(f)
    BY <2>2 DEF Bijection, Injection, IsInjective
  <2> QED BY <2>3
<1>3. SetToSeq(S) \in [1 .. Cardinality(S) -> S]
  BY <1>2 DEF SetToSeq
<1> QED BY <1>1, <1>3

\* The events of a round that the keys tell apart.
KeysDecide(E) == \A e, f \in E : e.key = f.key => e.payload = f.payload

\* Events of such a set never conflict.
LEMMA KeysDecideNoConflict ==
    ASSUME NEW E, KeysDecide(E), NEW events \in Seq(E)
    PROVE  ~ Conflict(events)
<1>1. \A i \in DOMAIN events : events[i] \in E
  OBVIOUS
<1> QED BY <1>1 DEF Conflict, KeysDecide

\* No fork among the events of a set.
NoFork(E) == \A e \in E : e.key[1] # "fork"

LEMMA NoForkFollows ==
    ASSUME NEW E, NoFork(E), NEW events \in Seq(E), NEW i \in DOMAIN events
    PROVE  events[i].key[1] # "fork"
<1>1. events[i] \in E
  OBVIOUS
<1> QED BY <1>1 DEF NoFork

\* The events of the seats that are absent.
Absences == {Event(<<"unavailable", s>>, <<>>) : s \in Seats}

LEMMA AbsenceEvents ==
    ASSUME NEW answers
    PROVE  UnavailableEvents(answers) \in Seq(Absences)
<1> DEFINE parts == [i \in DOMAIN Bench |->
                       IF Bench[i] \in DOMAIN answers THEN <<>>
                       ELSE <<Event(<<"unavailable", Bench[i]>>, <<>>)>>]
<1>1. parts = [i \in DOMAIN Bench |-> parts[i]]
  OBVIOUS
<1>2. ASSUME NEW i \in DOMAIN Bench PROVE parts[i] \in Seq(Absences)
  <2> DEFINE e == Event(<<"unavailable", Bench[i]>>, <<>>)
  <2>1. e \in Absences
    BY BenchPlaces DEF Absences
  <2>2. parts[i] = <<>> \/ parts[i] = <<e>>
    OBVIOUS
  <2> HIDE DEF e, parts
  <2> QED BY <2>1, <2>2, AtMostOne
<1>3. UnavailableEvents(answers) = FlattenSeq(parts)
  BY DEF UnavailableEvents
<1> HIDE DEF parts
<1> QED BY <1>1, <1>2, <1>3, BenchParts

Marked(claims, note) == {Event(<<"confidence", c>>, note) : c \in claims}

LEMMA MarkerEvents ==
    ASSUME NEW claims, IsFiniteSet(claims), NEW note
    PROVE  ConfidenceMarkers(claims, note) \in Seq(Marked(claims, note))
<1> DEFINE listed == SetToSeq(claims)
           marks == [i \in DOMAIN listed |-> Event(<<"confidence", listed[i]>>, note)]
<1>1. listed \in Seq(claims)
  BY ListedIsASeq
<1>2. ConfidenceMarkers(claims, note) = marks
  BY DEF ConfidenceMarkers
<1>3. \A i \in DOMAIN listed : listed[i] \in claims
  <2> HIDE DEF listed
  <2> QED BY <1>1
<1>4. DOMAIN listed = 1 .. Len(listed) /\ Len(listed) \in Nat
  <2> HIDE DEF listed
  <2> QED BY <1>1
<1> HIDE DEF listed
<1>5. \A i \in 1 .. Len(listed) : Event(<<"confidence", listed[i]>>, note) \in Marked(claims, note)
  BY <1>3, <1>4 DEF Marked
<1>6. marks \in [1 .. Len(listed) -> Marked(claims, note)]
  BY <1>4, <1>5
<1> HIDE DEF marks
<1> QED BY <1>2, <1>4, <1>6

\* Events that can be appended together, none of them a fork.
Sound(events) ==
    ~ Conflict(events) /\ \A i \in DOMAIN events : events[i].key[1] # "fork"

LEMMA DecidedIsSound ==
    ASSUME NEW E, KeysDecide(E), NoFork(E), NEW events \in Seq(E)
    PROVE  Sound(events)
BY KeysDecideNoConflict, NoForkFollows DEF Sound

-----------------------------------------------------------------------------
(* The rounds, one by one *)

\* A precommitment seals every answer once.
LEMMA PrecommitmentIsSound ==
    ASSUME NEW a
    PROVE  Sound(Precommitment(a).events)
<1> DEFINE first == <<Event(<<"question">>, <<>>)>>
           parts == [i \in DOMAIN Bench |->
                       IF Bench[i] \in DOMAIN a
                       THEN <<Event(<<"sealed", Bench[i]>>, <<a[Bench[i]]>>)>> ELSE <<>>]
           E == {Event(<<"question">>, <<>>)} \cup Absences
                  \cup {Event(<<"sealed", s>>, <<a[s]>>) : s \in Seats}
           events == first \o FlattenSeq(parts) \o UnavailableEvents(a)
<1>1. Precommitment(a).events = events
  BY DEF Precommitment, Outcome, InOrder
<1>2. first \in Seq(E)
  OBVIOUS
<1>3. FlattenSeq(parts) \in Seq(E)
  <2>1. parts = [i \in DOMAIN Bench |-> parts[i]]
    OBVIOUS
  <2>2. ASSUME NEW i \in DOMAIN Bench PROVE parts[i] \in Seq(E)
    <3> DEFINE e == Event(<<"sealed", Bench[i]>>, <<a[Bench[i]]>>)
    <3>1. e \in E
      BY BenchPlaces
    <3>2. parts[i] = <<>> \/ parts[i] = <<e>>
      OBVIOUS
    <3> HIDE DEF e, parts, E
    <3> QED BY <3>1, <3>2, AtMostOne
  <2> HIDE DEF parts, E
  <2> QED BY <2>1, <2>2, BenchParts
<1>4. UnavailableEvents(a) \in Seq(E)
  <2>1. Absences \subseteq E
    OBVIOUS
  <2> HIDE DEF E
  <2> QED BY <2>1, AbsenceEvents, Widen
<1>5. KeysDecide(E) /\ NoFork(E)
  BY DEF KeysDecide, NoFork, Absences, Event
<1> DEFINE x == FlattenSeq(parts)
           y == UnavailableEvents(a)
<1> HIDE DEF E, first, x, y
<1>6. events = (first \o x) \o y
  BY DEF x, y
<1>7. events \in Seq(E)
  BY <1>2, <1>3, <1>4, <1>6 DEF x, y
<1> HIDE DEF events
<1> QED BY <1>1, <1>5, <1>7, DecidedIsSound

\* An acquisition records each request once.
LEMMA AcquisitionIsSound ==
    ASSUME NEW a, NEW got
    PROVE  Sound(AcquisitionRound(a, got).events)
<1> DEFINE parts == [i \in DOMAIN Bench |->
                       IF Bench[i] \in DOMAIN a
                       THEN <<Event(<<"request", Bench[i]>>, <<>>)>> ELSE <<>>]
           E == Absences \cup {Event(<<"request", s>>, <<>>) : s \in Seats}
           events == FlattenSeq(parts) \o UnavailableEvents(a)
<1>1. AcquisitionRound(a, got).events = events
  BY DEF AcquisitionRound, Outcome, InOrder
<1>2. FlattenSeq(parts) \in Seq(E)
  <2>1. parts = [i \in DOMAIN Bench |-> parts[i]]
    OBVIOUS
  <2>2. ASSUME NEW i \in DOMAIN Bench PROVE parts[i] \in Seq(E)
    <3> DEFINE e == Event(<<"request", Bench[i]>>, <<>>)
    <3>1. e \in E
      BY BenchPlaces
    <3>2. parts[i] = <<>> \/ parts[i] = <<e>>
      OBVIOUS
    <3> HIDE DEF e, parts, E
    <3> QED BY <3>1, <3>2, AtMostOne
  <2> HIDE DEF parts, E
  <2> QED BY <2>1, <2>2, BenchParts
<1>3. UnavailableEvents(a) \in Seq(E)
  <2>1. Absences \subseteq E
    OBVIOUS
  <2> HIDE DEF E
  <2> QED BY <2>1, AbsenceEvents, Widen
<1>4. KeysDecide(E) /\ NoFork(E)
  BY DEF KeysDecide, NoFork, Absences, Event
<1> DEFINE x == FlattenSeq(parts)
           y == UnavailableEvents(a)
<1> HIDE DEF E, x, y
<1>5. events = x \o y
  BY DEF x, y
<1>6. events \in Seq(E)
  BY <1>2, <1>3, <1>5 DEF x, y
<1> HIDE DEF events
<1> QED BY <1>1, <1>4, <1>6, DecidedIsSound

\* A joint model is one consensus and at most one debate capsule.
LEMMA JointModelingIsSound ==
    ASSUME NEW a, NEW claims, IsFiniteSet(claims)
    PROVE  Sound(JointModeling(a, claims).events)
<1> DEFINE merged == UNION {a[s] : s \in DOMAIN a}
           marks == ConfidenceMarkers(claims, <<"consensus">>)
           one == <<Event(<<"consensus">>, <<merged>>)>>
           two == IF Capsule(merged, claims)
                  THEN <<Event(<<"debate_capsule">>, <<merged>>)>> ELSE <<>>
           model == IF ~ (Required \subseteq merged) THEN <<>> ELSE marks \o one \o two
           E == Absences \cup Marked(claims, <<"consensus">>)
                  \cup {Event(<<"consensus">>, <<merged>>), Event(<<"debate_capsule">>, <<merged>>)}
           absent == UnavailableEvents(a)
           events == model \o absent
<1>1. JointModeling(a, claims).events = events
  BY DEF JointModeling, Outcome
<1>2. KeysDecide(E) /\ NoFork(E)
  <2> HIDE DEF merged, marks, one, two, model, absent, events
  <2>1. KeysDecide(E)
    BY DEF KeysDecide, Absences, Marked, Event
  <2>2. NoFork(E)
    BY DEF NoFork, Absences, Marked, Event
  <2> QED BY <2>1, <2>2
<1>3. marks \in Seq(E)
  <2>1. Marked(claims, <<"consensus">>) \subseteq E
    OBVIOUS
  <2> HIDE DEF E
  <2> QED BY <2>1, MarkerEvents, Widen
<1>4. one \in Seq(E) /\ two \in Seq(E)
  <2> DEFINE e == Event(<<"consensus">>, <<merged>>)
             f == Event(<<"debate_capsule">>, <<merged>>)
  <2>1. e \in E /\ f \in E
    OBVIOUS
  <2>2. one = <<e>> /\ (two = <<>> \/ two = <<f>>)
    OBVIOUS
  <2> HIDE DEF e, f, E, one, two
  <2> QED BY <2>1, <2>2, AtMostOne
<1>5. absent \in Seq(E)
  <2>1. Absences \subseteq E
    OBVIOUS
  <2> HIDE DEF E
  <2> QED BY <2>1, AbsenceEvents, Widen
<1> HIDE DEF E, marks, one, two, absent
<1>6. model \in Seq(E)
  <2>1. marks \o one \o two \in Seq(E) /\ <<>> \in Seq(E)
    BY <1>3, <1>4
  <2> QED BY <2>1
<1> HIDE DEF model
<1>7. events \in Seq(E)
  BY <1>5, <1>6
<1> HIDE DEF events
<1> QED BY <1>1, <1>2, <1>7, DecidedIsSound

\* What a seat may ask to revive is little.
LEMMA GrantedIsFinite ==
    ASSUME NEW a, NEW s \in DOMAIN a, a[s] \in ExchangeAnswer
    PROVE  IsFiniteSet(Granted(a, s))
<1> DEFINE revive == a[s].revive
<1>1. \/ revive = {}
      \/ \E n, e : revive = {<<n, e>>}
      \/ \E n : revive = {n} \X Evidence
  BY DEF ExchangeAnswer
<1>2. \A n : {n} \X Evidence = {<<n, "this">>} \cup {<<n, "that">>}
  BY DEF Evidence
<1> HIDE DEF revive
<1>3. IsFiniteSet(revive)
  <2>1. \A x : IsFiniteSet({x})
    BY FS_Singleton
  <2>2. \A x, y : IsFiniteSet({x} \cup {y})
    BY <2>1, FS_Union
  <2>3. IsFiniteSet({})
    BY FS_EmptySet
  <2>4. ASSUME NEW n PROVE IsFiniteSet({n} \X Evidence)
    <3> DEFINE u == <<n, "this">>
               v == <<n, "that">>
    <3>1. {n} \X Evidence = {u} \cup {v}
      BY <1>2
    <3>2. IsFiniteSet({u} \cup {v})
      BY <2>2, Zenon
    <3> HIDE DEF u, v
    <3> QED BY <3>1, <3>2, Zenon
  <2>5. \A n, e : revive = {<<n, e>>} => IsFiniteSet(revive)
    BY <2>1
  <2>6. \A n : revive = {n} \X Evidence => IsFiniteSet(revive)
    BY <2>4
  <2> QED BY <1>1, <2>3, <2>5, <2>6, Zenon
<1>4. Granted(a, s) \subseteq revive
  BY DEF Granted, revive
<1> QED BY <1>3, <1>4, FS_Subset

\* An exchange: whatever is published or revived, nothing is forked, and its events
\* conflict only over a node that is revived twice.
LEMMA ExchangeConflicts ==
    ASSUME NEW a, DOMAIN a \subseteq Seats, \A s \in DOMAIN a : a[s] \in ExchangeAnswer,
           NEW available, NEW claims, IsFiniteSet(claims)
    PROVE  /\ \A i \in DOMAIN Exchange(a, available, claims).events :
                 Exchange(a, available, claims).events[i].key[1] # "fork"
           /\ Conflict(Exchange(a, available, claims).events) => RevivedTwice(a)
<1> DEFINE items(s) == Published(a, available, s)
           nodes(s) == SetToSeq(Granted(a, s))
           wakes(s, q) == Event(<<"resurrection", q[1]>>, <<s, q[2]>>)
           shown(s) == IF items(s) = {} THEN <<>> ELSE <<Event(<<"published", s>>, <<items(s)>>)>>
           woken(s) == [i \in DOMAIN nodes(s) |-> wakes(s, nodes(s)[i])]
           parts == [i \in DOMAIN Bench |->
                       IF Bench[i] \in DOMAIN a
                       THEN shown(Bench[i]) \o woken(Bench[i]) ELSE <<>>]
           published == UNION {{<<s, x[1], x[2]>> : x \in items(s)} : s \in DOMAIN a}
           note == <<Cardinality(published)>>
           marks == ConfidenceMarkers(claims, note)
           P == {Event(<<"published", s>>, <<items(s)>>) : s \in Seats}
           W == UNION {{wakes(s, q) : q \in Granted(a, s)} : s \in DOMAIN a}
           E == Absences \cup Marked(claims, note) \cup P \cup W
           absent == UnavailableEvents(a)
           third == IF published = {} THEN <<>> ELSE marks
           x == FlattenSeq(parts)
           events == x \o absent \o third
<1>1. Exchange(a, available, claims).events = events
  BY DEF Exchange, Outcome, InOrder
<1>2. NoFork(E)
  <2> HIDE DEF items, nodes, shown, woken, parts, published, note, marks, absent, third, x, events
  <2> QED BY DEF NoFork, Absences, Marked, Event
<1>3. ASSUME NEW s \in Seats, s \in DOMAIN a PROVE shown(s) \o woken(s) \in Seq(E)
  <2> DEFINE e == Event(<<"published", s>>, <<items(s)>>)
  <2>1. e \in E
    OBVIOUS
  <2>2. shown(s) = <<>> \/ shown(s) = <<e>>
    OBVIOUS
  <2>3. IsFiniteSet(Granted(a, s))
    BY <1>3, GrantedIsFinite
  <2>4. nodes(s) \in Seq(Granted(a, s))
    BY <2>3, ListedIsASeq
  <2> DEFINE g == nodes(s)
  <2>5. \A q \in Granted(a, s) : wakes(s, q) \in E
    <3> HIDE DEF wakes
    <3> QED BY <1>3
  <2>6. woken(s) = [i \in DOMAIN g |-> wakes(s, g[i])]
    OBVIOUS
  <2>7. g \in Seq(Granted(a, s))
    BY <2>4
  <2> HIDE DEF g, E, e, shown, woken, nodes, wakes
  <2>8. DOMAIN g = 1 .. Len(g) /\ Len(g) \in Nat /\ \A i \in DOMAIN g : g[i] \in Granted(a, s)
    BY <2>7
  <2>9. woken(s) \in [1 .. Len(g) -> E]
    BY <2>5, <2>6, <2>8
  <2>10. woken(s) \in Seq(E)
    BY <2>8, <2>9
  <2>11. shown(s) \in Seq(E)
    BY <2>1, <2>2, AtMostOne
  <2> QED BY <2>10, <2>11
<1>4. absent \in Seq(E)
  <2>1. Absences \subseteq E
    OBVIOUS
  <2> HIDE DEF E
  <2> QED BY <2>1, AbsenceEvents, Widen
<1>5. third \in Seq(E)
  <2>1. Marked(claims, note) \subseteq E
    OBVIOUS
  <2> HIDE DEF E
  <2>2. marks \in Seq(E)
    BY <2>1, MarkerEvents, Widen
  <2>3. third = <<>> \/ third = marks
    OBVIOUS
  <2> HIDE DEF marks, third
  <2> QED BY <2>2, <2>3, NothingOrSeq
<1>6. x \in Seq(E)
  <2> HIDE DEF E, shown, woken
  <2>1. parts = [i \in DOMAIN Bench |-> parts[i]]
    OBVIOUS
  <2>2. ASSUME NEW i \in DOMAIN Bench PROVE parts[i] \in Seq(E)
    <3>1. \/ parts[i] = <<>>
          \/ Bench[i] \in DOMAIN a /\ parts[i] = shown(Bench[i]) \o woken(Bench[i])
      OBVIOUS
    <3>2. Bench[i] \in Seats /\ <<>> \in Seq(E)
      BY BenchPlaces
    <3>3. Bench[i] \in DOMAIN a => shown(Bench[i]) \o woken(Bench[i]) \in Seq(E)
      BY <1>3, <3>2
    <3> HIDE DEF parts
    <3> QED BY <3>1, <3>2, <3>3
  <2> HIDE DEF parts
  <2> QED BY <2>1, <2>2, BenchParts
<1>7. events \in Seq(E)
  <2> HIDE DEF E, x, absent, third
  <2> QED BY <1>4, <1>5, <1>6
<1>8. \A i \in DOMAIN events : events[i].key[1] # "fork"
  <2> HIDE DEF E, events
  <2> QED BY <1>2, <1>7, NoForkFollows
<1>9. ASSUME Conflict(events) PROVE RevivedTwice(a)
  <2>1. PICK f \in E, g \in E : f.key = g.key /\ f.payload # g.payload
    <3> HIDE DEF E, events
    <3>1. \A i \in DOMAIN events : events[i] \in E
      BY <1>7
    <3> QED BY <1>9, <3>1 DEF Conflict
  <2> HIDE DEF items, nodes, shown, woken, parts, published, note, marks, absent, third, x, events
  <2>2. f \in W /\ g \in W
    <3>1. \A h \in E : h \in W <=> h.key[1] = "resurrection"
      BY DEF Absences, Marked, Event
    <3>2. f \notin W => g \notin W /\ f.payload = g.payload
      <4>1. f \notin W => g \notin W
        <5> HIDE DEF E, W
        <5> QED BY <2>1, <3>1
      <4>2. KeysDecide(Absences \cup Marked(claims, note) \cup P)
        BY DEF KeysDecide, Absences, Marked, Event
      <4> HIDE DEF P, W
      <4> QED BY <2>1, <4>1, <4>2 DEF KeysDecide
    <3> HIDE DEF E, W
    <3> QED BY <2>1, <3>1, <3>2
  <2>3. PICK s \in DOMAIN a : \E p \in Granted(a, s) : f = wakes(s, p)
    <3> HIDE DEF wakes
    <3> QED BY <2>2
  <2>4. PICK t \in DOMAIN a : \E q \in Granted(a, t) : g = wakes(t, q)
    <3> HIDE DEF wakes
    <3> QED BY <2>2
  <2>5. PICK p \in Granted(a, s) : f = wakes(s, p)
    BY <2>3
  <2>6. PICK q \in Granted(a, t) : g = wakes(t, q)
    BY <2>4
  <2>7. p[1] = q[1] /\ <<s, p[2]>> # <<t, q[2]>>
    <3>1. /\ f.key = <<"resurrection", p[1]>> /\ f.payload = <<s, p[2]>>
          /\ g.key = <<"resurrection", q[1]>> /\ g.payload = <<t, q[2]>>
      BY <2>5, <2>6 DEF Event
    <3>2. <<"resurrection", p[1]>> = <<"resurrection", q[1]>> => p[1] = q[1]
      OBVIOUS
    <3> HIDE DEF E, W, wakes
    <3>3. f.key = g.key /\ f.payload # g.payload
      BY <2>1
    <3> QED BY <3>1, <3>2, <3>3, Zenon
  <2> HIDE DEF E, W, wakes
  <2> QED BY <2>7 DEF RevivedTwice
<1> HIDE DEF events
<1> QED BY <1>1, <1>8, <1>9

\* A final rejudgment records each judgment once and certifies every dissent, or says
\* that there was no claim to dissent from.
LEMMA FinalIsSound ==
    ASSUME NEW a, NEW initial, NEW claims, IsFiniteSet(claims),
           DOMAIN Judgments(a, initial) \subseteq Seats,
           NEW out, out = FinalRejudgment(a, initial, claims)
    PROVE  /\ Sound(out.events)
           /\ \A s \in Seats : Occurs(out.events, Event(<<"judgment", s>>, <<"dissent">>)) =>
                 HasKey(out.events, <<"dissent", s>>) \/ <<"no_dissent_target">> \in out.slots
<1> DEFINE judged == Judgments(a, initial)
           certified == Certified(a, judged)
           verdicts == [s \in certified |-> judged[s]]
           parts == [i \in DOMAIN Bench |->
                       IF Bench[i] \in DOMAIN judged
                       THEN <<Event(<<"judgment", Bench[i]>>, <<judged[Bench[i]]>>)>> ELSE <<>>]
           note == <<Cardinality(certified)>>
           marks == ConfidenceMarkers(claims, note)
           target == DissentTarget(claims)
           rolls == [i \in DOMAIN Bench |->
                       IF Bench[i] \in DOMAIN verdicts
                       THEN <<Event(<<"dissent", Bench[i]>>, <<target>>)>> ELSE <<>>]
           x == FlattenSeq(parts)
           y == IF DOMAIN judged = {} THEN <<>> ELSE marks
           z == IF claims = {} THEN <<>> ELSE FlattenSeq(rolls)
           absent == UnavailableEvents(a)
           events == x \o y \o z \o absent
           J == {Event(<<"judgment", s>>, <<judged[s]>>) : s \in DOMAIN judged}
           E == J \cup Marked(claims, note) \cup Absences
                  \cup {Event(<<"dissent", s>>, <<target>>) : s \in Seats}
<1>1. /\ out.events = events
      /\ out.slots = UnavailableSlots(a)
                        \cup (IF Dissenters(judged) # {} /\ claims = {}
                              THEN {<<"no_dissent_target">>} ELSE {})
  BY DEF FinalRejudgment, Outcome, InOrder
<1>2. KeysDecide(E) /\ NoFork(E)
  <2> HIDE DEF judged, certified, verdicts, parts, rolls, note, marks, target, x, y, z, absent, events
  <2>1. KeysDecide(E)
    BY DEF KeysDecide, Absences, Marked, Event
  <2>2. NoFork(E)
    BY DEF NoFork, Absences, Marked, Event
  <2> QED BY <2>1, <2>2
<1>3. x \in Seq(E)
  <2>1. parts = [i \in DOMAIN Bench |-> parts[i]]
    OBVIOUS
  <2>2. ASSUME NEW i \in DOMAIN Bench PROVE parts[i] \in Seq(E)
    <3> DEFINE e == Event(<<"judgment", Bench[i]>>, <<judged[Bench[i]]>>)
    <3>1. Bench[i] \in DOMAIN judged => e \in E
      OBVIOUS
    <3>2. parts[i] = <<>> \/ (Bench[i] \in DOMAIN judged /\ parts[i] = <<e>>)
      OBVIOUS
    <3>3. <<>> \in Seq(E)
      OBVIOUS
    <3> HIDE DEF e, parts, E
    <3> QED BY <3>1, <3>2, <3>3, AtMostOne
  <2> HIDE DEF parts, E
  <2> QED BY <2>1, <2>2, BenchParts
<1>4. y \in Seq(E)
  <2>1. Marked(claims, note) \subseteq E
    OBVIOUS
  <2> HIDE DEF E
  <2>2. marks \in Seq(E)
    BY <2>1, MarkerEvents, Widen
  <2>3. y = <<>> \/ y = marks
    OBVIOUS
  <2> HIDE DEF marks, y
  <2> QED BY <2>2, <2>3, NothingOrSeq
<1>5. /\ FlattenSeq(rolls) \in Seq(E)
      /\ MadeOf(FlattenSeq(rolls), rolls, Len(Bench), E)
  <2>1. rolls = [i \in DOMAIN Bench |-> rolls[i]]
    OBVIOUS
  <2>2. ASSUME NEW i \in DOMAIN Bench PROVE rolls[i] \in Seq(E)
    <3> DEFINE e == Event(<<"dissent", Bench[i]>>, <<target>>)
    <3>1. e \in E
      BY BenchPlaces
    <3>2. rolls[i] = <<>> \/ rolls[i] = <<e>>
      OBVIOUS
    <3> HIDE DEF e, rolls, E
    <3> QED BY <3>1, <3>2, AtMostOne
  <2> HIDE DEF rolls, E
  <2> QED BY <2>1, <2>2, BenchParts
<1>6. absent \in Seq(E)
  <2>1. Absences \subseteq E
    OBVIOUS
  <2> HIDE DEF E
  <2> QED BY <2>1, AbsenceEvents, Widen
<1>7. z \in Seq(E)
  <2> DEFINE r == FlattenSeq(rolls)
  <2>1. z = <<>> \/ z = r
    OBVIOUS
  <2>2. r \in Seq(E)
    BY <1>5
  <2> HIDE DEF r, z
  <2> QED BY <2>1, <2>2, NothingOrSeq
<1>8. events \in Seq(E)
  <2> HIDE DEF E, x, y, z, absent
  <2> QED BY <1>3, <1>4, <1>6, <1>7
<1>9. Sound(out.events)
  <2> HIDE DEF E, events
  <2> QED BY <1>1, <1>2, <1>8, DecidedIsSound
<1>10. ASSUME NEW s \in Seats, Occurs(out.events, Event(<<"judgment", s>>, <<"dissent">>))
       PROVE  HasKey(out.events, <<"dissent", s>>) \/ <<"no_dissent_target">> \in out.slots
  <2>1. s \in DOMAIN judged /\ judged[s] = "dissent"
    <3>1. Event(<<"judgment", s>>, <<"dissent">>) \in E
      <4> HIDE DEF E, events
      <4>1. PICK i \in DOMAIN events : events[i] = Event(<<"judgment", s>>, <<"dissent">>)
        BY <1>1, <1>10 DEF Occurs
      <4>2. events[i] \in E
        BY <1>8, <4>1
      <4> QED BY <4>1, <4>2
    <3> HIDE DEF judged, certified, verdicts, parts, rolls, note, marks, target, x, y, z, absent, events
    <3> QED BY <3>1 DEF Absences, Marked, Event
  <2>2. s \in Dissenters(judged) /\ s \in certified /\ s \in DOMAIN verdicts
    <3> HIDE DEF judged
    <3> QED BY <2>1 DEF Dissenters, Certified
  <2>3. CASE claims = {}
    <3> HIDE DEF judged
    <3> QED BY <1>1, <2>2, <2>3
  <2>4. CASE claims # {}
    <3>1. PICK i \in DOMAIN Bench : Bench[i] = s
      BY DEF Seats
    <3> DEFINE e == Event(<<"dissent", s>>, <<target>>)
    <3>2. rolls[i] = <<e>>
      <4> HIDE DEF target, verdicts
      <4> QED BY <2>2, <3>1
    <3>3. z = FlattenSeq(rolls)
      BY <2>4
    <3> DEFINE r == FlattenSeq(rolls)
               u == x \o y
    <3> HIDE DEF rolls, e, z, r, x, y, E, absent, u
    <3>4. PICK off \in Nat : Placed(r, rolls[i], off)
      <4>1. i \in 1 .. Len(Bench)
        BY <3>1, BenchPlaces
      <4> QED BY <1>5, <4>1 DEF MadeOf, r
    <3>5. off + 1 \in DOMAIN z /\ z[off + 1] = e
      <4>1. r \in Seq(E) /\ z = r
        BY <1>5, <3>3 DEF r
      <4>2. Len(<<e>>) = 1 /\ <<e>>[1] = e
        OBVIOUS
      <4>3. off + 1 \in 1 .. Len(r) /\ r[off + 1] = e
        BY <3>2, <3>4, <4>2 DEF Placed
      <4> QED BY <4>1, <4>3
    <3>6. u \in Seq(E)
      BY <1>3, <1>4 DEF u
    <3>7. Len(u) + (off + 1) \in DOMAIN (u \o z) /\ (u \o z)[Len(u) + (off + 1)] = e
      BY <1>7, <3>5, <3>6, ConcatHas
    <3>8. u \o z \in Seq(E)
      BY <1>7, <3>6
    <3> DEFINE v == u \o z
               k == Len(u) + (off + 1)
    <3>9. events = v \o absent
      BY DEF u
    <3> HIDE DEF v, k, events
    <3>10. k \in DOMAIN events /\ events[k] = e
      BY <1>6, <3>7, <3>8, <3>9, ConcatHas DEF v, k
    <3>11. e.key = <<"dissent", s>>
      BY DEF e, Event
    <3> QED BY <1>1, <3>10, <3>11 DEF HasKey
  <2> QED BY <2>3, <2>4
<1> QED BY <1>9, <1>10

\* Every fork comes after the anchor of its claim.
Anchored(events) ==
    \A i \in DOMAIN events :
        events[i].key[1] = "fork" =>
            \E j \in 1 .. i - 1 : events[j].key = <<"claim_anchor", events[i].payload[1]>>

LEMMA AnchoredParts ==
    ASSUME NEW E, NEW n \in Nat, NEW parts, parts = [i \in 1 .. n |-> parts[i]],
           \A i \in 1 .. n : parts[i] \in Seq(E) /\ Anchored(parts[i])
    PROVE  FlattenSeq(parts) \in Seq(E) /\ Anchored(FlattenSeq(parts))
<1> DEFINE whole == FlattenSeq(parts)
<1>1. MadeOf(whole, parts, n, E) /\ whole \in Seq(E)
  BY FlattenParts
<1> HIDE DEF whole
<1>2. ASSUME NEW k \in DOMAIN whole, whole[k].key[1] = "fork"
      PROVE  \E j \in 1 .. k - 1 : whole[j].key = <<"claim_anchor", whole[k].payload[1]>>
  <2>1. k \in 1 .. Len(whole)
    BY <1>1
  <2>2. PICK i \in 1 .. n : \E off \in Nat :
             Placed(whole, parts[i], off) /\ k - off \in 1 .. Len(parts[i])
    BY <1>1, <2>1 DEF MadeOf
  <2>3. PICK off \in Nat : Placed(whole, parts[i], off) /\ k - off \in 1 .. Len(parts[i])
    BY <2>2
  <2> DEFINE part == parts[i]
             m == k - off
  <2>4. part \in Seq(E) /\ Anchored(part) /\ Placed(whole, part, off) /\ m \in 1 .. Len(part)
    BY <2>3
  <2>5. k \in Int /\ m = k - off /\ off + m = k
    BY <2>1
  <2> HIDE DEF part, m
  <2>6. whole[k] = part[m]
    <3>1. whole[off + m] = part[m]
      BY <2>4 DEF Placed
    <3> QED BY <2>5, <3>1
  <2>7. PICK j \in 1 .. m - 1 : part[j].key = <<"claim_anchor", part[m].payload[1]>>
    <3>1. m \in DOMAIN part /\ part[m].key[1] = "fork"
      BY <1>2, <2>4, <2>6
    <3> QED BY <2>4, <3>1 DEF Anchored
  <2>8. j \in 1 .. Len(part) /\ off + j \in 1 .. k - 1
    BY <2>4, <2>5
  <2>9. whole[off + j] = part[j]
    BY <2>4, <2>8 DEF Placed
  <2>10. whole[off + j].key = <<"claim_anchor", whole[k].payload[1]>>
    BY <2>6, <2>7, <2>9
  <2> QED BY <2>8, <2>10
<1> QED BY <1>1, <1>2 DEF Anchored, whole

\* What follows without forks disturbs no anchor.
LEMMA AnchoredThen ==
    ASSUME NEW E, NEW F, NEW s \in Seq(E), NEW t \in Seq(F), F \subseteq E,
           Anchored(s), NoFork(F)
    PROVE  s \o t \in Seq(E) /\ Anchored(s \o t)
<1>1. t \in Seq(E)
  BY Widen
<1>2. \A i \in DOMAIN t : t[i].key[1] # "fork"
  BY NoForkFollows
<1> DEFINE whole == s \o t
<1>3. /\ whole \in Seq(E)
      /\ \A i \in DOMAIN s : i \in DOMAIN whole /\ whole[i] = s[i]
      /\ \A k \in DOMAIN whole : k \notin DOMAIN s =>
             k - Len(s) \in DOMAIN t /\ whole[k] = t[k - Len(s)]
  BY <1>1, ConcatHas
<1>4. DOMAIN s = 1 .. Len(s) /\ Len(s) \in Nat
  OBVIOUS
<1> HIDE DEF whole
<1>5. ASSUME NEW k \in DOMAIN whole, whole[k].key[1] = "fork"
      PROVE  \E j \in 1 .. k - 1 : whole[j].key = <<"claim_anchor", whole[k].payload[1]>>
  <2>1. k \in DOMAIN s /\ whole[k] = s[k]
    BY <1>2, <1>3, <1>5
  <2>2. PICK j \in 1 .. k - 1 : s[j].key = <<"claim_anchor", s[k].payload[1]>>
    BY <1>5, <2>1 DEF Anchored
  <2>3. j \in DOMAIN s
    BY <1>4, <2>1
  <2> QED BY <1>3, <2>1, <2>2, <2>3
<1> QED BY <1>3, <1>5 DEF Anchored, whole

\* The events of a challenge, with and without those of its fork.
LEMMA FiveTogether ==
    ASSUME NEW p, NEW q, NEW r, NEW t, NEW u
    PROVE  <<p, q>> \o <<>> = <<p, q>> /\ <<p, q>> \o <<r, t, u>> = <<p, q, r, t, u>>
<1> DEFINE S == {p, q, r, t, u}
           v == <<p, q>>
           w == <<r, t, u>>
           all == <<p, q, r, t, u>>
<1>1. v \in Seq(S) /\ w \in Seq(S) /\ all \in Seq(S) /\ <<>> \in Seq(S)
  OBVIOUS
<1>2. /\ Len(v) = 2 /\ v[1] = p /\ v[2] = q
      /\ Len(w) = 3 /\ w[1] = r /\ w[2] = t /\ w[3] = u
      /\ Len(all) = 5 /\ all[1] = p /\ all[2] = q /\ all[3] = r /\ all[4] = t /\ all[5] = u
  OBVIOUS
<1> HIDE DEF v, w, all, S
<1>3. v \o <<>> = v
  BY <1>1
<1>4. /\ v \o w \in Seq(S) /\ Len(v \o w) = Len(v) + Len(w)
      /\ \A i \in 1 .. Len(v) + Len(w) :
            (v \o w)[i] = IF i <= Len(v) THEN v[i] ELSE w[i - Len(v)]
  BY <1>1, ConcatProperties
<1> DEFINE both == v \o w
<1> HIDE DEF both
<1>5. both \in Seq(S) /\ Len(both) = 5
  BY <1>2, <1>4 DEF both
<1>6. both[1] = p /\ both[2] = q /\ both[3] = r /\ both[4] = t /\ both[5] = u
  <2>1. \A i \in 1 .. 5 : both[i] = IF i <= 2 THEN v[i] ELSE w[i - 2]
    BY <1>2, <1>4 DEF both
  <2> QED BY <1>2, <2>1
<1>7. \A i \in 1 .. 5 : both[i] = all[i]
  <2>1. \A i \in 1 .. 5 : i = 1 \/ i = 2 \/ i = 3 \/ i = 4 \/ i = 5
    OBVIOUS
  <2> QED BY <1>2, <1>6, <2>1
<1>8. both = all
  BY <1>1, <1>2, <1>5, <1>7
<1> QED BY <1>3, <1>8 DEF v, w, all, both

\* A cross examination: every event of a challenge has a key of its own, and a fork
\* follows the anchor of the claim it contradicts.
LEMMA CrossExaminationIsSound ==
    ASSUME NEW a, \A s \in DOMAIN a : a[s] \in Seq(Challenge)
    PROVE  ~ Conflict(CrossExamination(a).events) /\ Anchored(CrossExamination(a).events)
<1> DEFINE ch(s, i) == Event(ChallengeKey(s, i), <<a[s][i].claim, a[s][i].strength>>)
           cc(s, i) == Event(<<"confidence_challenge", s, i>>, <<a[s][i].claim>>)
           ca(c) == Event(<<"claim_anchor", c>>, <<>>)
           fk(s, i) == Event(<<"fork", s, i>>, <<a[s][i].claim>>)
           cf(s, i) == Event(<<"confidence_fork", s, i>>, <<>>)
           E == Absences \cup {ch(s, i) : s \in Seats, i \in Nat}
                  \cup {cc(s, i) : s \in Seats, i \in Nat} \cup {ca(c) : c \in Claims}
                  \cup {fk(s, i) : s \in Seats, i \in Nat} \cup {cf(s, i) : s \in Seats, i \in Nat}
           item(s, i) == <<ch(s, i), cc(s, i)>> \o ForkEvents(s, i, a[s][i])
           items(s) == [i \in DOMAIN a[s] |-> item(s, i)]
           parts == [k \in DOMAIN Bench |->
                       IF Bench[k] \in DOMAIN a THEN FlattenSeq(items(Bench[k])) ELSE <<>>]
           absent == UnavailableEvents(a)
           x == FlattenSeq(parts)
           events == x \o absent
<1>1. CrossExamination(a).events = events
  BY DEF CrossExamination, Outcome, InOrder
<1>2. KeysDecide(E)
  <2> HIDE DEF item, items, parts, absent, x, events
  <2> QED BY DEF KeysDecide, Absences, Event, ChallengeKey
<1>3. NoFork(Absences) /\ Absences \subseteq E
  BY DEF NoFork, Absences, Event
<1>4. ASSUME NEW s \in Seats, s \in DOMAIN a, NEW i \in DOMAIN a[s]
      PROVE  item(s, i) \in Seq(E) /\ Anchored(item(s, i))
  <2> DEFINE c == a[s][i]
             p == ch(s, i)
             q == cc(s, i)
             r == ca(c.claim)
             t == fk(s, i)
             u == cf(s, i)
  <2>1. i \in Nat /\ c \in Challenge
    <3>1. a[s] \in Seq(Challenge)
      BY <1>4
    <3> QED BY <3>1
  <2>2. c.claim \in Claims
    BY <2>1 DEF Challenge
  <2>3. p \in E /\ q \in E /\ r \in E /\ t \in E /\ u \in E
    <3> HIDE DEF ch, cc, ca, fk, cf, c, item, items, parts, absent, x, events
    <3> QED BY <2>1, <2>2
  <2>4. /\ p.key[1] # "fork" /\ q.key[1] # "fork" /\ r.key[1] # "fork" /\ u.key[1] # "fork"
        /\ r.key = <<"claim_anchor", t.payload[1]>>
    BY DEF Event, ChallengeKey
  <2>5. item(s, i) = <<p, q>> \/ item(s, i) = <<p, q, r, t, u>>
    <3>1. ForkEvents(s, i, c) = <<>> \/ ForkEvents(s, i, c) = <<r, t, u>>
      BY DEF ForkEvents
    <3>2. item(s, i) = <<p, q>> \o ForkEvents(s, i, c)
      OBVIOUS
    <3> HIDE DEF p, q, r, t, u, item
    <3>3. <<p, q>> \o <<>> = <<p, q>> /\ <<p, q>> \o <<r, t, u>> = <<p, q, r, t, u>>
      BY FiveTogether
    <3> QED BY <3>1, <3>2, <3>3
  <2> HIDE DEF p, q, r, t, u, E, item
  <2>6. <<p, q>> \in Seq(E) /\ <<p, q, r, t, u>> \in Seq(E)
    BY <2>3
  <2>7. Anchored(<<p, q>>)
    <3>1. \A k \in DOMAIN <<p, q>> : <<p, q>>[k] = p \/ <<p, q>>[k] = q
      OBVIOUS
    <3> QED BY <2>4, <3>1 DEF Anchored
  <2>8. Anchored(<<p, q, r, t, u>>)
    <3> DEFINE w == <<p, q, r, t, u>>
    <3>1. /\ DOMAIN w = 1 .. 5
          /\ w[1] = p /\ w[2] = q /\ w[3] = r /\ w[4] = t /\ w[5] = u
      OBVIOUS
    <3> HIDE DEF w
    <3>2. ASSUME NEW k \in DOMAIN w, w[k].key[1] = "fork" PROVE k = 4
      BY <2>4, <3>1, <3>2
    <3>3. 3 \in 1 .. 4 - 1
      OBVIOUS
    <3>4. \A k \in DOMAIN w : w[k].key[1] = "fork" =>
             \E j \in 1 .. k - 1 : w[j].key = <<"claim_anchor", w[k].payload[1]>>
      BY <2>4, <3>1, <3>2, <3>3
    <3> QED BY <3>4 DEF Anchored, w
  <2> QED BY <2>5, <2>6, <2>7, <2>8
<1>5. ASSUME NEW k \in 1 .. Len(Bench)
      PROVE  parts[k] \in Seq(E) /\ Anchored(parts[k])
  <2>1. CASE Bench[k] \in DOMAIN a
    <3> DEFINE s == Bench[k]
               its == items(s)
    <3>1. s \in Seats /\ s \in DOMAIN a
      BY <2>1, BenchPlaces
    <3>2. Len(a[s]) \in Nat /\ DOMAIN a[s] = 1 .. Len(a[s])
      <4>1. a[s] \in Seq(Challenge)
        BY <3>1
      <4> QED BY <4>1
    <3>3. \A i \in 1 .. Len(a[s]) : item(s, i) \in Seq(E) /\ Anchored(item(s, i))
      <4> HIDE DEF s, item, E
      <4> QED BY <1>4, <3>1, <3>2
    <3>4. its = [i \in 1 .. Len(a[s]) |-> item(s, i)]
      BY <3>2
    <3> HIDE DEF item, E, its, items
    <3>5. its = [i \in 1 .. Len(a[s]) |-> its[i]]
      BY <3>4
    <3>6. \A i \in 1 .. Len(a[s]) : its[i] \in Seq(E) /\ Anchored(its[i])
      BY <3>3, <3>4
    <3> HIDE DEF s
    <3>7. FlattenSeq(its) \in Seq(E) /\ Anchored(FlattenSeq(its))
      BY <3>2, <3>5, <3>6, AnchoredParts
    <3>8. parts[k] = FlattenSeq(its)
      BY <2>1, BenchPlaces DEF its, s
    <3> HIDE DEF parts
    <3> QED BY <3>7, <3>8
  <2>2. CASE Bench[k] \notin DOMAIN a
    <3>1. parts[k] = <<>>
      BY <2>2, BenchPlaces
    <3>2. <<>> \in Seq(E) /\ DOMAIN <<>> = {}
      OBVIOUS
    <3> HIDE DEF parts, E
    <3> QED BY <3>1, <3>2 DEF Anchored
  <2> QED BY <2>1, <2>2
<1>6. x \in Seq(E) /\ Anchored(x)
  <2>1. parts = [k \in 1 .. Len(Bench) |-> parts[k]]
    BY BenchPlaces
  <2> HIDE DEF parts, E
  <2> QED BY <1>5, <2>1, BenchPlaces, AnchoredParts
<1> HIDE DEF E, x
<1>7. events \in Seq(E) /\ Anchored(events)
  BY <1>3, <1>6, AbsenceEvents, AnchoredThen
<1> HIDE DEF events
<1>8. ~ Conflict(events)
  BY <1>2, <1>7, KeysDecideNoConflict
<1> QED BY <1>1, <1>7, <1>8

\* The items of one score are items of the list.
LEMMA ScoredItems ==
    ASSUME NEW R, NEW items \in Seq(R), NEW n
    PROVE  Scored(items, n) \in Seq(R)
<1> DEFINE parts == [i \in DOMAIN items |-> IF items[i].score = n THEN <<items[i]>> ELSE <<>>]
<1>1. DOMAIN items = 1 .. Len(items) /\ Len(items) \in Nat /\ \A i \in DOMAIN items : items[i] \in R
  OBVIOUS
<1>2. parts = [i \in 1 .. Len(items) |-> parts[i]]
  BY <1>1
<1>3. ASSUME NEW i \in 1 .. Len(items) PROVE parts[i] \in Seq(R)
  <2> DEFINE e == items[i]
  <2>1. e \in R
    BY <1>1
  <2>2. parts[i] = <<>> \/ parts[i] = <<e>>
    BY <1>1
  <2> HIDE DEF e, parts
  <2> QED BY <2>1, <2>2, AtMostOne
<1> HIDE DEF parts
<1>4. FlattenSeq(parts) \in Seq(R)
  BY <1>1, <1>2, <1>3, FlattenParts
<1> QED BY <1>4 DEF Scored, parts

\* Two items rekeyed alike repeat an id each, and were made from one text.
LEMMA RekeyedAlike ==
    ASSUME NEW all \in Seq(Blindspot), NEW i \in DOMAIN all, NEW j \in DOMAIN all,
           Rekey(all)[i].id = Rekey(all)[j].id, i < j
    PROVE  /\ all[i].text = all[j].text
           /\ \E k \in 1 .. i - 1 : all[k].id = all[i].id
           /\ \E k \in 1 .. j - 1 : all[k].id = all[j].id
<1>1. DOMAIN all = 1 .. Len(all) /\ Len(all) \in Nat /\ i \in Nat /\ j \in Nat
  OBVIOUS
<1>2. \A k \in DOMAIN all : all[k] \in Blindspot
  OBVIOUS
<1> DEFINE Again == {k \in DOMAIN all : \E m \in 1 .. k - 1 : all[m].id = all[k].id}
           id(k) == Rekey(all)[k].id
<1>3. \A k \in DOMAIN all :
        id(k) = IF k \in Again THEN <<"made_from", all[k].text>> ELSE <<"given", all[k].id>>
  BY <1>2 DEF Rekey, Rekeyed, Blindspot
<1>4. i \in Again /\ j \in Again /\ all[i].text = all[j].text
  <2>1. id(i) = id(j)
    OBVIOUS
  <2>2. i \in 1 .. j - 1
    BY <1>1
  <2>3. all[i].id = all[j].id => j \in Again
    BY <2>2
  <2> HIDE DEF Again, id
  <2>4. \A t, u : <<"made_from", t>> # <<"given", u>>
    OBVIOUS
  <2>5. \A t, u : /\ <<"given", t>> = <<"given", u>> => t = u
                  /\ <<"made_from", t>> = <<"made_from", u>> => t = u
    OBVIOUS
  <2>6. CASE j \in Again
    BY <1>3, <2>1, <2>4, <2>5, <2>6
  <2>7. CASE j \notin Again
    BY <1>3, <2>1, <2>3, <2>4, <2>5, <2>7
  <2> QED BY <2>6, <2>7
<1> QED BY <1>4

\* A bounty: its events conflict only when two nominations repeat ids for one
\* blindspot, with different scores.
LEMMA BountyConflicts ==
    ASSUME NEW a, \A s \in DOMAIN a : a[s] \in Seq(Blindspot),
           NEW all, all = Nominated(a)
    PROVE  /\ \A i \in DOMAIN Bounty(a).events : Bounty(a).events[i].key[1] # "fork"
           /\ Conflict(Bounty(a).events) => RepeatedAlike(a)
<1>1. all \in Seq(Blindspot)
  <2> DEFINE parts == [i \in DOMAIN Bench |->
                         IF Bench[i] \in DOMAIN a THEN a[Bench[i]] ELSE <<>>]
  <2>1. parts = [i \in DOMAIN Bench |-> parts[i]]
    OBVIOUS
  <2>2. \A i \in DOMAIN Bench : parts[i] \in Seq(Blindspot)
    <3>1. <<>> \in Seq(Blindspot)
      OBVIOUS
    <3> QED BY <3>1
  <2>3. all = FlattenSeq(parts)
    BY DEF Nominated, InOrder
  <2> HIDE DEF parts
  <2> QED BY <2>1, <2>2, <2>3, BenchParts
<1> DEFINE items == Rekey(all)
           R == {items[i] : i \in DOMAIN items}
           ranked == Ranked(items)
           e(r) == Event(<<"blindspot", r.id>>, <<r.text, r.score>>)
           shown == [i \in DOMAIN ranked |-> e(ranked[i])]
           extra == Event(<<"assignments">>, <<>>)
           more == IF ranked = <<>> THEN <<>> ELSE <<extra>>
           absent == UnavailableEvents(a)
           E == Absences \cup {e(r) : r \in R} \cup {extra}
           events == shown \o more \o absent
<1>2. Bounty(a).events = events
  BY DEF Bounty, Outcome
<1>3. items \in Seq(R) /\ DOMAIN items = DOMAIN all
  <2>1. DOMAIN items = DOMAIN all
    BY DEF Rekey
  <2>2. DOMAIN all = 1 .. Len(all) /\ Len(all) \in Nat
    BY <1>1
  <2>3. \A i \in 1 .. Len(all) : items[i] \in R
    BY <2>1, <2>2
  <2>4. items = [i \in 1 .. Len(all) |-> items[i]]
    BY <2>2 DEF Rekey
  <2> HIDE DEF items, R
  <2>5. items \in [1 .. Len(all) -> R]
    BY <2>3, <2>4
  <2>6. items \in Seq(R)
    <3>1. \A n \in Nat : \A f, S : f \in [1 .. n -> S] => f \in Seq(S)
      OBVIOUS
    <3> QED BY <2>2, <2>5, <3>1, Zenon
  <2> QED BY <2>1, <2>6
<1>4. ranked \in Seq(R)
  <2> HIDE DEF items, R
  <2>1. \A n : Scored(items, n) \in Seq(R)
    BY <1>3, ScoredItems
  <2> QED BY <2>1 DEF Ranked
<1>5. shown \in Seq(E)
  <2>1. \A r \in R : e(r) \in E
    OBVIOUS
  <2> HIDE DEF R, E, ranked, e
  <2>2. DOMAIN ranked = 1 .. Len(ranked) /\ Len(ranked) \in Nat /\ \A i \in DOMAIN ranked : ranked[i] \in R
    BY <1>4
  <2>3. shown \in [1 .. Len(ranked) -> E]
    BY <2>1, <2>2
  <2> HIDE DEF shown
  <2> QED BY <2>2, <2>3
<1>6. more \in Seq(E)
  <2>1. extra \in E
    OBVIOUS
  <2>2. more = <<>> \/ more = <<extra>>
    OBVIOUS
  <2> HIDE DEF extra, more, E
  <2> QED BY <2>1, <2>2, AtMostOne
<1>7. absent \in Seq(E)
  <2>1. Absences \subseteq E
    OBVIOUS
  <2> HIDE DEF E
  <2> QED BY <2>1, AbsenceEvents, Widen
<1>8. events \in Seq(E)
  <2> HIDE DEF E, shown, more, absent
  <2> QED BY <1>5, <1>6, <1>7
<1>9. NoFork(E)
  <2> HIDE DEF items, R, ranked, shown, more, absent, events
  <2> QED BY DEF NoFork, Absences, Event
<1>10. \A i \in DOMAIN events : events[i].key[1] # "fork"
  <2> HIDE DEF E, events
  <2> QED BY <1>8, <1>9, NoForkFollows
<1>11. ASSUME Conflict(events) PROVE RepeatedAlike(a)
  <2>1. PICK f \in E, g \in E : f.key = g.key /\ f.payload # g.payload
    <3> HIDE DEF E, events
    <3>1. \A i \in DOMAIN events : events[i] \in E
      BY <1>8
    <3> QED BY <1>11, <3>1 DEF Conflict
  <2>2. PICK p \in R, q \in R : f = e(p) /\ g = e(q) /\ p.id = q.id
    <3> HIDE DEF items, R, ranked, shown, more, absent, events
    <3> QED BY <2>1 DEF Absences, Event
  <2>3. <<p.text, p.score>> # <<q.text, q.score>>
    <3>1. f.payload = <<p.text, p.score>> /\ g.payload = <<q.text, q.score>>
      BY <2>2 DEF Event
    <3> HIDE DEF R, e, E
    <3> QED BY <2>1, <3>1
  <2>4. PICK i \in DOMAIN items, j \in DOMAIN items : p = items[i] /\ q = items[j]
    <3> HIDE DEF items
    <3> QED OBVIOUS
  <2>5. /\ i \in DOMAIN all /\ j \in DOMAIN all /\ items[i].id = items[j].id /\ i # j
        /\ \A k \in DOMAIN all : items[k].text = all[k].text /\ items[k].score = all[k].score
    <3>1. i \in DOMAIN all /\ j \in DOMAIN all /\ items[i].id = items[j].id /\ i # j
      <4> HIDE DEF items, R, e
      <4> QED BY <1>3, <2>2, <2>3, <2>4
    <3>2. \A k \in DOMAIN all : all[k] \in Blindspot
      BY <1>1
    <3>3. \A k \in DOMAIN all : items[k].text = all[k].text /\ items[k].score = all[k].score
      BY <3>2 DEF Rekey, Rekeyed, Blindspot
    <3> QED BY <3>1, <3>3
  <2>6. i \in Nat /\ j \in Nat
    <3>1. DOMAIN all = 1 .. Len(all)
      BY <1>1
    <3> HIDE DEF items
    <3> QED BY <2>5, <3>1
  <2> DEFINE Same(m, n) ==
               /\ all[m].text = all[n].text /\ all[m].score # all[n].score
               /\ \E k \in 1 .. m - 1 : all[k].id = all[m].id
               /\ \E k \in 1 .. n - 1 : all[k].id = all[n].id
  <2>0. \A m, n \in DOMAIN all :
           items[m].id = items[n].id /\ m < n /\ <<all[m].text, all[m].score>> # <<all[n].text, all[n].score>>
              => Same(m, n)
    <3> SUFFICES ASSUME NEW m \in DOMAIN all, NEW n \in DOMAIN all, items[m].id = items[n].id, m < n,
                        <<all[m].text, all[m].score>> # <<all[n].text, all[n].score>>
                 PROVE  Same(m, n)
      OBVIOUS
    <3>1. Rekey(all)[m].id = Rekey(all)[n].id
      OBVIOUS
    <3> HIDE DEF items
    <3> QED BY <1>1, <3>1, RekeyedAlike
  <2>7. <<all[i].text, all[i].score>> # <<all[j].text, all[j].score>>
    <3> HIDE DEF items, R, e
    <3> QED BY <2>3, <2>4, <2>5
  <2>8. \E m, n \in DOMAIN all : m < n /\ Same(m, n)
    <3>1. \A m, n \in Nat : m # n => m < n \/ n < m
      OBVIOUS
    <3>2. i < j \/ j < i
      BY <2>5, <2>6, <3>1, Zenon
    <3>3. <<all[j].text, all[j].score>> # <<all[i].text, all[i].score>>
      BY <2>7
    <3> HIDE DEF items, Same
    <3>4. CASE i < j
      BY <2>0, <2>5, <2>7, <3>4, Zenon
    <3>5. CASE j < i
      BY <2>0, <2>5, <3>3, <3>5, Zenon
    <3> QED BY <3>2, <3>4, <3>5
  <2> HIDE DEF items
  <2> QED BY <2>8 DEF RepeatedAlike
<1> HIDE DEF events
<1> QED BY <1>2, <1>10, <1>11

-----------------------------------------------------------------------------
(* The invariant *)

RoundInv ==
    /\ RoundTypeOK
    /\ DOMAIN carried = {"initial", "available"}
    /\ minutes # Blank => round \in DOMAIN RoundNames
    /\ RoundsKeepWhatIsSaid
    /\ OnlyReusedIdsEndThePass

\* Minutes that say nothing keep everything that was said.
LEMMA NothingSaid ==
    ASSUME minutes.events = <<>>, minutes.end # "kept"
    PROVE  RoundsKeepWhatIsSaid
BY DEF RoundsKeepWhatIsSaid, CitationsAreAccountedFor, ForkFollowsItsAnchor, DissentIsKept, Held

\* The first round finds nothing to lose.
LEMMA RoundInitInv == RoundInit => RoundInv
<1> SUFFICES ASSUME RoundInit PROVE RoundInv
  OBVIOUS
<1>1. minutes.events = <<>> /\ minutes.end = "none" /\ minutes.name = "none"
  BY DEF RoundInit, Blank
<1>2. RoundsKeepWhatIsSaid
  BY <1>1, NothingSaid
<1>3. OnlyReusedIdsEndThePass
  BY <1>1 DEF OnlyReusedIdsEndThePass
<1>4. DOMAIN carried = {"initial", "available"}
  BY DEF RoundInit, NoCarry
<1>5. RoundTypeOK
  <2>1. <<>> \in Answers(Judgment)
    <3>1. <<>> \in [{} -> Judgment]
      OBVIOUS
    <3> QED BY <3>1 DEF Answers
  <2>2. Len(RoundNames) = 7 /\ 1 \in 1 .. 7 + 1
    BY DEF RoundNames
  <2>3. carried.initial = <<>> /\ carried.available = <<>> /\ DOMAIN <<>> = {}
    BY DEF RoundInit, NoCarry
  <2> QED BY <1>1, <2>1, <2>2, <2>3 DEF RoundInit, RoundTypeOK
<1>6. minutes = Blank
  BY DEF RoundInit
<1> QED BY <1>2, <1>3, <1>4, <1>5, <1>6 DEF RoundInv

\* What closing a round does.
LEMMA CloseDoes ==
    ASSUME NEW name, NEW a, NEW out, NEW raises, Close(name, a, out, raises)
    PROVE  /\ confirmed' = confirmed /\ round' = round
           /\ minutes'.name = name /\ minutes'.answers = a
           /\ raises \/ Conflict(out.events) =>
                 /\ carried' = carried
                 /\ minutes'.events = <<>>
                 /\ minutes'.end \in {"failed", "conflict"}
                 /\ minutes'.end = "conflict" => ~ raises /\ Conflict(out.events)
           /\ ~ (raises \/ Conflict(out.events)) =>
                 /\ carried' = [f \in DOMAIN carried |->
                                  IF f \in DOMAIN out.carry THEN out.carry[f] ELSE carried[f]]
                 /\ minutes'.end = "kept" /\ minutes'.events = out.events
                 /\ minutes'.slots = out.slots /\ minutes'.hands = out.carry
<1>1. confirmed' = confirmed /\ round' = round
  BY DEF Close
<1>2. CASE raises
  BY <1>1, <1>2 DEF Close, Fails, Blank
<1>3. CASE ~ raises /\ Conflict(out.events)
  BY <1>1, <1>3 DEF Close, Conflicts, Blank
<1>4. CASE ~ raises /\ ~ Conflict(out.events)
  BY <1>1, <1>4 DEF Close, Keeps
<1> QED BY <1>2, <1>3, <1>4

\* A carry of the types of what is carried.
Carries(carry) ==
    /\ "initial" \in DOMAIN carry => carry["initial"] \in Answers(Judgment)
    /\ "available" \in DOMAIN carry =>
          /\ DOMAIN carry["available"] \subseteq Sources
          /\ \A x \in DOMAIN carry["available"] : carry["available"][x] = "B"

\* The books of an exchange balance.
Balanced(answers, available, out) ==
    /\ \A s \in DOMAIN answers : \A x \in answers[s].items :
          IF x \in DOMAIN available
          THEN <<s, x, available[x]>> \in out.carry.published
          ELSE <<"unknown_source", s, x>> \in out.slots
    /\ \A p \in out.carry.published :
          /\ p[2] \in answers[p[1]].items \cap DOMAIN available
          /\ p[3] = available[p[2]]

\* A dissent has a certificate, or the run the slot that says why not.
Certifies(out) ==
    \A s \in Seats : Occurs(out.events, Event(<<"judgment", s>>, <<"dissent">>)) =>
        HasKey(out.events, <<"dissent", s>>) \/ <<"no_dissent_target">> \in out.slots

\* A round that closes with such an outcome keeps the invariant.
LEMMA CloseKeeps ==
    ASSUME RoundInv, NEW name, NEW a, NEW out, NEW raises, Close(name, a, out, raises),
           name # "none", round \in DOMAIN RoundNames,
           Conflict(out.events) =>
               \/ name = "exchange" /\ RevivedTwice(a)
               \/ name = "bounty" /\ RepeatedAlike(a),
           ~ Conflict(out.events) => Anchored(out.events),
           Carries(out.carry),
           name = "exchange" =>
               "available" \notin DOMAIN out.carry /\ Balanced(a, carried.available, out),
           name = "final" => Certifies(out)
    PROVE  RoundInv'
<1> DEFINE lost == raises \/ Conflict(out.events)
           carry == out.carry
<1>0. /\ confirmed' = confirmed /\ round' = round
      /\ minutes'.name = name /\ minutes'.answers = a
      /\ lost => /\ carried' = carried /\ minutes'.events = <<>>
                 /\ minutes'.end \in {"failed", "conflict"}
                 /\ minutes'.end = "conflict" => Conflict(out.events)
      /\ ~ lost => /\ carried' = [f \in DOMAIN carried |->
                                    IF f \in DOMAIN carry THEN carry[f] ELSE carried[f]]
                   /\ minutes'.end = "kept" /\ minutes'.events = out.events
                   /\ minutes'.slots = out.slots /\ minutes'.hands = carry
  BY CloseDoes
<1>1. DOMAIN carried = {"initial", "available"} /\ DOMAIN carried' = {"initial", "available"}
  BY <1>0 DEF RoundInv
<1>2. RoundTypeOK'
  <2>1. carried'.initial \in Answers(Judgment)
    <3>1. carried'.initial = carried.initial
            \/ ("initial" \in DOMAIN carry /\ carried'.initial = carry["initial"])
      BY <1>0, <1>1
    <3>2. carried.initial \in Answers(Judgment)
      BY DEF RoundInv, RoundTypeOK
    <3> QED BY <3>1, <3>2 DEF Carries
  <2>2. /\ DOMAIN carried'.available \subseteq Sources
        /\ \A x \in DOMAIN carried'.available : carried'.available[x] = "B"
    <3>1. carried'.available = carried.available
            \/ ("available" \in DOMAIN carry /\ carried'.available = carry["available"])
      BY <1>0, <1>1
    <3>2. /\ DOMAIN carried.available \subseteq Sources
          /\ \A x \in DOMAIN carried.available : carried.available[x] = "B"
      BY DEF RoundInv, RoundTypeOK
    <3> QED BY <3>1, <3>2 DEF Carries
  <2>3. minutes'.end \in {"none", "kept", "failed", "conflict"}
    BY <1>0
  <2>4. confirmed' \subseteq Claims /\ round' \in 1 .. Len(RoundNames) + 1
    BY <1>0 DEF RoundInv, RoundTypeOK
  <2> QED BY <2>1, <2>2, <2>3, <2>4 DEF RoundTypeOK
<1>3. OnlyReusedIdsEndThePass'
  <2>1. minutes'.end = "conflict" =>
           \/ minutes'.name = "exchange" /\ RevivedTwice(minutes'.answers)
           \/ minutes'.name = "bounty" /\ RepeatedAlike(minutes'.answers)
    BY <1>0
  <2> QED BY <2>1 DEF OnlyReusedIdsEndThePass, RevivedTwice, Granted, RepeatedAlike, Nominated,
                      InOrder
<1>4. RoundsKeepWhatIsSaid'
  <2>1. CASE lost
    <3>1. minutes'.events = <<>> /\ minutes'.end # "kept"
      BY <1>0, <2>1
    <3> QED BY <3>1 DEF RoundsKeepWhatIsSaid, CitationsAreAccountedFor, ForkFollowsItsAnchor,
                        DissentIsKept, Held
  <2>2. CASE ~ lost
    <3>1. CitationsAreAccountedFor'
      <4> SUFFICES ASSUME name = "exchange" PROVE CitationsAreAccountedFor'
        BY <1>0, <2>2 DEF CitationsAreAccountedFor, Held
      <4>1. carried'.available = carried.available
        BY <1>0, <1>1, <2>2
      <4>2. Balanced(a, carried.available, out)
        BY <2>2
      <4> QED BY <1>0, <2>2, <4>1, <4>2 DEF CitationsAreAccountedFor, Balanced
    <3>2. ForkFollowsItsAnchor'
      BY <1>0, <2>2 DEF ForkFollowsItsAnchor, Anchored
    <3>3. DissentIsKept'
      BY <1>0, <2>2 DEF DissentIsKept, Certifies, Held, Occurs, HasKey
    <3> QED BY <3>1, <3>2, <3>3 DEF RoundsKeepWhatIsSaid
  <2> QED BY <2>1, <2>2
<1>5. (minutes # Blank => round \in DOMAIN RoundNames)'
  BY <1>0
<1> QED BY <1>1, <1>2, <1>3, <1>4, <1>5 DEF RoundInv

\* Events without a fork are anchored.
LEMMA NoForkIsAnchored ==
    ASSUME NEW events, \A i \in DOMAIN events : events[i].key[1] # "fork"
    PROVE  Anchored(events)
BY DEF Anchored

\* The researcher's claims are few.
LEMMA ConfirmedIsFinite == RoundInv => IsFiniteSet(confirmed)
BY FS_Subset, RoundsAssumption DEF RoundInv, RoundTypeOK

LEMMA PrecommitmentKeeps == ASSUME RoundInv, HoldPrecommitment PROVE RoundInv'
<1>1. PICK a \in Answers(Judgment) : Close("precommitment", a, Precommitment(a), FALSE)
  BY DEF HoldPrecommitment
<1> DEFINE out == Precommitment(a)
<1>2. Sound(out.events)
  BY PrecommitmentIsSound
<1>3. Carries(out.carry)
  BY DEF Precommitment, Outcome, Carries
<1> HIDE DEF out
<1>4. ~ Conflict(out.events) /\ Anchored(out.events)
  BY <1>2, NoForkIsAnchored DEF Sound
<1>5. Close("precommitment", a, out, FALSE)
  BY <1>1 DEF out
<1>r. round \in DOMAIN RoundNames
  BY DEF HoldPrecommitment, At
<1> QED BY <1>3, <1>4, <1>5, <1>r, CloseKeeps

LEMMA AcquisitionKeeps == ASSUME RoundInv, HoldAcquisition PROVE RoundInv'
<1>1. PICK a \in Answers({"asks"}), got \in SUBSET Sources :
          Close("acquisition", a, AcquisitionRound(a, got), FALSE)
  BY DEF HoldAcquisition
<1> DEFINE out == AcquisitionRound(a, got)
<1>2. Sound(out.events)
  BY AcquisitionIsSound
<1>3. Carries(out.carry)
  BY DEF AcquisitionRound, Outcome, Carries, MetadataLevel
<1> HIDE DEF out
<1>4. ~ Conflict(out.events) /\ Anchored(out.events)
  BY <1>2, NoForkIsAnchored DEF Sound
<1>5. Close("acquisition", a, out, FALSE)
  BY <1>1 DEF out
<1>r. round \in DOMAIN RoundNames
  BY DEF HoldAcquisition, At
<1> QED BY <1>3, <1>4, <1>5, <1>r, CloseKeeps

LEMMA ExchangeKeeps == ASSUME RoundInv, HoldExchange PROVE RoundInv'
<1>1. PICK a \in Answers(ExchangeAnswer) :
          Close("exchange", a, Exchange(a, carried.available, confirmed), Unparsable(a))
  BY DEF HoldExchange
<1> DEFINE available == carried.available
           out == Exchange(a, available, confirmed)
           raises == Unparsable(a)
<1>2. Anchored(out.events) /\ (Conflict(out.events) => RevivedTwice(a))
  <2>1. DOMAIN a \subseteq Seats /\ \A s \in DOMAIN a : a[s] \in ExchangeAnswer
    BY <1>1, AnswersAre
  <2> QED BY <2>1, ConfirmedIsFinite, ExchangeConflicts, NoForkIsAnchored
<1>3. Carries(out.carry) /\ "available" \notin DOMAIN out.carry
  BY DEF Exchange, Outcome, Carries
<1>4. Balanced(a, available, out)
  <2>1. out.carry.published =
            UNION {{<<s, x[1], x[2]>> : x \in Published(a, available, s)} : s \in DOMAIN a}
    BY DEF Exchange, Outcome
  <2>2. UNION {{<<"unknown_source", s, x>> : x \in a[s].items \ Cited(a, available, s)} :
                  s \in DOMAIN a} \subseteq out.slots
    BY DEF Exchange, Outcome
  <2>3. \A s : Published(a, available, s) =
                 {<<x, available[x]>> : x \in a[s].items \cap DOMAIN available}
    BY DEF Published, Cited, PublishedLevel
  <2>4. \A p \in out.carry.published : \E s \in DOMAIN a :
           \E x \in a[s].items \cap DOMAIN available : p = <<s, x, available[x]>>
    <3> HIDE DEF out, available
    <3> QED BY <2>1, <2>3
  <2>5. \A s \in DOMAIN a : \A x \in a[s].items \cap DOMAIN available :
           <<s, x, available[x]>> \in out.carry.published
    <3> SUFFICES ASSUME NEW s \in DOMAIN a, NEW x \in a[s].items \cap DOMAIN available
                 PROVE  <<s, x, available[x]>> \in out.carry.published
      OBVIOUS
    <3> DEFINE pair == <<x, available[x]>>
               of(t) == {<<t, y[1], y[2]>> : y \in Published(a, available, t)}
    <3>1. pair \in Published(a, available, s)
      BY <2>3
    <3>2. <<s, pair[1], pair[2]>> \in of(s)
      BY <3>1
    <3>3. out.carry.published = UNION {of(t) : t \in DOMAIN a}
      BY <2>1
    <3>4. pair[1] = x /\ pair[2] = available[x]
      OBVIOUS
    <3> HIDE DEF out, available, of, pair
    <3> QED BY <3>2, <3>3, <3>4
  <2>6. \A s \in DOMAIN a : \A x \in a[s].items :
           x \notin DOMAIN available => <<"unknown_source", s, x>> \in out.slots
    <3> HIDE DEF out, available
    <3> QED BY <2>2 DEF Cited
  <2> HIDE DEF out, available
  <2> QED BY <2>4, <2>5, <2>6 DEF Balanced
<1> HIDE DEF out, raises
<1>5. Close("exchange", a, out, raises)
  BY <1>1 DEF out, raises
<1>r. round \in DOMAIN RoundNames
  BY DEF HoldExchange, At
<1> QED BY <1>2, <1>3, <1>4, <1>5, <1>r, CloseKeeps

LEMMA CrossExaminationKeeps == ASSUME RoundInv, HoldCrossExamination PROVE RoundInv'
<1>1. PICK a \in Answers(SeqOf(Challenge, 2)) :
          Close("cross", a, CrossExamination(a), FALSE)
  BY DEF HoldCrossExamination
<1> DEFINE out == CrossExamination(a)
<1>2. \A s \in DOMAIN a : a[s] \in Seq(Challenge)
  <2>1. SeqOf(Challenge, 2) \subseteq Seq(Challenge)
    BY ShortSequences
  <2>2. \A s \in DOMAIN a : a[s] \in SeqOf(Challenge, 2)
    BY AnswersAre
  <2> QED BY <2>1, <2>2
<1>3. Carries(out.carry)
  BY DEF CrossExamination, Outcome, Carries
<1> HIDE DEF out
<1>4. ~ Conflict(out.events) /\ Anchored(out.events)
  BY <1>2, CrossExaminationIsSound DEF out
<1>5. Close("cross", a, out, FALSE)
  BY <1>1 DEF out
<1>r. round \in DOMAIN RoundNames
  BY DEF HoldCrossExamination, At
<1> QED BY <1>3, <1>4, <1>5, <1>r, CloseKeeps

LEMMA BountyKeeps == ASSUME RoundInv, HoldBounty PROVE RoundInv'
<1>1. PICK a \in Answers(SeqOf(Blindspot, 2)) :
          Close("bounty", a, Bounty(a), Unrankable(a))
  BY DEF HoldBounty
<1> DEFINE out == Bounty(a)
           raises == Unrankable(a)
<1>2. \A s \in DOMAIN a : a[s] \in Seq(Blindspot)
  <2>1. SeqOf(Blindspot, 2) \subseteq Seq(Blindspot)
    BY ShortSequences
  <2>2. \A s \in DOMAIN a : a[s] \in SeqOf(Blindspot, 2)
    BY AnswersAre
  <2> QED BY <2>1, <2>2
<1>3. Carries(out.carry)
  BY DEF Bounty, Outcome, Carries
<1> HIDE DEF out, raises
<1>4. /\ Anchored(out.events)
      /\ Conflict(out.events) => RepeatedAlike(a)
  BY <1>2, BountyConflicts, NoForkIsAnchored DEF out
<1>5. Close("bounty", a, out, raises)
  BY <1>1 DEF out, raises
<1>r. round \in DOMAIN RoundNames
  BY DEF HoldBounty, At
<1> QED BY <1>3, <1>4, <1>5, <1>r, CloseKeeps

LEMMA JointModelingKeeps == ASSUME RoundInv, HoldJointModeling PROVE RoundInv'
<1>1. PICK a \in Answers(SUBSET Field) : Close("joint", a, JointModeling(a, confirmed), FALSE)
  BY DEF HoldJointModeling
<1> DEFINE out == JointModeling(a, confirmed)
<1>2. Sound(out.events)
  BY ConfirmedIsFinite, JointModelingIsSound
<1>3. Carries(out.carry)
  BY DEF JointModeling, Outcome, Carries
<1> HIDE DEF out
<1>4. ~ Conflict(out.events) /\ Anchored(out.events)
  BY <1>2, NoForkIsAnchored DEF Sound
<1>5. Close("joint", a, out, FALSE)
  BY <1>1 DEF out
<1>r. round \in DOMAIN RoundNames
  BY DEF HoldJointModeling, At
<1> QED BY <1>3, <1>4, <1>5, <1>r, CloseKeeps

LEMMA FinalRejudgmentKeeps == ASSUME RoundInv, HoldFinalRejudgment PROVE RoundInv'
<1>1. PICK a \in Answers(Judgment) :
          Close("final", a, FinalRejudgment(a, carried.initial, confirmed), FALSE)
  BY DEF HoldFinalRejudgment
<1> DEFINE out == FinalRejudgment(a, carried.initial, confirmed)
<1>2. DOMAIN Judgments(a, carried.initial) \subseteq Seats
  <2>1. DOMAIN a \subseteq Seats /\ DOMAIN carried.initial \subseteq Seats
    <3>1. carried.initial \in Answers(Judgment)
      BY DEF RoundInv, RoundTypeOK
    <3> QED BY <3>1, AnswersAre
  <2> QED BY <2>1 DEF Judgments
<1>3. Carries(out.carry)
  BY DEF FinalRejudgment, Outcome, Carries
<1>4. Sound(out.events) /\ Certifies(out)
  <2>1. out = FinalRejudgment(a, carried.initial, confirmed)
    OBVIOUS
  <2> HIDE DEF out
  <2> QED BY <1>2, <2>1, ConfirmedIsFinite, FinalIsSound DEF Certifies
<1> HIDE DEF out
<1>5. ~ Conflict(out.events) /\ Anchored(out.events)
  BY <1>4, NoForkIsAnchored DEF Sound
<1>6. Close("final", a, out, FALSE)
  BY <1>1 DEF out
<1>r. round \in DOMAIN RoundNames
  BY DEF HoldFinalRejudgment, At
<1> QED BY <1>3, <1>4, <1>5, <1>6, <1>r, CloseKeeps

LEMMA LoseRoundKeeps == ASSUME RoundInv, LoseRound PROVE RoundInv'
<1>1. /\ minutes'.end = "failed" /\ minutes'.events = <<>>
      /\ confirmed' = confirmed /\ round' = round /\ carried' = carried
  BY DEF LoseRound, Fails, Blank
<1>2. RoundsKeepWhatIsSaid'
  BY <1>1 DEF RoundsKeepWhatIsSaid, CitationsAreAccountedFor, ForkFollowsItsAnchor,
              DissentIsKept, Held
<1>3. OnlyReusedIdsEndThePass'
  BY <1>1 DEF OnlyReusedIdsEndThePass
<1>4. RoundTypeOK'
  BY <1>1 DEF RoundInv, RoundTypeOK
<1>5. round' \in DOMAIN RoundNames
  BY DEF LoseRound
<1> QED BY <1>1, <1>2, <1>3, <1>4, <1>5 DEF RoundInv

LEMMA NextRoundKeeps == ASSUME RoundInv, NextRound PROVE RoundInv'
<1>1. /\ minutes'.end = "none" /\ minutes'.events = <<>>
      /\ confirmed' = confirmed /\ round' = round + 1 /\ carried' = carried
  BY DEF NextRound, Blank
<1>2. RoundsKeepWhatIsSaid'
  BY <1>1 DEF RoundsKeepWhatIsSaid, CitationsAreAccountedFor, ForkFollowsItsAnchor,
              DissentIsKept, Held
<1>3. OnlyReusedIdsEndThePass'
  BY <1>1 DEF OnlyReusedIdsEndThePass
<1>4. RoundTypeOK'
  <2>1. round \in DOMAIN RoundNames
    BY DEF NextRound, RoundInv, Blank
  <2>2. round' \in 1 .. Len(RoundNames) + 1
    <3>1. DOMAIN RoundNames = 1 .. 7 /\ Len(RoundNames) = 7
      BY DEF RoundNames
    <3> QED BY <1>1, <2>1, <3>1
  <2> QED BY <1>1, <2>2 DEF RoundInv, RoundTypeOK
<1>5. minutes' = Blank
  BY DEF NextRound
<1> QED BY <1>1, <1>2, <1>3, <1>4, <1>5 DEF RoundInv

\* Nothing changes while nothing happens.
LEMMA RoundStutterKeeps == ASSUME RoundInv, UNCHANGED roundVars PROVE RoundInv'
<1>1. /\ confirmed' = confirmed /\ round' = round /\ carried' = carried
      /\ minutes' = minutes
  BY DEF roundVars
<1>2. RoundTypeOK'
  BY <1>1 DEF RoundInv, RoundTypeOK
<1>3. CitationsAreAccountedFor'
  BY <1>1 DEF RoundInv, RoundsKeepWhatIsSaid, CitationsAreAccountedFor, Held
<1>4. ForkFollowsItsAnchor'
  BY <1>1 DEF RoundInv, RoundsKeepWhatIsSaid, ForkFollowsItsAnchor
<1>5. DissentIsKept'
  BY <1>1 DEF RoundInv, RoundsKeepWhatIsSaid, DissentIsKept, Held, Occurs, HasKey
<1>6. OnlyReusedIdsEndThePass'
  <2>1. minutes.end = "conflict" =>
           \/ minutes.name = "exchange" /\ RevivedTwice(minutes.answers)
           \/ minutes.name = "bounty" /\ RepeatedAlike(minutes.answers)
    BY DEF RoundInv, OnlyReusedIdsEndThePass
  <2>2. minutes'.end = "conflict" =>
           \/ minutes'.name = "exchange" /\ RevivedTwice(minutes'.answers)
           \/ minutes'.name = "bounty" /\ RepeatedAlike(minutes'.answers)
    BY <1>1, <2>1
  <2> QED BY <2>2 DEF OnlyReusedIdsEndThePass, RevivedTwice, Granted, RepeatedAlike, Nominated,
                      InOrder
<1>7. (DOMAIN carried = {"initial", "available"})'
      /\ (minutes # Blank => round \in DOMAIN RoundNames)'
  BY <1>1 DEF RoundInv
<1> QED BY <1>2, <1>3, <1>4, <1>5, <1>6, <1>7 DEF RoundInv, RoundsKeepWhatIsSaid

\* The invariant holds of every state of the rounds.
LEMMA RoundInvHolds == RoundSpec => []RoundInv
<1>1. RoundInit => RoundInv
  BY RoundInitInv
<1>2. RoundInv /\ [RoundNext]_roundVars => RoundInv'
  <2> SUFFICES ASSUME RoundInv, [RoundNext]_roundVars PROVE RoundInv'
    OBVIOUS
  <2>1. CASE HoldPrecommitment
    BY <2>1, PrecommitmentKeeps
  <2>2. CASE HoldAcquisition
    BY <2>2, AcquisitionKeeps
  <2>3. CASE HoldExchange
    BY <2>3, ExchangeKeeps
  <2>4. CASE HoldCrossExamination
    BY <2>4, CrossExaminationKeeps
  <2>5. CASE HoldBounty
    BY <2>5, BountyKeeps
  <2>6. CASE HoldJointModeling
    BY <2>6, JointModelingKeeps
  <2>7. CASE HoldFinalRejudgment
    BY <2>7, FinalRejudgmentKeeps
  <2>8. CASE LoseRound
    BY <2>8, LoseRoundKeeps
  <2>9. CASE NextRound
    BY <2>9, NextRoundKeeps
  <2>10. CASE UNCHANGED roundVars
    BY <2>10, RoundStutterKeeps
  <2> QED BY <2>1, <2>2, <2>3, <2>4, <2>5, <2>6, <2>7, <2>8, <2>9, <2>10 DEF RoundNext
<1> QED BY <1>1, <1>2, PTL DEF RoundSpec

\* What the rounds carry keeps its shape: judgments of seats, and acquired sources at the
\* level of metadata (packages/council/rounds).
THEOREM RoundsAreTypeCorrect == RoundSpec => []RoundTypeOK
<1>1. RoundInv => RoundTypeOK
  BY DEF RoundInv
<1> QED BY <1>1, RoundInvHolds, PTL

\* Whoever sits at the bench and whatever they answer, a round that is written keeps every
\* citation as a publication or a slot, anchors a claim before it is forked, and leaves a
\* certificate or a slot for every dissent.
THEOREM NothingSaidIsLost == RoundSpec => []RoundsKeepWhatIsSaid
<1>1. RoundInv => RoundsKeepWhatIsSaid
  BY DEF RoundInv
<1> QED BY <1>1, RoundInvHolds, PTL

\* Whoever sits at the bench and whatever they answer, the events of a round conflict,
\* which ends the pass, only in an exchange that revives a node twice over, and in a
\* bounty that repeats ids for one blindspot scored differently.
THEOREM ConflictsAreReusedIds == RoundSpec => []OnlyReusedIdsEndThePass
<1>1. RoundInv => OnlyReusedIdsEndThePass
  BY DEF RoundInv
<1> QED BY <1>1, RoundInvHolds, PTL
=============================================================================
