------------------------ MODULE SafeLoopClientsProofs ------------------------
(***************************************************************************)
(* Safety of the SafeLoop clients for every set of calls: the invariants   *)
(* and the action property that the run checks, and the refinement of the  *)
(* authority that the agent runtime relies on.                             *)
(***************************************************************************)
EXTENDS SafeLoopClients, TLAPS

Over == {"closing", "closed", "done"}

\* The row of call r: what no other call changes.
Row(r) == <<at[r], verdict[r], request[r], receipt[r], payload[r], work[r], wrote[r],
            late[r], aborted[r]>>

\* A good receipt, and a verdict that rests on one, is one of an applied action.
AppliedInv(r) ==
  /\ receipt[r] \in {"own", "dangling"} => work[r] = "applied"
  /\ verdict[r] = "accepted" => work[r] = "applied"

\* Calls are decided when they leave their wait; each client has its own waits.
StageInv(r) ==
  /\ verdict[r] = "none" <=> at[r] \notin Over
  /\ r \in ByOperator => at[r] \notin {"approving", "running"}
  /\ at[r] = "done" => ~ payload[r]

\* The operator writes one receipt, and no other call has a receipt file: nothing
\* comes back once the receipt of an accepted call is removed.
ReceiptInv(r) ==
  /\ receipt[r] # "none" => wrote[r] /\ r \in ByOperator
  /\ verdict[r] = "accepted" /\ r \in ByOperator => wrote[r]
  /\ verdict[r] = "accepted" /\ at[r] \in {"closed", "done"} => receipt[r] = "none"
  /\ at[r] = "reading" => receipt[r] # "none"

\* A call with an aborted signal passes the head of the polling loop no more.
AbortInv(r) ==
  r \in ByOperator /\ aborted[r] \notin {"no", "reading"} =>
    at[r] # "reading" /\ verdict[r] # "accepted"

RowInv(r) == AppliedInv(r) /\ StageInv(r) /\ ReceiptInv(r) /\ AbortInv(r)

CallInv == TypeOK /\ \A r \in Requests : RowInv(r)

LEMMA RowStable ==
  ASSUME NEW r \in Requests, RowInv(r), UNCHANGED Row(r)
  PROVE  RowInv(r)'
BY DEF RowInv, AppliedInv, StageInv, ReceiptInv, AbortInv, Row

\* A step of one call keeps the invariant if it does so in the row of that call.
LEMMA RowStep ==
  ASSUME CallInv, NEW r \in Requests, TypeOK', RowInv(r)',
         \A q \in Requests \ {r} : UNCHANGED Row(q)
  PROVE  CallInv'
BY RowStable DEF CallInv

LEMMA InitCallInv == Init => CallInv
BY DEF Init, CallInv, TypeOK, RowInv, AppliedInv, StageInv, ReceiptInv, AbortInv,
       Over, Waits, Receipts

-----------------------------------------------------------------------------
(* Steps of the clients                                                    *)

\* What happens before a call waits for its authority.
LEMMA StartsInv ==
  ASSUME CallInv, NEW r \in Requests, Begin(r) \/ Publish(r) \/ Prompted(r) \/ Prepare(r) \/ Approved(r)
  PROVE  CallInv'
<1>1. TypeOK /\ RowInv(r)
  BY DEF CallInv
<1>2. TypeOK'
  BY <1>1 DEF TypeOK, Begin, Publish, Prompted, Prepare, Approved, Move, Settle, files, authority, signals, Waits, Receipts
<1>3. RowInv(r)'
  BY <1>1 DEF RowInv, AppliedInv, StageInv, ReceiptInv, AbortInv, TypeOK, Begin, Publish, Prompted, Prepare, Approved,
              Move, Settle, files, authority, signals, Over, Waits, Receipts
<1>4. \A q \in Requests \ {r} : UNCHANGED Row(q)
  BY <1>1 DEF Row, TypeOK, Begin, Publish, Prompted, Prepare, Approved, Move, Settle, files, authority, signals
<1> QED BY <1>1, <1>2, <1>3, <1>4, RowStep

\* The head of the polling loop sees the signal.
LEMMA PollInv ==
  ASSUME CallInv, NEW r \in Requests, Poll(r)
  PROVE  CallInv'
<1>1. TypeOK /\ RowInv(r)
  BY DEF CallInv
<1>2. TypeOK'
  BY <1>1 DEF TypeOK, Poll, Move, Settle, files, authority, signals, Waits, Receipts
<1>3. RowInv(r)'
  BY <1>1 DEF RowInv, AppliedInv, StageInv, ReceiptInv, AbortInv, TypeOK, Poll,
              Move, Settle, files, authority, signals, GivesUp, Over, Waits, Receipts
<1>4. \A q \in Requests \ {r} : UNCHANGED Row(q)
  BY <1>1 DEF Row, TypeOK, Poll, Move, Settle, files, authority, signals
<1> QED BY <1>1, <1>2, <1>3, <1>4, RowStep

\* Only a receipt of its own is accepted.
LEMMA ReadInv ==
  ASSUME CallInv, NEW r \in Requests, Read(r)
  PROVE  CallInv'
<1>1. TypeOK /\ RowInv(r)
  BY DEF CallInv
<1>2. TypeOK'
  BY <1>1 DEF TypeOK, Read, Move, Settle, files, authority, signals, Waits, Receipts
<1>3. RowInv(r)'
  BY <1>1 DEF RowInv, AppliedInv, StageInv, ReceiptInv, AbortInv, TypeOK, Read,
              Move, Settle, files, authority, signals, Bound, Over, Waits, Receipts
<1>4. \A q \in Requests \ {r} : UNCHANGED Row(q)
  BY <1>1 DEF Row, TypeOK, Read, Move, Settle, files, authority, signals
<1> QED BY <1>1, <1>2, <1>3, <1>4, RowStep

\* The pause of the polling loop.
LEMMA WakeInv ==
  ASSUME CallInv, NEW r \in Requests, Wake(r)
  PROVE  CallInv'
<1>1. TypeOK /\ RowInv(r)
  BY DEF CallInv
<1>2. TypeOK'
  BY <1>1 DEF TypeOK, Wake, Move, Settle, files, authority, signals, Waits, Receipts
<1>3. RowInv(r)'
  BY <1>1 DEF RowInv, AppliedInv, StageInv, ReceiptInv, AbortInv, TypeOK, Wake,
              Move, Settle, files, authority, signals, Over, Waits, Receipts
<1>4. \A q \in Requests \ {r} : UNCHANGED Row(q)
  BY <1>1 DEF Row, TypeOK, Wake, Move, Settle, files, authority, signals
<1> QED BY <1>1, <1>2, <1>3, <1>4, RowStep

\* The end of the CLI.
LEMMA ExitInv ==
  ASSUME CallInv, NEW r \in Requests, Exit(r)
  PROVE  CallInv'
<1>1. TypeOK /\ RowInv(r)
  BY DEF CallInv
<1>2. TypeOK'
  BY <1>1 DEF TypeOK, Exit, Move, Settle, Bound, files, authority, signals, Waits, Receipts
<1>3. RowInv(r)'
  BY <1>1 DEF RowInv, AppliedInv, StageInv, ReceiptInv, AbortInv, TypeOK, Exit,
              Move, Settle, Bound, files, authority, signals, Over, Waits, Receipts
<1>4. \A q \in Requests \ {r} : UNCHANGED Row(q)
  BY <1>1 DEF Row, TypeOK, Exit, Move, Settle, Bound, files, authority, signals
<1> QED BY <1>1, <1>2, <1>3, <1>4, RowStep

\* The end of a call.
LEMMA OverInv ==
  ASSUME CallInv, NEW r \in Requests, Close(r) \/ Clean(r)
  PROVE  CallInv'
<1>1. TypeOK /\ RowInv(r)
  BY DEF CallInv
<1>2. TypeOK'
  BY <1>1 DEF TypeOK, Close, Clean, Move, authority, signals, Waits, Receipts
<1>3. RowInv(r)'
  BY <1>1 DEF RowInv, AppliedInv, StageInv, ReceiptInv, AbortInv, TypeOK, Close, Clean,
              Move, authority, signals, Over, Waits, Receipts
<1>4. \A q \in Requests \ {r} : UNCHANGED Row(q)
  BY <1>1 DEF Row, TypeOK, Close, Clean, Move, authority, signals
<1> QED BY <1>1, <1>2, <1>3, <1>4, RowStep

-----------------------------------------------------------------------------
(* Steps of the authority, the clock and the caller                        *)

\* The authority gets on with the request.
LEMMA WorkInv ==
  ASSUME CallInv, NEW r \in Requests, Open(r) \/ Start(r) \/ Apply(r)
  PROVE  CallInv'
<1>1. TypeOK /\ RowInv(r)
  BY DEF CallInv
<1>2. TypeOK'
  BY <1>1 DEF TypeOK, Open, Start, Apply, Ready, files, signals, Waits, Receipts
<1>3. RowInv(r)'
  BY <1>1 DEF RowInv, AppliedInv, StageInv, ReceiptInv, AbortInv, TypeOK, Open, Start, Apply,
              Ready, files, signals, Over, Waits, Receipts
<1>4. \A q \in Requests \ {r} : UNCHANGED Row(q)
  BY <1>1 DEF Row, TypeOK, Open, Start, Apply, Ready, files, signals
<1> QED BY <1>1, <1>2, <1>3, <1>4, RowStep

\* The operator writes a receipt only where there is none to come back.
LEMMA ReportInv ==
  ASSUME CallInv, NEW r \in Requests, Report(r)
  PROVE  CallInv'
<1>1. TypeOK /\ RowInv(r)
  BY DEF CallInv
<1>2. TypeOK'
  BY <1>1 DEF TypeOK, Report, signals, Waits, Receipts
<1>3. RowInv(r)'
  BY <1>1 DEF RowInv, AppliedInv, StageInv, ReceiptInv, AbortInv, TypeOK, Report,
              signals, Over, Waits, Receipts
<1>4. \A q \in Requests \ {r} : UNCHANGED Row(q)
  BY <1>1 DEF Row, TypeOK, Report, signals
<1> QED BY <1>1, <1>2, <1>3, <1>4, RowStep

\* Artifacts appear.
LEMMA ArtifactsInv ==
  ASSUME CallInv, NEW r \in Requests, ArtifactsAppear(r)
  PROVE  CallInv'
<1>1. TypeOK /\ RowInv(r)
  BY DEF CallInv
<1>2. TypeOK'
  BY <1>1 DEF TypeOK, ArtifactsAppear, authority, signals, Waits, Receipts
<1>3. RowInv(r)'
  BY <1>1 DEF RowInv, AppliedInv, StageInv, ReceiptInv, AbortInv, TypeOK, ArtifactsAppear,
              authority, signals, Over, Waits, Receipts
<1>4. \A q \in Requests \ {r} : UNCHANGED Row(q)
  BY <1>1 DEF Row, TypeOK, ArtifactsAppear, authority, signals
<1> QED BY <1>1, <1>2, <1>3, <1>4, RowStep

\* The deadline and the signal.
LEMMA ClockInv ==
  ASSUME CallInv, NEW r \in Requests, DeadlinePasses(r) \/ Abort(r)
  PROVE  CallInv'
<1>1. TypeOK /\ RowInv(r)
  BY DEF CallInv
<1>2. TypeOK'
  BY <1>1 DEF TypeOK, DeadlinePasses, Abort, Pending, files, authority, Waits, Receipts
<1>3. RowInv(r)'
  BY <1>1 DEF RowInv, AppliedInv, StageInv, ReceiptInv, AbortInv, TypeOK, DeadlinePasses, Abort,
              Pending, files, authority, Over, Waits, Receipts
<1>4. \A q \in Requests \ {r} : UNCHANGED Row(q)
  BY <1>1 DEF Row, TypeOK, DeadlinePasses, Abort, Pending, files, authority
<1> QED BY <1>1, <1>2, <1>3, <1>4, RowStep

-----------------------------------------------------------------------------
(* Theorems                                                                *)

LEMMA NextCallInv == CallInv /\ [Next]_vars => CallInv'
<1> SUFFICES ASSUME CallInv, [Next]_vars PROVE CallInv'
  OBVIOUS
<1>1. CASE Next
  BY <1>1, StartsInv, PollInv, ReadInv, WakeInv, ExitInv, OverInv, WorkInv, ReportInv,
     ArtifactsInv, ClockInv DEF Next
<1>2. CASE UNCHANGED vars
  <2>1. TypeOK'
    BY <1>2 DEF CallInv, TypeOK, vars, files, authority, signals
  <2>2. \A r \in Requests : UNCHANGED Row(r)
    BY <1>2 DEF Row, vars, files, authority, signals
  <2> QED BY <2>1, <2>2, RowStable DEF CallInv
<1> QED BY <1>1, <1>2

LEMMA CallInvariant == Spec => []CallInv
BY InitCallInv, NextCallInv, PTL DEF Spec

\* Every state of every set of calls has its type.
THEOREM ClientsTypeCorrect == Spec => []TypeOK
BY CallInvariant, PTL DEF CallInv

\* A receipt that is left in the broker directory belongs to a refused call.
THEOREM OrphansAreRefusedCorrect == Spec => []OrphansAreRefused
<1>1. CallInv => OrphansAreRefused
  BY DEF CallInv, TypeOK, RowInv, StageInv, ReceiptInv, OrphansAreRefused, Over
<1> QED BY <1>1, CallInvariant, PTL

\* A signal that is aborted before a receipt is read refuses the call.
THEOREM AbortedIsRefusedCorrect == Spec => []AbortedIsRefused
<1>1. CallInv => AbortedIsRefused
  BY ClientsAssumption DEF CallInv, RowInv, AbortInv, AbortedIsRefused
<1> QED BY <1>1, CallInvariant, PTL

\* Once the payload is removed, an action whose worker has not started is never
\* applied.
THEOREM OverIsOverCorrect == Spec => OverIsOver
<1>1. CallInv /\ [Next]_vars => [StaysOver]_vars
  <2> SUFFICES ASSUME CallInv, Next, NEW r \in Requests,
                      at[r] = "done", work[r] \in {"none", "opened"}
               PROVE  work'[r] \notin {"running", "applied"}
    BY DEF StaysOver
  <2>1. ~ payload[r] /\ work \in [Requests -> {"none", "opened", "running", "applied", "failed"}]
    BY DEF CallInv, TypeOK, RowInv, StageInv
  <2>2. PICK q \in Requests :
          \/ UNCHANGED work
          \/ Open(q) \/ Start(q) \/ Apply(q)
    BY DEF Next, Begin, Publish, Prompted, Poll, Read, Wake, Prepare, Approved, Exit, Close,
           Clean, Report, ArtifactsAppear, DeadlinePasses, Abort, authority
  <2>3. CASE q = r
    BY <2>1, <2>2, <2>3 DEF Open, Start, Apply, Ready
  <2>4. CASE q # r
    BY <2>1, <2>2, <2>4 DEF Open, Start, Apply
  <2> QED BY <2>3, <2>4
<1> QED BY <1>1, CallInvariant, PTL DEF Spec, OverIsOver

\* Nothing that comes late overturns a refusal, for every set of calls.
THEOREM RefusalsStandCorrect == Spec => RefusalsStand
BY OrphansAreRefusedCorrect, AbortedIsRefusedCorrect, OverIsOverCorrect, PTL
DEF RefusalsStand, OverIsOver

-----------------------------------------------------------------------------
(* Refinement                                                              *)

LEMMA AuthorityStep ==
  ASSUME CallInv, NEW r \in Requests,
         \/ UNCHANGED <<verdict, work>>
         \/ UNCHANGED work /\ verdict[r] = "none" /\ verdict' = [verdict EXCEPT ![r] = "refused"]
         \/ /\ UNCHANGED work /\ verdict[r] = "none" /\ work[r] = "applied"
            /\ verdict' = [verdict EXCEPT ![r] = "accepted"]
         \/ /\ UNCHANGED verdict /\ work[r] # "applied"
            /\ \E w \in {"opened", "running", "applied", "failed"} :
                 work' = [work EXCEPT ![r] = w]
  PROVE  [Authority!Next]_(Authority!vars)
<1> DEFINE applied == [q \in Requests |-> work[q] = "applied"]
<1>1. TypeOK /\ RowInv(r)
  BY DEF CallInv
<1>2. CASE UNCHANGED <<verdict, work>>
  BY <1>2 DEF Authority!vars
<1>3. CASE UNCHANGED work /\ verdict[r] = "none" /\ verdict' = [verdict EXCEPT ![r] = "refused"]
  BY <1>3 DEF Authority!Next, Authority!Refuse
<1>4. CASE /\ UNCHANGED work /\ verdict[r] = "none" /\ work[r] = "applied"
           /\ verdict' = [verdict EXCEPT ![r] = "accepted"]
  BY <1>4 DEF Authority!Next, Authority!Accept
<1>5. CASE /\ UNCHANGED verdict /\ work[r] # "applied"
           /\ \E w \in {"opened", "running", "applied", "failed"} :
                work' = [work EXCEPT ![r] = w]
  <2>1. PICK w \in {"opened", "running", "applied", "failed"} :
          work' = [work EXCEPT ![r] = w]
    BY <1>5
  <2>2. CASE w = "applied"
    <3>1. applied' = [applied EXCEPT ![r] = TRUE]
      BY <1>1, <2>1, <2>2 DEF TypeOK
    <3>2. verdict[r] # "accepted" /\ ~ applied[r]
      BY <1>1, <1>5 DEF RowInv, AppliedInv
    <3> QED BY <1>5, <3>1, <3>2 DEF Authority!Next, Authority!Apply
  <2>3. CASE w # "applied"
    <3>1. applied' = applied
      BY <1>1, <1>5, <2>1, <2>3 DEF TypeOK
    <3> QED BY <1>5, <3>1 DEF Authority!vars
  <2> QED BY <2>2, <2>3
<1> QED BY <1>2, <1>3, <1>4, <1>5

\* The clients implement the authority of the agent runtime: a call is accepted only
\* once its action has been applied, and no action is applied after that.
THEOREM ImplementsAuthorityCorrect == Spec => ImplementsAuthority
<1>1. Init => Authority!Init
  BY DEF Init, Authority!Init
<1>2. CallInv /\ [Next]_vars => [Authority!Next]_(Authority!vars)
  <2> SUFFICES ASSUME CallInv, [Next]_vars PROVE [Authority!Next]_(Authority!vars)
    OBVIOUS
  <2>1. CASE UNCHANGED vars
    BY <2>1 DEF vars, authority, Authority!vars
  <2>2. CASE Next
    <3>1. PICK r \in Requests :
            \/ Begin(r) \/ Publish(r) \/ Prompted(r) \/ Poll(r) \/ Read(r) \/ Wake(r)
            \/ Prepare(r) \/ Approved(r) \/ Exit(r)
            \/ Close(r) \/ Clean(r)
            \/ Open(r) \/ Start(r) \/ Apply(r) \/ Report(r) \/ ArtifactsAppear(r)
            \/ DeadlinePasses(r) \/ Abort(r)
      BY <2>2 DEF Next
    <3>2. RowInv(r) /\ TypeOK
      BY DEF CallInv
    <3>3. CASE Begin(r) \/ Publish(r) \/ Prompted(r) \/ Poll(r) \/ Wake(r)
               \/ Prepare(r) \/ Approved(r)
      <4>1. /\ UNCHANGED work /\ at[r] \notin Over
            /\ UNCHANGED verdict \/ verdict' = [verdict EXCEPT ![r] = "refused"]
        BY <3>3 DEF Begin, Publish, Prompted, Poll, Wake, Prepare, Approved, Move, Settle,
                    authority, Over
      <4> QED BY <3>2, <4>1, AuthorityStep DEF RowInv, StageInv
    <3>4. CASE Read(r) \/ Exit(r)
      <4>1. /\ UNCHANGED work /\ at[r] \notin Over
            /\ \/ UNCHANGED verdict
               \/ verdict' = [verdict EXCEPT ![r] = "refused"]
               \/ work[r] = "applied" /\ verdict' = [verdict EXCEPT ![r] = "accepted"]
        BY <3>2, <3>4 DEF Read, Exit, Bound, Move, Settle, authority, Over, RowInv, AppliedInv
      <4> QED BY <3>2, <4>1, AuthorityStep DEF RowInv, StageInv
    <3>5. CASE Open(r) \/ Start(r) \/ Apply(r)
      <4>1. /\ UNCHANGED verdict /\ work[r] # "applied"
            /\ \E w \in {"opened", "running", "applied", "failed"} :
                 work' = [work EXCEPT ![r] = w]
        BY <3>5 DEF Open, Start, Apply
      <4> QED BY <4>1, AuthorityStep
    <3>6. CASE Close(r) \/ Clean(r) \/ Report(r) \/ ArtifactsAppear(r)
               \/ DeadlinePasses(r) \/ Abort(r)
      <4>1. UNCHANGED <<verdict, work>>
        BY <3>6 DEF Close, Clean, Report, ArtifactsAppear, DeadlinePasses, Abort, Move,
                    authority
      <4> QED BY <4>1, AuthorityStep
    <3> QED BY <3>1, <3>3, <3>4, <3>5, <3>6
  <2> QED BY <2>1, <2>2
<1> QED BY <1>1, <1>2, CallInvariant, PTL DEF Spec, ImplementsAuthority, Authority!Spec
=============================================================================
