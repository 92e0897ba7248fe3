--------------------------- MODULE SafeLoopClients ---------------------------
(***************************************************************************)
(* The two clients through which AgentRuntime has an action executed       *)
(* (safeloop/operator-client.ts, safeloop/cli-client.ts), with the action  *)
(* runner's payload and the confined worker that applies it.               *)
(*                                                                         *)
(* The operator client publishes a request file, prompts the operator and  *)
(* polls for a receipt file.  The operator is another process: it opens    *)
(* the request, runs the worker and writes a receipt, at any time, or      *)
(* never.  The CLI client asks the approval resolver and runs one process  *)
(* that does the same and prints the receipt.  The worker reads the        *)
(* payload, which is removed when the call is over, and applies it.        *)
(*                                                                         *)
(* Names of requests are unique, the digest binds a receipt to a request:  *)
(* a receipt is "own" if it passes every check for its request.            *)
(***************************************************************************)
EXTENDS Naturals, FiniteSets

CONSTANTS
  Requests,   \* execute() calls
  ByOperator  \* those of them made on the operator client

ASSUME ClientsAssumption == ByOperator \subseteq Requests

VARIABLES
  at,       \* at[r]: what the call awaits
  verdict,  \* verdict[r]: "accepted", "refused" or none yet
  request,  \* request[r]: is the request file there?
  receipt,  \* receipt[r]: the receipt file
  payload,  \* payload[r]: is the action payload there?
  work,     \* work[r]: how far the authority has got with it
  wrote,    \* wrote[r]: has the operator created the receipt file?
  late,     \* late[r]: has the client's timeout passed?
  aborted   \* aborted[r]: where its signal was aborted, or "no"

files     == <<request, receipt, payload>>
authority == <<work, wrote>>
signals   == <<late, aborted>>
vars      == <<at, verdict, files, authority, signals>>

\* dangling: its run directory or an artifact does not exist (yet).  other: unsafe,
\* malformed, not verified, or bound to another request.
Receipts == {"none", "partial", "own", "dangling", "other"}
Waits    == {"idle", "writing", "prompting", "polling", "reading", "sleeping",
             "approving", "running", "closing", "closed", "done"}

TypeOK ==
  /\ at \in [Requests -> Waits]
  /\ verdict \in [Requests -> {"none", "accepted", "refused"}]
  /\ request \in [Requests -> BOOLEAN]
  /\ receipt \in [Requests -> Receipts]
  /\ payload \in [Requests -> BOOLEAN]
  /\ work \in [Requests -> {"none", "opened", "running", "applied", "failed"}]
  /\ wrote \in [Requests -> BOOLEAN]
  /\ late \in [Requests -> BOOLEAN]
  /\ aborted \in [Requests -> Waits \cup {"no"}]

\* RepoActionRunner.prepare has written the payload.
Init ==
  /\ at = [r \in Requests |-> "idle"]
  /\ verdict = [r \in Requests |-> "none"]
  /\ request = [r \in Requests |-> FALSE]
  /\ receipt = [r \in Requests |-> "none"]
  /\ payload = [r \in Requests |-> TRUE]
  /\ work = [r \in Requests |-> "none"]
  /\ wrote = [r \in Requests |-> FALSE]
  /\ late = [r \in Requests |-> FALSE]
  /\ aborted = [r \in Requests |-> "no"]

-----------------------------------------------------------------------------
(* Parts of a call                                                         *)

Move(r, place) ==
  /\ at' = [at EXCEPT ![r] = place]
  /\ UNCHANGED verdict

\* The call is decided; its finally block comes next.
Settle(r, v) ==
  /\ at' = [at EXCEPT ![r] = "closing"]
  /\ verdict' = [verdict EXCEPT ![r] = v]

\* The polling loop has no deadline.
WrongExpired(r) == FALSE

\* The test of the polling loop.
Expired(r) == late[r]

\* The signal is looked at only while there is no receipt.
WrongGivesUp(r) == Expired(r) \/ (aborted[r] # "no" /\ receipt[r] = "none")

\* Does the head of the polling loop end the wait?
GivesUp(r) == Expired(r) \/ aborted[r] # "no"

\* A receipt is taken without a look at its binding.
WrongBound(kind) == kind \in {"own", "other"}

\* parseReceipt returns.
Bound(kind) == kind = "own"

-----------------------------------------------------------------------------
(* The operator client                                                     *)

\* execute() validates its input, resolves paths and writes the temporary file.
Begin(r) ==
  /\ at[r] = "idle" /\ r \in ByOperator
  /\ \/ Move(r, "writing")
     \/ Settle(r, "refused")
  /\ UNCHANGED <<files, authority, signals>>

\* The temporary file becomes the request file and the operator is prompted; or
\* a file operation fails.
Publish(r) ==
  /\ at[r] = "writing"
  /\ \/ /\ Move(r, "prompting")
        /\ request' = [request EXCEPT ![r] = TRUE]
     \/ /\ Settle(r, "refused")
        /\ UNCHANGED request
  /\ UNCHANGED <<receipt, payload, authority, signals>>

\* onOperatorRequired returns or throws, for all the client knows any time later.
Prompted(r) ==
  /\ at[r] = "prompting"
  /\ Move(r, "polling") \/ Settle(r, "refused")
  /\ UNCHANGED <<files, authority, signals>>

\* The head of the polling loop, and lstat.
Poll(r) ==
  /\ at[r] = "polling"
  /\ \/ GivesUp(r) /\ Settle(r, "refused")
     \/ ~ GivesUp(r) /\ receipt[r] = "none" /\ Move(r, "sleeping")
     \/ ~ GivesUp(r) /\ receipt[r] # "none" /\ Move(r, "reading")
     \/ ~ GivesUp(r) /\ receipt[r] = "other" /\ Settle(r, "refused")
  /\ UNCHANGED <<files, authority, signals>>

\* The receipt is read and parsed.  A path in it that does not exist looks like a
\* receipt that is not there yet.
Read(r) ==
  /\ at[r] = "reading"
  /\ \/ Bound(receipt[r]) /\ Settle(r, "accepted")
     \/ receipt[r] = "dangling" /\ Move(r, "sleeping")
     \/ ~ Bound(receipt[r]) /\ receipt[r] # "dangling" /\ Settle(r, "refused")
  /\ UNCHANGED <<files, authority, signals>>

Wake(r) ==
  /\ at[r] = "sleeping"
  /\ Move(r, "polling")
  /\ UNCHANGED <<files, authority, signals>>

-----------------------------------------------------------------------------
(* The CLI client                                                          *)

\* prepare() validates its input and asks the approval resolver.
Prepare(r) ==
  /\ at[r] = "idle" /\ r \notin ByOperator
  /\ \/ Move(r, "approving")
     \/ Settle(r, "refused")
  /\ UNCHANGED <<files, authority, signals>>

\* With an approval, or for a read-only action without one, the request is
\* written and the CLI is started; or one of these fails.
Approved(r) ==
  /\ at[r] = "approving"
  /\ \/ /\ Move(r, "running")
        /\ request' = [request EXCEPT ![r] = TRUE]
     \/ /\ Settle(r, "refused")
        /\ UNCHANGED request
  /\ UNCHANGED <<receipt, payload, authority, signals>>

\* The CLI exits, by itself or killed by the timer or the signal, which its worker
\* may survive.  What it prints is a receipt of its own only if it got that far.
Exit(r) ==
  /\ at[r] = "running"
  /\ \E kind \in Receipts :
       /\ kind = "own" => work[r] = "applied"
       /\ Settle(r, IF Bound(kind) THEN "accepted" ELSE "refused")
  /\ UNCHANGED <<files, authority, signals>>

-----------------------------------------------------------------------------
(* The end of a call                                                       *)

\* The finally block: whatever there is of request and receipt is removed.
Close(r) ==
  /\ at[r] = "closing"
  /\ Move(r, "closed")
  /\ request' = [request EXCEPT ![r] = FALSE]
  /\ receipt' = [receipt EXCEPT ![r] = "none"]
  /\ UNCHANGED <<payload, authority, signals>>

\* The caller's finally block: cleanup() of the action runner.
Clean(r) ==
  /\ at[r] = "closed"
  /\ Move(r, "done")
  /\ payload' = [payload EXCEPT ![r] = FALSE]
  /\ UNCHANGED <<request, receipt, authority, signals>>

-----------------------------------------------------------------------------
(* The authority                                                           *)

\* The operator, or the CLI process, reads the request.
Open(r) ==
  /\ work[r] = "none" /\ request[r]
  /\ work' = [work EXCEPT ![r] = "opened"]
  /\ UNCHANGED <<at, verdict, files, wrote, signals>>

\* Can the worker read and verify the payload?
Ready(r) == payload[r]

\* The worker reads its payload and checks the digest, path and classification.
Start(r) ==
  /\ work[r] = "opened"
  /\ work' = [work EXCEPT ![r] = IF Ready(r) THEN "running" ELSE "failed"]
  /\ UNCHANGED <<at, verdict, files, wrote, signals>>

\* The worker applies the action, by one rename, or fails.
Apply(r) ==
  /\ work[r] = "running"
  /\ \E w \in {"applied", "failed"} : work' = [work EXCEPT ![r] = w]
  /\ UNCHANGED <<at, verdict, files, wrote, signals>>

\* The operator writes the receipt: at once, or in pieces.  What is written to a
\* file that the client has removed in between is lost.
Report(r) ==
  /\ r \in ByOperator /\ work[r] \in {"applied", "failed"}
  /\ ~ wrote[r] \/ receipt[r] = "partial"
  /\ wrote' = [wrote EXCEPT ![r] = TRUE]
  /\ \E kind \in Receipts \ {"none", receipt[r]} :
       /\ kind \in {"own", "dangling"} => work[r] = "applied"
       /\ receipt' = [receipt EXCEPT ![r] = kind]
  /\ UNCHANGED <<at, verdict, request, payload, work, signals>>

\* The artifacts of a receipt that came early are there.
ArtifactsAppear(r) ==
  /\ receipt[r] = "dangling"
  /\ receipt' = [receipt EXCEPT ![r] = "own"]
  /\ UNCHANGED <<at, verdict, request, payload, authority, signals>>

-----------------------------------------------------------------------------
(* The clock and the caller                                                *)

Pending(r) == at[r] \notin {"idle", "closing", "closed", "done"}

DeadlinePasses(r) ==
  /\ Pending(r) /\ ~ late[r]
  /\ late' = [late EXCEPT ![r] = TRUE]
  /\ UNCHANGED <<at, verdict, files, authority, aborted>>

\* The run's signal is aborted: nobody listens, the polling loop looks.
Abort(r) ==
  /\ at[r] = "idle" \/ Pending(r)
  /\ aborted[r] = "no"
  /\ aborted' = [aborted EXCEPT ![r] = at[r]]
  /\ UNCHANGED <<at, verdict, files, authority, late>>

Next ==
  \E r \in Requests :
    \/ Begin(r) \/ Publish(r) \/ Prompted(r) \/ Poll(r) \/ Read(r) \/ Wake(r)
    \/ Prepare(r) \/ Approved(r) \/ Exit(r)
    \/ Close(r) \/ Clean(r)
    \/ Open(r) \/ Start(r) \/ Apply(r) \/ Report(r) \/ ArtifactsAppear(r)
    \/ DeadlinePasses(r) \/ Abort(r)

Spec == Init /\ [][Next]_vars

\* File operations and timers end, and so does the CLI, which enforces the
\* request's timeout.  Nothing is assumed of the operator, nor of the prompt.
Fairness ==
  \A r \in Requests :
    /\ WF_vars(Publish(r) \/ Poll(r) \/ Read(r) \/ Wake(r) \/ Close(r) \/ Clean(r))
    /\ WF_vars(Exit(r))
    /\ WF_vars(DeadlinePasses(r))

FairSpec == Spec /\ Fairness

-----------------------------------------------------------------------------
(* Properties                                                              *)

\* A receipt left behind in the broker directory is that of a refused call: an
\* operator who was late.
OrphansAreRefused ==
  \A r \in Requests :
    at[r] \in {"closed", "done"} /\ receipt[r] # "none" => verdict[r] = "refused"

\* A call whose signal was aborted before it read a receipt is refused, even if a
\* good receipt is there by the time it looks.
AbortedIsRefused ==
  \A r \in ByOperator :
    aborted[r] \notin {"no", "reading"} => verdict[r] # "accepted"

\* Once a call is over, an authority that has opened its request can no longer have
\* the action applied, unless the worker had started by then.
StaysOver ==
  \A r \in Requests :
    at[r] = "done" /\ work[r] \in {"none", "opened"} =>
      work'[r] \notin {"running", "applied"}

OverIsOver == [][StaysOver]_vars

\* Nothing that comes late overturns a refusal: neither a receipt, found in time by
\* a call that was aborted or left behind after it, nor an operator's approval.
RefusalsStand == [][OrphansAreRefused' /\ AbortedIsRefused' /\ StaysOver]_vars

\* After the prompt has returned, every call ends, even if no receipt ever comes or
\* its artifacts are never found.
CallsSettle ==
  \A r \in Requests :
    at[r] \in {"writing", "polling", "sleeping", "reading", "running", "closing"}
      ~> at[r] \in {"prompting", "done"}

Authority ==
  INSTANCE SafeLoopAuthority
    WITH answer <- verdict, applied <- [r \in Requests |-> work[r] = "applied"]

\* Both clients implement the authority that the agent runtime relies on: they
\* accept only what has been applied.
ImplementsAuthority == Authority!Spec
=============================================================================
