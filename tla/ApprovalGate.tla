---------------------------- MODULE ApprovalGate ----------------------------
(***************************************************************************)
(* security/approval_gate.py: InteractiveApprovalGate, the meeting point   *)
(* of a human's answer, the timer of asyncio.wait_for and the calls of     *)
(* submit_and_wait that wait for a decision.                               *)
(*                                                                         *)
(* A call ("waiter") suspends twice: while the webhook is posted, and in   *)
(* wait_for.  What makes wait_for return is not the same step as its       *)
(* return: the event or the timer only schedules the waiter, and callbacks *)
(* that run before it can still change the outcome.  When a timer fires on *)
(* a waiter that the event has already scheduled, Python 3.12 and later    *)
(* report a timeout and 3.10 and 3.11 do not; the project supports all of  *)
(* them, so TimerFires may or may not happen there.                        *)
(***************************************************************************)
EXTENDS FiniteSets

CONSTANTS
    Request,    \* action_ids
    Waiter,     \* calls of submit_and_wait
    NoRequest,  \* the call has not been made
    Undecided   \* the call has not returned

PENDING == "PENDING"
APPROVED == "APPROVED"
REJECTED == "REJECTED"
TIMED_OUT == "TIMED_OUT"
Answer == {APPROVED, REJECTED}
Status == Answer \cup {PENDING, TIMED_OUT}

ASSUME GateAssumption == NoRequest \notin Request /\ Undecided \notin Status

VARIABLES
    status,     \* req.status; "ABSENT" before create_request
    event,      \* is the request's asyncio.Event set?
    request,    \* the request each call waits for
    phase,      \* where each call stands
    wake,       \* what has scheduled a waiting call to resume
    decision,   \* the status in the ApprovalDecision each call returned
    answers     \* history: the approve and reject calls that returned True

vars == <<status, event, request, phase, wake, decision, answers>>
waiterVars == <<request, phase, wake, decision>>

TypeOK ==
    /\ status \in [Request -> Status \cup {"ABSENT"}]
    /\ event \in [Request -> BOOLEAN]
    /\ request \in [Waiter -> Request \cup {NoRequest}]
    /\ phase \in [Waiter -> {"idle", "dispatching", "waiting", "returned"}]
    /\ wake \in [Waiter -> {"nothing", "event", "timer"}]
    /\ decision \in [Waiter -> Answer \cup {TIMED_OUT, Undecided}]
    /\ answers \subseteq Request \X Answer

Init ==
    /\ status = [r \in Request |-> "ABSENT"]
    /\ event = [r \in Request |-> FALSE]
    /\ request = [w \in Waiter |-> NoRequest]
    /\ phase = [w \in Waiter |-> "idle"]
    /\ wake = [w \in Waiter |-> "nothing"]
    /\ decision = [w \in Waiter |-> Undecided]
    /\ answers = {}

----------------------------------------------------------------------------
(* A Faulty... operator is a deliberate mistake in the operator below it; only *)
(* substituting it uses it.                                                    *)

\* approve and reject refuse an unknown request, and one that is not pending.
FaultyAnswerable(r) == status[r] \in {PENDING, TIMED_OUT}
Answerable(r) == status[r] = PENDING

\* event.set() schedules the calls that wait on it, unless their timer already has.
Scheduled(r) ==
    [w \in Waiter |->
        IF request[w] = r /\ phase[w] = "waiting" /\ wake[w] = "nothing"
        THEN "event" ELSE wake[w]]

FaultyTimerArmed(w) ==
    phase[w] = "waiting" /\ wake[w] # "timer" /\ status[request[w]] = PENDING
TimerArmed(w) == phase[w] = "waiting" /\ wake[w] # "timer"

\* The request's status when the call returns.
FaultyUntimedOutcome(w) == status[request[w]]
FaultyOutcome(w) == IF wake[w] = "timer" THEN REJECTED ELSE status[request[w]]
Outcome(w) == IF wake[w] = "timer" THEN TIMED_OUT ELSE status[request[w]]

----------------------------------------------------------------------------

CreateRequest(r) ==
    /\ status[r] = "ABSENT"
    /\ status' = [status EXCEPT ![r] = PENDING]
    /\ UNCHANGED <<event, waiterVars, answers>>

\* Submit up to its first suspension.  The request is a new one or, with request=,
\* any earlier one: still pending, answered, timed out or awaited by another call.
\* Without a webhook_url nothing is posted and the call waits at once.
Submit(w, r, webhook) ==
    /\ phase[w] = "idle"
    /\ status' = [status EXCEPT ![r] = IF @ = "ABSENT" THEN PENDING ELSE @]
    /\ request' = [request EXCEPT ![w] = r]
    /\ phase' = [phase EXCEPT ![w] = IF webhook THEN "dispatching" ELSE "waiting"]
    /\ wake' = [wake EXCEPT ![w] = IF ~webhook /\ event[r] THEN "event" ELSE @]
    /\ UNCHANGED <<event, decision, answers>>

\* The post succeeded, failed or timed out: an exception is only logged.
Dispatched(w) ==
    /\ phase[w] = "dispatching"
    /\ phase' = [phase EXCEPT ![w] = "waiting"]
    /\ wake' = [wake EXCEPT ![w] = IF event[request[w]] THEN "event" ELSE @]
    /\ UNCHANGED <<status, event, request, decision, answers>>

TimerFires(w) ==
    /\ TimerArmed(w)
    /\ wake' = [wake EXCEPT ![w] = "timer"]
    /\ UNCHANGED <<status, event, request, phase, decision, answers>>

\* The rest of the call.  After a timeout the status is overwritten whatever it is.
Resume(w) ==
    /\ phase[w] = "waiting" /\ wake[w] # "nothing"
    /\ status' = [status EXCEPT ![request[w]] = Outcome(w)]
    /\ decision' = [decision EXCEPT ![w] = Outcome(w)]
    /\ phase' = [phase EXCEPT ![w] = "returned"]
    /\ UNCHANGED <<event, request, wake, answers>>

\* approve and reject, when they return True.
GiveAnswer(r, answer) ==
    /\ Answerable(r)
    /\ status' = [status EXCEPT ![r] = answer]
    /\ event' = [event EXCEPT ![r] = TRUE]
    /\ wake' = Scheduled(r)
    /\ answers' = answers \cup {<<r, answer>>}
    /\ UNCHANGED <<request, phase, decision>>

Progress(w) == Dispatched(w) \/ TimerFires(w) \/ Resume(w)

Next ==
    \/ \E r \in Request : CreateRequest(r)
    \/ \E w \in Waiter, r \in Request, webhook \in BOOLEAN : Submit(w, r, webhook)
    \/ \E r \in Request, answer \in Answer : GiveAnswer(r, answer)
    \/ \E w \in Waiter : Progress(w)

Spec == Init /\ [][Next]_vars

\* The event loop runs what is scheduled, a timer fires, and the post, made with
\* a timeout of 5 seconds, ends.  Nobody is obliged to answer.
FairSpec == Spec /\ \A w \in Waiter : WF_vars(Progress(w))

----------------------------------------------------------------------------
(* Correctness *)

\* approve and reject never both report success for one request, whatever timeouts
\* and resubmissions happen in between (lines 167, 183).
OneAnswer == \A x, y \in answers : x[1] = y[1] => x = y

\* A call only reports an approval or a rejection that a human gave for its request,
\* and the opposite answer was never accepted (lines 144-160).
DecisionsWereGiven ==
    \A w \in Waiter : decision[w] \in Answer =>
        /\ <<request[w], decision[w]>> \in answers
        /\ \A a \in Answer \ {decision[w]} : <<request[w], a>> \notin answers

\* Once a call has reported a timeout, on which the action is rolled back, no answer
\* to its request is accepted and no other call for it reports one (lines 146-153,
\* 167, 183): the status overwritten by one call is what every later one reads.
TimeoutIsFinal ==
    [][\A w \in Waiter : decision[w] = TIMED_OUT =>
          /\ \A a \in Answer :
                <<request[w], a>> \in answers' => <<request[w], a>> \in answers
          /\ \A v \in Waiter :
                request[v] = request[w] /\ decision'[v] # decision[v]
                    => decision'[v] = TIMED_OUT]_vars

\* Every submitted call returns a decision, answered or not, the first submission or
\* a later one of the same request (lines 144-154).
EveryCallReturns ==
    \A w \in Waiter : phase[w] # "idle" ~> decision[w] \in Answer \cup {TIMED_OUT}

============================================================================
