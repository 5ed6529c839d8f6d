------------------------- MODULE ApprovalGateProofs -------------------------
(***************************************************************************)
(* What the approval gate promises, for any number of requests and calls.  *)
(***************************************************************************)
EXTENDS ApprovalGate, TLAPS

\* The event is set exactly when an answer was accepted.
EventMeansAnswer ==
    \A r \in Request : event[r] <=> \E a \in Answer : <<r, a>> \in answers

\* A request that nobody has answered is still pending or has timed out, and the
\* status of an answered one is that answer or TIMED_OUT.
StatusMeansAnswer ==
    \A r \in Request :
        /\ status[r] \in {"ABSENT", PENDING} => ~event[r]
        /\ status[r] \in Answer => <<r, status[r]>> \in answers

\* How far a call has come, and what that says of its request.
InOrder(w) ==
    /\ phase[w] = "idle" => wake[w] = "nothing"
    /\ phase[w] # "idle" =>
          request[w] \in Request /\ status[request[w]] # "ABSENT"
    /\ wake[w] = "event" => event[request[w]]
    /\ phase[w] # "returned" => decision[w] = Undecided
    /\ decision[w] \in Answer => <<request[w], decision[w]>> \in answers
    /\ decision[w] = TIMED_OUT => status[request[w]] = TIMED_OUT

CallsInOrder == \A w \in Waiter : InOrder(w)

\* The invariant of the gate.
IInv ==
    /\ TypeOK
    /\ EventMeansAnswer
    /\ StatusMeansAnswer
    /\ CallsInOrder
    /\ OneAnswer

USE DEF Answer, Status, PENDING, APPROVED, REJECTED, TIMED_OUT

\* A call that the event has scheduled finds an answer or a timeout in the status:
\* it never reports a request as pending.
LEMMA OutcomeIsFinal ==
    ASSUME IInv, NEW w \in Waiter, phase[w] = "waiting", wake[w] # "nothing"
    PROVE  /\ request[w] \in Request
           /\ Outcome(w) \in Answer \cup {TIMED_OUT}
           /\ Outcome(w) \in Answer =>
                  Outcome(w) = status[request[w]] /\ <<request[w], Outcome(w)>> \in answers
           /\ status[request[w]] = TIMED_OUT => Outcome(w) = TIMED_OUT
<1>1. request[w] \in Request /\ status[request[w]] # "ABSENT"
  BY DEF IInv, CallsInOrder, InOrder
<1>2. status[request[w]] \in Status
  BY <1>1 DEF IInv, TypeOK
<1>3. wake[w] \in {"event", "timer"}
  BY DEF IInv, TypeOK
<1>4. wake[w] = "event" => status[request[w]] # PENDING
  BY <1>1 DEF IInv, CallsInOrder, InOrder, StatusMeansAnswer
<1> QED
  BY <1>1, <1>2, <1>3, <1>4 DEF Outcome, IInv, StatusMeansAnswer

\* It holds of a gate that was asked nothing.
LEMMA IInvInit == Init => IInv
BY GateAssumption
DEF Init, IInv, TypeOK, EventMeansAnswer, StatusMeansAnswer, CallsInOrder, InOrder, OneAnswer

\* Every request, answer, wait and timeout keeps it.
LEMMA IInvStep == IInv /\ [Next]_vars => IInv'
<1> SUFFICES ASSUME IInv, [Next]_vars PROVE IInv'
  OBVIOUS
<1>1. ASSUME NEW r \in Request, CreateRequest(r) PROVE IInv'
  BY <1>1, GateAssumption
  DEF CreateRequest, waiterVars, IInv, TypeOK, EventMeansAnswer, StatusMeansAnswer,
      CallsInOrder, InOrder, OneAnswer
<1>2. ASSUME NEW w \in Waiter, NEW r \in Request, NEW webhook \in BOOLEAN,
             Submit(w, r, webhook)
      PROVE  IInv'
  <2>1. TypeOK' /\ EventMeansAnswer' /\ OneAnswer'
    BY <1>2 DEF Submit, IInv, TypeOK, EventMeansAnswer, OneAnswer
  <2>2. StatusMeansAnswer'
    BY <1>2 DEF Submit, IInv, TypeOK, StatusMeansAnswer
  <2>3. CallsInOrder'
    <3> SUFFICES ASSUME NEW v \in Waiter PROVE InOrder(v)'
      BY DEF CallsInOrder
    <3>1. InOrder(v) /\ InOrder(w)
      BY DEF IInv, CallsInOrder
    <3>2. CASE v = w
      BY <1>2, <3>1, <3>2, GateAssumption DEF Submit, IInv, TypeOK, InOrder
    <3>3. CASE v # w
      BY <1>2, <3>1, <3>3 DEF Submit, IInv, TypeOK, InOrder
    <3> QED
      BY <3>2, <3>3
  <2> QED
    BY <2>1, <2>2, <2>3 DEF IInv
<1>3. ASSUME NEW w \in Waiter, Dispatched(w) PROVE IInv'
  BY <1>3
  DEF Dispatched, IInv, TypeOK, EventMeansAnswer, StatusMeansAnswer, CallsInOrder, InOrder,
      OneAnswer
<1>4. ASSUME NEW w \in Waiter, TimerFires(w) PROVE IInv'
  BY <1>4
  DEF TimerFires, TimerArmed, IInv, TypeOK, EventMeansAnswer, StatusMeansAnswer,
      CallsInOrder, InOrder, OneAnswer
<1>5. ASSUME NEW w \in Waiter, Resume(w) PROVE IInv'
  <2> DEFINE out == Outcome(w)
  <2> HIDE DEF out
  <2>1. /\ request[w] \in Request
        /\ out \in Answer \cup {TIMED_OUT}
        /\ out \in Answer => out = status[request[w]] /\ <<request[w], out>> \in answers
        /\ status[request[w]] = TIMED_OUT => out = TIMED_OUT
    BY <1>5, OutcomeIsFinal DEF Resume, out
  <2>2. /\ status' = [status EXCEPT ![request[w]] = out]
        /\ decision' = [decision EXCEPT ![w] = out]
        /\ phase' = [phase EXCEPT ![w] = "returned"]
        /\ UNCHANGED <<event, request, wake, answers>>
    BY <1>5 DEF Resume, out
  <2>3. TypeOK' /\ EventMeansAnswer' /\ OneAnswer'
    BY <2>1, <2>2 DEF IInv, TypeOK, EventMeansAnswer, OneAnswer
  <2>4. StatusMeansAnswer'
    BY <2>1, <2>2 DEF IInv, TypeOK, StatusMeansAnswer
  <2>5. CallsInOrder'
    <3> SUFFICES ASSUME NEW v \in Waiter PROVE InOrder(v)'
      BY DEF CallsInOrder
    <3>1. InOrder(v) /\ InOrder(w)
      BY DEF IInv, CallsInOrder
    <3>2. CASE v = w
      BY <1>5, <2>1, <2>2, <3>1, <3>2 DEF Resume, IInv, TypeOK, InOrder
    <3>3. CASE v # w
      BY <2>1, <2>2, <3>1, <3>3, GateAssumption DEF IInv, TypeOK, InOrder
    <3> QED
      BY <3>2, <3>3
  <2> QED
    BY <2>3, <2>4, <2>5 DEF IInv
<1>6. ASSUME NEW r \in Request, NEW a \in Answer, GiveAnswer(r, a) PROVE IInv'
  <2>1. status[r] = PENDING /\ ~event[r] /\ \A b \in Answer : <<r, b>> \notin answers
    BY <1>6 DEF GiveAnswer, Answerable, IInv, StatusMeansAnswer, EventMeansAnswer
  <2>2. TypeOK'
    BY <1>6 DEF GiveAnswer, Scheduled, IInv, TypeOK
  <2>3. EventMeansAnswer' /\ StatusMeansAnswer'
    BY <1>6, <2>1 DEF GiveAnswer, IInv, TypeOK, EventMeansAnswer, StatusMeansAnswer
  <2>4. OneAnswer'
    BY <1>6, <2>1 DEF GiveAnswer, IInv, TypeOK, OneAnswer
  <2>5. CallsInOrder'
    <3> SUFFICES ASSUME NEW w \in Waiter PROVE InOrder(w)'
      BY DEF CallsInOrder
    <3>1. wake'[w] = IF request[w] = r /\ phase[w] = "waiting" /\ wake[w] = "nothing"
                     THEN "event" ELSE wake[w]
      BY <1>6 DEF GiveAnswer, Scheduled
    <3> QED
      BY <1>6, <2>1, <3>1, GateAssumption
      DEF GiveAnswer, IInv, TypeOK, CallsInOrder, InOrder
  <2> QED
    BY <2>2, <2>3, <2>4, <2>5 DEF IInv
<1>7. CASE UNCHANGED vars
  BY <1>7 DEF vars, IInv, TypeOK, EventMeansAnswer, StatusMeansAnswer, CallsInOrder, InOrder,
              OneAnswer
<1> QED
  BY <1>1, <1>2, <1>3, <1>4, <1>5, <1>6, <1>7 DEF Next, Progress

\* So it holds of every execution.
LEMMA Inductive == Spec => []IInv
BY IInvInit, IInvStep, PTL DEF Spec

\* The gate's variables keep their types; in particular no call ever returns a
\* decision that is still PENDING.
THEOREM GateTypes == Spec => []TypeOK
<1>1. IInv => TypeOK
  BY DEF IInv
<1> QED
  BY <1>1, Inductive, PTL

\* Whatever calls, timers and answers interleave, approve and reject report success
\* at most once per request (lines 162-192).
THEOREM AtMostOneAnswer == Spec => []OneAnswer
<1>1. IInv => OneAnswer
  BY DEF IInv
<1> QED
  BY <1>1, Inductive, PTL

\* No call reports an approval or rejection that was not given (lines 144-160).
THEOREM NoInventedDecision == Spec => []DecisionsWereGiven
<1>1. IInv => DecisionsWereGiven
  BY DEF IInv, CallsInOrder, InOrder, OneAnswer, DecisionsWereGiven
<1> QED
  BY <1>1, Inductive, PTL

\* A timeout that one call has reported can be neither answered nor contradicted.
THEOREM TimeoutsAreFinal == Spec => TimeoutIsFinal
<1> DEFINE Final ==
      \A w \in Waiter : decision[w] = TIMED_OUT =>
          /\ \A a \in Answer :
                <<request[w], a>> \in answers' => <<request[w], a>> \in answers
          /\ \A v \in Waiter :
                request[v] = request[w] /\ decision'[v] # decision[v]
                    => decision'[v] = TIMED_OUT
<1>1. IInv /\ [Next]_vars => [Final]_vars
  <2> SUFFICES ASSUME IInv, Next, NEW w \in Waiter, decision[w] = TIMED_OUT
               PROVE  /\ \A a \in Answer :
                            <<request[w], a>> \in answers' => <<request[w], a>> \in answers
                      /\ \A v \in Waiter :
                            request[v] = request[w] /\ decision'[v] # decision[v]
                                => decision'[v] = TIMED_OUT
    OBVIOUS
  <2>1. status[request[w]] = TIMED_OUT
    BY DEF IInv, CallsInOrder, InOrder
  <2>2. ASSUME NEW r \in Request, NEW a \in Answer, GiveAnswer(r, a)
        PROVE  r # request[w] /\ answers' = answers \cup {<<r, a>>} /\ decision' = decision
    BY <2>1, <2>2 DEF GiveAnswer, Answerable
  <2>3. ASSUME NEW v \in Waiter, Resume(v)
        PROVE  /\ answers' = answers
               /\ decision' = [decision EXCEPT ![v] = Outcome(v)]
               /\ request[v] = request[w] => Outcome(v) = TIMED_OUT
    BY <2>1, <2>3, OutcomeIsFinal DEF Resume
  <2>4. CASE \E r \in Request, a \in Answer : GiveAnswer(r, a)
    BY <2>2, <2>4
  <2>5. CASE \E v \in Waiter : Resume(v)
    BY <2>3, <2>5 DEF IInv, TypeOK
  <2>6. CASE answers' = answers /\ decision' = decision
    BY <2>6
  <2> QED
    BY <2>4, <2>5, <2>6
    DEF Next, Progress, CreateRequest, Submit, Dispatched, TimerFires, waiterVars
<1> QED
  BY <1>1, Inductive, PTL DEF Spec, TimeoutIsFinal

============================================================================
