---------------------------- MODULE PolicyDialogue ----------------------------
(***************************************************************************)
(* What an episode and the policy say to one another, and what the         *)
(* datasets make of it: PolicyClient.get_next_action (engine/client.py)    *)
(* with its retries and schema repair, the conversation that               *)
(* run_single_episode keeps (engine/orchestrator.py), and the exporters of *)
(* trainer/trajectory_buffer.py.  The pool around the episodes is module   *)
(* EpisodePool.                                                            *)
(*                                                                         *)
(* A completion is the number of the answer it is in this episode.  A      *)
(* message is what it is and the completion it belongs to: the system      *)
(* prompt, an answer, the observation after an answer (0 for the first),   *)
(* or the complaint about one that could not be parsed.                    *)
(***************************************************************************)
EXTENDS Naturals, FiniteSets, SequencesExt

CONSTANTS
    DlgScenario,
    DlgRetries,     \* values of max_retries
    DlgMaxSteps,    \* max_steps of every scenario
    DlgEpisodes     \* bound on the episodes of a buffer

ASSUME DlgAssumption ==
    DlgRetries \subseteq Nat /\ DlgMaxSteps \in Nat \ {0} /\ DlgEpisodes \in Nat

VARIABLES
    dlgMock,        \* mock_mode, or the backend "mock"
    dlgRetries,     \* retries
    dlgAt,          \* where the episode is
    dlgOf,          \* its scenario
    dlgMessages,    \* messages
    dlgWorking,     \* working_messages
    dlgAttempt,     \* attempt
    dlgMade,        \* completions received in this episode
    dlgSteps,       \* steps
    dlgSuccess,     \* success
    dlgShown,       \* history: the messages of the last call of get_next_action
    dlgBuffer       \* _trajectories

dlgConfig == <<dlgMock, dlgRetries>>
dlgVars == <<dlgConfig, dlgAt, dlgOf, dlgMessages, dlgWorking, dlgAttempt, dlgMade, dlgSteps,
             dlgSuccess, dlgShown, dlgBuffer>>

\* A mock answer needs no attempt.
DlgCompletion == 0 .. DlgMaxSteps * (IF dlgMock THEN 1 ELSE dlgRetries)
DlgMessage ==
    [is : {"prompt", "answer", "mock", "observation", "complaint"}, of : DlgCompletion]
\* A step without an action (0) is the record of an LLMClientError.
DlgStep == [action : DlgCompletion, done : BOOLEAN, rewarded : BOOLEAN]
DlgTrajectory ==
    [scenario : DlgScenario, steps : Seq(DlgStep), success : BOOLEAN, shown : Seq(DlgMessage)]

DlgTypeOK ==
    /\ dlgMock \in BOOLEAN /\ dlgRetries \in DlgRetries
    /\ dlgAt \in {"idle", "ask", "request", "act", "verify", "record"}
    /\ dlgOf \in DlgScenario
    /\ dlgMessages \in Seq(DlgMessage)
    /\ dlgWorking \in Seq(DlgMessage) /\ dlgShown \in Seq(DlgMessage)
    /\ dlgAttempt \in 0 .. dlgRetries
    /\ dlgMade \in DlgCompletion
    /\ dlgSteps \in Seq(DlgStep)
    /\ dlgSuccess \in BOOLEAN
    /\ dlgBuffer \in Seq(DlgTrajectory)

DlgSays(is, of) == [is |-> is, of |-> of]

DlgInit ==
    /\ dlgMock \in BOOLEAN /\ dlgRetries \in DlgRetries
    /\ dlgAt = "idle"
    /\ dlgOf \in DlgScenario
    /\ dlgMessages = <<>> /\ dlgWorking = <<>> /\ dlgShown = <<>>
    /\ dlgAttempt = 0 /\ dlgMade = 0
    /\ dlgSteps = <<>> /\ dlgSuccess = FALSE
    /\ dlgBuffer = <<>>

----------------------------------------------------------------------------
(* get_next_action *)

\* The sandbox stands, the fault is injected; the conversation starts.
DlgBegin ==
    /\ dlgAt = "idle" /\ Len(dlgBuffer) < DlgEpisodes
    /\ dlgOf' \in DlgScenario
    /\ dlgMessages' = <<DlgSays("prompt", 0), DlgSays("observation", 0)>>
    /\ dlgSteps' = <<>> /\ dlgSuccess' = FALSE /\ dlgMade' = 0
    /\ dlgWorking' = <<>> /\ dlgShown' = <<>> /\ dlgAttempt' = 0
    /\ dlgAt' = "ask"
    /\ UNCHANGED <<dlgConfig, dlgBuffer>>

\* LLMClientError: the error is the last step.
DlgRecordError ==
    /\ dlgSteps' = Append(dlgSteps, [action |-> 0, done |-> TRUE, rewarded |-> FALSE])
    /\ dlgAt' = "verify"

DlgAsk ==
    /\ dlgAt = "ask"
    /\ dlgShown' = dlgMessages
    /\ \/ /\ dlgMock
          /\ dlgMade' = dlgMade + 1 /\ dlgAt' = "act"
          /\ UNCHANGED <<dlgWorking, dlgAttempt, dlgSteps>>
       \/ /\ ~dlgMock /\ dlgRetries > 0
          /\ dlgWorking' = dlgMessages /\ dlgAttempt' = 1 /\ dlgAt' = "request"
          /\ UNCHANGED <<dlgMade, dlgSteps>>
       \/ /\ ~dlgMock /\ dlgRetries = 0
          /\ DlgRecordError
          /\ UNCHANGED <<dlgWorking, dlgAttempt, dlgMade>>
    /\ UNCHANGED <<dlgConfig, dlgOf, dlgMessages, dlgSuccess, dlgBuffer>>

\* A completion that parses, from either endpoint.
DlgAnswer ==
    /\ dlgAt = "request"
    /\ dlgMade' = dlgMade + 1
    /\ dlgAt' = "act"
    /\ UNCHANGED <<dlgConfig, dlgOf, dlgMessages, dlgWorking, dlgAttempt, dlgSteps,
                   dlgSuccess, dlgShown, dlgBuffer>>

\* One that does not: the policy is told so, until the last attempt.
DlgComplaint == <<DlgSays("answer", dlgMade + 1), DlgSays("complaint", dlgMade + 1)>>

FaultyMalformed ==
    /\ dlgAt = "request"
    /\ dlgMade' = dlgMade + 1
    /\ IF dlgAttempt = dlgRetries
       THEN DlgRecordError /\ UNCHANGED <<dlgWorking, dlgAttempt, dlgMessages>>
       ELSE /\ dlgWorking' = dlgWorking \o DlgComplaint
            /\ dlgMessages' = dlgWorking'
            /\ dlgAttempt' = dlgAttempt + 1
            /\ UNCHANGED <<dlgSteps, dlgAt>>
    /\ UNCHANGED <<dlgConfig, dlgOf, dlgSuccess, dlgShown, dlgBuffer>>
DlgMalformed ==
    /\ dlgAt = "request"
    /\ dlgMade' = dlgMade + 1
    /\ IF dlgAttempt = dlgRetries
       THEN DlgRecordError /\ UNCHANGED <<dlgWorking, dlgAttempt>>
       ELSE /\ dlgWorking' = dlgWorking \o DlgComplaint
            /\ dlgAttempt' = dlgAttempt + 1
            /\ UNCHANGED <<dlgSteps, dlgAt>>
    /\ UNCHANGED <<dlgConfig, dlgOf, dlgMessages, dlgSuccess, dlgShown, dlgBuffer>>

\* The endpoint, and with Ollama its native one, fail: the same messages once more.
DlgConnectionError ==
    /\ dlgAt = "request"
    /\ IF dlgAttempt = dlgRetries
       THEN DlgRecordError /\ UNCHANGED dlgAttempt
       ELSE dlgAttempt' = dlgAttempt + 1 /\ UNCHANGED <<dlgSteps, dlgAt>>
    /\ UNCHANGED <<dlgConfig, dlgOf, dlgMessages, dlgWorking, dlgMade, dlgSuccess, dlgShown,
                   dlgBuffer>>

----------------------------------------------------------------------------
(* run_single_episode *)

DlgLastStep(verified, isDone) == verified \/ isDone \/ Len(dlgSteps) + 1 = DlgMaxSteps

\* The command, the verification, the record and the feedback.
DlgAct ==
    /\ dlgAt = "act"
    /\ \E verified, isDone \in BOOLEAN :
           LET done == DlgLastStep(verified, isDone)
           IN  /\ dlgSteps' = Append(dlgSteps,
                                [action |-> dlgMade, done |-> done, rewarded |-> verified])
               /\ dlgSuccess' = (dlgSuccess \/ verified)
               /\ IF done
                  THEN /\ dlgAt' = IF dlgSuccess' THEN "record" ELSE "verify"
                       /\ UNCHANGED dlgMessages
                  ELSE /\ dlgAt' = "ask"
                       /\ dlgMessages' = dlgMessages \o
                              <<DlgSays(IF dlgMock THEN "mock" ELSE "answer", dlgMade),
                                DlgSays("observation", dlgMade)>>
    /\ UNCHANGED <<dlgConfig, dlgOf, dlgWorking, dlgAttempt, dlgMade, dlgShown, dlgBuffer>>

\* The final pass.
DlgFinalVerify ==
    /\ dlgAt = "verify"
    /\ dlgSuccess' \in BOOLEAN
    /\ dlgAt' = "record"
    /\ UNCHANGED <<dlgConfig, dlgOf, dlgMessages, dlgWorking, dlgAttempt, dlgMade, dlgSteps,
                   dlgShown, dlgBuffer>>

\* add_trajectory.
DlgRecord ==
    /\ dlgAt = "record"
    /\ dlgBuffer' = Append(dlgBuffer,
                           [scenario |-> dlgOf, steps |-> dlgSteps, success |-> dlgSuccess,
                            shown |-> dlgShown])
    /\ dlgAt' = "idle"
    /\ UNCHANGED <<dlgConfig, dlgOf, dlgMessages, dlgWorking, dlgAttempt, dlgMade, dlgSteps,
                   dlgSuccess, dlgShown>>

\* The sandbox or a verifier raises: nothing is recorded.
DlgAbort ==
    /\ dlgAt \in {"act", "verify"}
    /\ dlgAt' = "idle"
    /\ UNCHANGED <<dlgConfig, dlgOf, dlgMessages, dlgWorking, dlgAttempt, dlgMade, dlgSteps,
                   dlgSuccess, dlgShown, dlgBuffer>>

DlgNext ==
    \/ DlgBegin
    \/ DlgAsk
    \/ DlgAnswer
    \/ DlgMalformed
    \/ DlgConnectionError
    \/ DlgAct
    \/ DlgFinalVerify
    \/ DlgRecord
    \/ DlgAbort

DlgSpec == DlgInit /\ [][DlgNext]_dlgVars

----------------------------------------------------------------------------
(* The exporters: what is written of the trajectories, by their positions in the buffer *)

get_successful == {k \in DOMAIN dlgBuffer : dlgBuffer[k].success}

\* The conversation of one trajectory: who speaks, and of which action.
DlgTurn(from, of) == [from |-> from, of |-> of]
DlgTurns(step) ==
    IF step.done THEN <<DlgTurn("gpt", step.action)>>
    ELSE <<DlgTurn("gpt", step.action), DlgTurn("human", step.action)>>
DlgConversation(t) ==
    <<DlgTurn("human", 0)>>
        \o FlattenSeq([k \in DOMAIN t.steps |-> DlgTurns(t.steps[k])])

export_unsloth_sharegpt(successful_only) ==
    LET target == IF successful_only THEN get_successful ELSE DOMAIN dlgBuffer
    IN  [k \in target |-> DlgConversation(dlgBuffer[k])]

\* successful_by_scenario and failed_by_scenario.
DlgByScenario(flag) ==
    [s \in DlgScenario |->
        {k \in DOMAIN dlgBuffer : dlgBuffer[k].scenario = s /\ dlgBuffer[k].success = flag}]

\* The pairs written; 0 is the synthetic "reboot blindly".
DlgRejectedFor(s) == DlgByScenario(FALSE)[s]

export_trl_dpo ==
    UNION {
        LET rejected == DlgRejectedFor(s)
        IN  DlgByScenario(TRUE)[s] \X (IF rejected = {} THEN {0} ELSE rejected)
        : s \in DlgScenario}

export_trl_grpo ==
    [k \in {l \in DOMAIN dlgBuffer : dlgBuffer[l].steps # <<>>} |->
        LET steps == dlgBuffer[k].steps
        IN  [actions |-> [n \in DOMAIN steps |-> steps[n].action],
             reward |-> \E n \in DOMAIN steps : steps[n].rewarded,
             success |-> dlgBuffer[k].success]]

----------------------------------------------------------------------------
(* Correctness *)

\* The steps taken so far, as the policy should have heard of them.
Dialogue(taken) ==
    <<DlgSays("prompt", 0), DlgSays("observation", 0)>>
        \o FlattenSeq([k \in DOMAIN taken |->
               <<DlgSays(IF dlgMock THEN "mock" ELSE "answer", taken[k].action),
                 DlgSays("observation", taken[k].action)>>])

\* Every request shows the policy each step of this episode once, with what came of it, and
\* after that only answers to this request that could not be parsed, each with its
\* complaint: no attempt of an earlier request leaks into the dialogue, and none is lost
\* by a connection error between two repairs (client.py:112-170, orchestrator.py:222-236).
RequestsAreDialogues ==
    dlgAt = "request" =>
        /\ IsPrefix(Dialogue(dlgSteps), dlgWorking)
        /\ LET repairs == SubSeq(dlgWorking, Len(Dialogue(dlgSteps)) + 1, Len(dlgWorking))
               rejected == {n \in 1 .. dlgMade :
                               \A k \in DOMAIN dlgSteps : dlgSteps[k].action < n}
           IN  /\ Len(repairs) = 2 * Cardinality(rejected)
               /\ Cardinality(rejected) < dlgAttempt
               /\ \A n \in rejected :
                      \E k \in 1 .. Len(repairs) - 1 :
                          SubSeq(repairs, k, k + 1)
                              = <<DlgSays("answer", n), DlgSays("complaint", n)>>

\* What the policy learns from is what happened: the conversation exported for an episode
\* is the one the policy was shown, without the repairs (and, in mock mode, with the action
\* where the policy was shown a placeholder), and ends with the action that ended it; only
\* there can an LLM error stand for an action.  The GRPO sample has the same actions, and
\* the reward of a repair only if there was one (orchestrator.py:130-236,
\* trajectory_buffer.py:122-153, 249-284).
ConversationsHappened ==
    \A k \in DOMAIN dlgBuffer :
        LET t == dlgBuffer[k]
            c == export_unsloth_sharegpt(FALSE)[k]
            turns == Tail(t.shown)
            sample == export_trl_grpo[k]
        IN  /\ c = [n \in DOMAIN turns |->
                       DlgTurn(IF turns[n].is = "observation" THEN "human" ELSE "gpt",
                               turns[n].of)]
                   \o <<DlgTurn("gpt", Last(t.steps).action)>>
            /\ \A n \in 1 .. Len(t.steps) - 1 : t.steps[n].action # 0
            /\ t.success <=> k \in DOMAIN export_unsloth_sharegpt(TRUE)
            /\ Len(c) = 2 * Len(sample.actions)
            /\ \A n \in DOMAIN sample.actions : c[2 * n] = DlgTurn("gpt", sample.actions[n])
            /\ sample.reward => sample.success

\* A preference pair is between two episodes of one scenario, one repaired and one not;
\* every repaired episode is in a pair, and the synthetic answer is only used when no
\* episode of the scenario failed (trajectory_buffer.py:166-234).
PreferencesAreComparable ==
    LET pairs == export_trl_dpo
    IN  /\ \A p \in pairs :
               /\ dlgBuffer[p[1]].success
               /\ IF p[2] # 0
                  THEN /\ ~dlgBuffer[p[2]].success
                       /\ dlgBuffer[p[1]].scenario = dlgBuffer[p[2]].scenario
                  ELSE \A k \in DOMAIN dlgBuffer :
                           dlgBuffer[k].scenario = dlgBuffer[p[1]].scenario
                               => dlgBuffer[k].success
        /\ \A k \in DOMAIN dlgBuffer : dlgBuffer[k].success => \E p \in pairs : p[1] = k

\* An episode's dialogue, what is recorded of it and what is exported agree, through
\* retries, repairs, connection errors and every way an episode can end.
DialogueIsSound == RequestsAreDialogues /\ ConversationsHappened /\ PreferencesAreComparable

=============================================================================
