--------------------------- MODULE SandboxCommands ---------------------------
(***************************************************************************)
(* main.py and the engines its commands call: how each command launches,   *)
(* uses and deletes sandbox instances on the one Incus host, while another *)
(* invocation does the same.                                               *)
(*                                                                         *)
(* A command is a script of steps: those before its try, those inside and  *)
(* those of its finally.  What happens inside a guest is left out: the     *)
(* awaits between a launch and a deletion are one step, which may raise or *)
(* not.  IncusSandbox.execute never raises, and IncusSandbox.cleanup logs  *)
(* a failed deletion and goes on.  A launch that raises may have made the  *)
(* instance, or the host may still finish it later: the driver stops       *)
(* waiting after 120 s and a Ctrl-C abandons the incus client.  net-chaos  *)
(* holds traffic-control rules on an instance that is not its own; they    *)
(* are the resource of its script.                                         *)
(***************************************************************************)
EXTENDS Naturals, Sequences, FiniteSets

CONSTANTS
    CmdProc,        \* concurrent invocations of main.py
    CmdRounds       \* bound on the experiments one looping command makes

ASSUME CmdAssumption == CmdRounds \in Nat \ {0}

VARIABLES
    cmdOf,          \* the command each invocation runs
    cmdAt,          \* where it stands in its script
    cmdHost,        \* (existing instance, invocation that launched it)
    cmdLate,        \* launches abandoned by their client, still under way on the host
    cmdStuck,       \* history: those of cmdHost whose deletion failed or was skipped, or
                    \* whose launch ended after its client had gone
    cmdVictims      \* history: (invocation, running invocation whose instance it deleted)

cmdVars == <<cmdOf, cmdAt, cmdHost, cmdLate, cmdStuck, cmdVictims>>

----------------------------------------------------------------------------
(* Steps and scripts *)

Launch(i) == [op |-> "launch", on |-> i]
Delete(i) == [op |-> "delete", on |-> i]
Attach == [op |-> "attach", on |-> 1]   \* replaces what was attached
Detach == [op |-> "detach", on |-> 1]
Exec == [op |-> "exec", on |-> 0]       \* sandbox.execute: no exception
Work == [op |-> "work", on |-> 0]       \* may raise

\* Steps before a try, inside it and in its finally.
Try(before, body, after) == [before |-> before, body |-> body, after |-> after]

\* A command: its instances' names are the same in every invocation (fixed) or its own
\* (uuid); it makes one experiment or several, an exception ending them or not.
Script(fixed, loops, swallows, try) ==
    [fixed |-> fixed, loops |-> loops, swallows |-> swallows,
     before |-> try.before, body |-> try.body, after |-> try.after]

OneSandbox == Try(<<>>, <<Launch(1), Work>>, <<Delete(1)>>)

cmd_test_env == Script(TRUE, FALSE, TRUE, OneSandbox)

cmd_mcts_collect == Script(FALSE, FALSE, FALSE, OneSandbox)

FaultySwarm == Script(FALSE, FALSE, FALSE, Try(<<Launch(1)>>, <<Work>>, <<Delete(1)>>))
cmd_swarm == Script(FALSE, FALSE, FALSE, OneSandbox)

run_single_experiment == OneSandbox
cmd_chaos == Script(FALSE, TRUE, TRUE, run_single_experiment)

\* Called by a program that embeds the engine; the watchdog command itself only sleeps.
execute_shadow_validation == OneSandbox
watchdog_event == Script(FALSE, FALSE, FALSE, execute_shadow_validation)

\* Its exceptions become results, and the next scenario is tried.
synthesize == OneSandbox
cmd_synthesize_scenario == Script(TRUE, TRUE, TRUE, synthesize)

cmd_bench_distributed == Script(FALSE, TRUE, FALSE,
    Try(<<>>, <<Launch(1), Launch(2), Work>>, <<Delete(1), Delete(2)>>))

run_shadow_comparison ==
    Try(<<Launch(1), Launch(2)>>, <<Work>>, <<Delete(1), Delete(2)>>)
cmd_shadow_exec == Script(TRUE, FALSE, FALSE, run_shadow_comparison)

FaultyFuzzExperiment == OneSandbox
run_fuzz_experiment == Try(<<Launch(1)>>, <<Work>>, <<Delete(1)>>)
cmd_fuzz_cascading == Script(TRUE, FALSE, FALSE, run_fuzz_experiment)

\* Launches the instance it hunts in, and leaves it.
run_full_threat_hunt == <<Exec>>
cmd_threat_hunt == Script(TRUE, FALSE, FALSE, Try(<<Launch(1)>> \o run_full_threat_hunt, <<>>, <<>>))

\* The teardown is the last of three plain steps.
run_chaos_experiment == <<Attach, Exec, Detach>>
cmd_net_chaos == Script(TRUE, FALSE, FALSE, Try(run_chaos_experiment, <<>>, <<>>))

\* Reads an instance it does not own.
trace_remediation == <<Exec>>
cmd_trace_causal == Script(TRUE, FALSE, FALSE, Try(trace_remediation, <<>>, <<>>))

ScriptOf == [test_env |-> cmd_test_env, mcts_collect |-> cmd_mcts_collect,
             swarm |-> cmd_swarm, chaos |-> cmd_chaos, watchdog_event |-> watchdog_event,
             synthesize |-> cmd_synthesize_scenario,
             bench_distributed |-> cmd_bench_distributed, shadow_exec |-> cmd_shadow_exec,
             fuzz_cascading |-> cmd_fuzz_cascading, threat_hunt |-> cmd_threat_hunt,
             net_chaos |-> cmd_net_chaos, trace_causal |-> cmd_trace_causal]

Command == DOMAIN ScriptOf

----------------------------------------------------------------------------
(* Where an invocation stands *)

Region == {"before", "body", "after", "returned", "raised"}
At == [region : Region, done : Nat, round : 1 .. CmdRounds,
       pending : {"none", "error", "interrupt"}]
\* round 0: the name is the command's, not the invocation's.
InstanceName == [whose : Command \cup CmdProc, round : 0 .. CmdRounds, on : {1, 2}]

CmdTypeOK ==
    /\ cmdOf \in [CmdProc -> Command]
    /\ cmdAt \in [CmdProc -> At]
    /\ cmdHost \subseteq InstanceName \X CmdProc
    /\ cmdLate \subseteq InstanceName \X CmdProc
    /\ cmdStuck \subseteq cmdHost
    /\ cmdVictims \subseteq CmdProc \X CmdProc

CmdInit ==
    /\ cmdOf \in [CmdProc -> Command]
    /\ cmdAt = [p \in CmdProc |->
                   [region |-> "before", done |-> 0, round |-> 1, pending |-> "none"]]
    /\ cmdHost = {}
    /\ cmdLate = {}
    /\ cmdStuck = {}
    /\ cmdVictims = {}

ScriptFor(p) == ScriptOf[cmdOf[p]]
Running(p) == cmdAt[p].region \in {"before", "body", "after"}
StepsOf(p, region) ==
    IF region \in {"before", "body", "after"} THEN ScriptFor(p)[region] ELSE <<>>

AtStep(p, op) ==
    /\ Running(p)
    /\ cmdAt[p].done < Len(StepsOf(p, cmdAt[p].region))
    /\ StepsOf(p, cmdAt[p].region)[cmdAt[p].done + 1].op = op

RoundName(p, round, i) ==
    IF ScriptFor(p).fixed THEN [whose |-> cmdOf[p], round |-> 0, on |-> i]
    ELSE [whose |-> p, round |-> round, on |-> i]
NamesOf(p) == {RoundName(p, cmdAt[p].round, i) : i \in {1, 2}}
Exists(n) == \E p \in CmdProc : <<n, p>> \in cmdHost
Without(entries, n) == {e \in entries : e[1] # n}
EntriesOf(p) == {e \in cmdHost : e[1] \in NamesOf(p)}
StepName(p) ==
    RoundName(p, cmdAt[p].round, StepsOf(p, cmdAt[p].region)[cmdAt[p].done + 1].on)

Enter(p, region) == cmdAt' = [cmdAt EXCEPT ![p].region = region, ![p].done = 0]

\* The next step of the same region.
Advance(p) ==
    /\ cmdAt' = [cmdAt EXCEPT ![p].done = @ + 1]
    /\ UNCHANGED cmdOf

\* An exception: the finally if the try has begun, else out of the command.
Raise(p, kind) ==
    /\ cmdAt' = [cmdAt EXCEPT
           ![p].region = IF @ = "body" THEN "after" ELSE "raised",
           ![p].done = 0,
           ![p].pending = kind]
    /\ UNCHANGED cmdOf

----------------------------------------------------------------------------
(* The steps of an invocation *)

\* The end of a region; a loop goes on after an experiment, or after one whose
\* exception it swallows, until its time or its count is over.
CmdTurn(p) ==
    LET at == cmdAt[p]  s == ScriptFor(p)
        fine == at.pending = "none" \/ (at.pending = "error" /\ s.swallows)
    IN  /\ Running(p) /\ at.done = Len(StepsOf(p, at.region))
        /\ CASE at.region = "before" -> Enter(p, "body")
             [] at.region = "body" -> Enter(p, "after")
             [] OTHER ->
                  \/ /\ fine /\ s.loops /\ at.round < CmdRounds
                     /\ cmdAt' = [cmdAt EXCEPT ![p] =
                            [region |-> "before", done |-> 0, round |-> at.round + 1,
                             pending |-> "none"]]
                  \/ Enter(p, IF fine THEN "returned" ELSE "raised")
        /\ UNCHANGED <<cmdOf, cmdHost, cmdLate, cmdStuck, cmdVictims>>

\* incus launch, then wait_until_ready.
CmdLaunch(p) ==
    /\ AtStep(p, "launch")
    /\ LET n == StepName(p)
       IN  \/ /\ ~Exists(n)
              /\ cmdHost' = cmdHost \cup {<<n, p>>}
              /\ Advance(p)
              /\ UNCHANGED cmdLate
           \/ /\ Raise(p, "error")
              /\ \/ UNCHANGED <<cmdHost, cmdLate>>
                 \/ /\ ~Exists(n)
                    /\ cmdHost' = cmdHost \cup {<<n, p>>}
                    /\ UNCHANGED cmdLate
                 \/ /\ ~Exists(n)
                    /\ cmdLate' = cmdLate \cup {<<n, p>>}
                    /\ UNCHANGED cmdHost
    /\ UNCHANGED <<cmdStuck, cmdVictims>>

\* The host ends an abandoned launch, if the name is still free.
CmdLaunchEnds(late) ==
    /\ late \in cmdLate
    /\ cmdLate' = cmdLate \ {late}
    /\ \/ UNCHANGED <<cmdHost, cmdStuck>>
       \/ /\ ~Exists(late[1])
          /\ cmdHost' = cmdHost \cup {late}
          /\ cmdStuck' = cmdStuck \cup {late}
    /\ UNCHANGED <<cmdOf, cmdAt, cmdVictims>>

CmdWork(p) ==
    /\ \/ (AtStep(p, "work") \/ AtStep(p, "exec")) /\ Advance(p)
       \/ AtStep(p, "work") /\ Raise(p, "error")
    /\ UNCHANGED <<cmdHost, cmdLate, cmdStuck, cmdVictims>>

\* tc qdisc del; tc qdisc add.  Both may fail without an exception.
CmdAttach(p) ==
    /\ AtStep(p, "attach")
    /\ cmdHost' \in {cmdHost, Without(cmdHost, StepName(p)), Without(cmdHost, StepName(p)) \cup {<<StepName(p), p>>}}
    /\ cmdStuck' = cmdStuck \cap cmdHost'
    /\ Advance(p)
    /\ UNCHANGED <<cmdLate, cmdVictims>>

\* incus delete --force, or tc qdisc del: whoever launched it, and whatever the
\* outcome the caller goes on.
CmdDelete(p) ==
    /\ AtStep(p, "delete") \/ AtStep(p, "detach")
    /\ LET n == StepName(p)
       IN  \/ /\ cmdHost' = Without(cmdHost, n)
              /\ cmdStuck' = Without(cmdStuck, n)
              /\ cmdVictims' = cmdVictims \cup
                     {<<p, q>> : q \in {r \in CmdProc \ {p} : <<n, r>> \in cmdHost /\ Running(r)}}
           \/ /\ Exists(n)
              /\ cmdStuck' = cmdStuck \cup {e \in cmdHost : e[1] = n}
              /\ UNCHANGED <<cmdHost, cmdVictims>>
    /\ Advance(p)
    /\ UNCHANGED cmdLate

\* Ctrl-C, once: the task is cancelled at the await it is in.  No except Exception
\* catches that; the finally still runs.
CmdInterrupt(p) ==
    /\ Running(p) /\ cmdAt[p].pending # "interrupt"
    /\ cmdAt[p].done < Len(StepsOf(p, cmdAt[p].region))
    /\ Raise(p, "interrupt")
    /\ IF AtStep(p, "launch") /\ ~Exists(StepName(p))
       THEN cmdLate' \in {cmdLate, cmdLate \cup {<<StepName(p), p>>}}
       ELSE UNCHANGED cmdLate
    /\ cmdStuck' = IF cmdAt[p].region = "after"
                   THEN cmdStuck \cup EntriesOf(p) ELSE cmdStuck
    /\ UNCHANGED <<cmdHost, cmdVictims>>

CmdStep(p) ==
    \/ CmdTurn(p)
    \/ CmdLaunch(p)
    \/ CmdWork(p)
    \/ CmdAttach(p)
    \/ CmdDelete(p)

CmdNext ==
    \/ \E p \in CmdProc : CmdStep(p) \/ CmdInterrupt(p)
    \/ \E late \in cmdLate : CmdLaunchEnds(late)

CmdSpec == CmdInit /\ [][CmdNext]_cmdVars

----------------------------------------------------------------------------
(* Correctness *)

\* The commands whose instances' names are unique; they are to clean up after themselves.
OwnNames == {"mcts_collect", "swarm", "chaos", "watchdog_event", "bench_distributed"}

\* A command with names of its own, whatever raises in it and however often it loops, leaves
\* an instance behind only if the deletion failed or a Ctrl-C skipped it, or if the host
\* finished a launch nobody waited for (incus_sandbox.py:94-106, 343-355; the finally at
\* main.py:883, 1073, 1349, chaos_daemon.py:121 and host_watchdog.py:168).
CmdNoLeak ==
    \A p \in CmdProc : \A n \in InstanceName :
        <<n, p>> \in cmdHost /\ cmdOf[p] \in OwnNames =>
            <<n, p>> \in cmdStuck \/ (Running(p) /\ n \in NamesOf(p))

\* Commands whose finally deletes a name every invocation uses although the launch, inside
\* the try, may have been refused because the name was taken; and the traffic-control
\* rules, which the next invocation replaces.
SharedNames == {"test_env", "synthesize", "net_chaos"}

\* Cleaning up never takes the instance of a command that still runs, except between two
\* runs of test-env, of synthesize-scenario or of net-chaos: a launch that is refused
\* before the try leaves the other's instance alone (shadow_evaluator.py:261-276,
\* cascading_fuzzer.py:118-167), one inside the try does not (main.py:652-686).
CmdNoTheft ==
    \A v \in cmdVictims :
        cmdOf[v[1]] = cmdOf[v[2]] /\ cmdOf[v[1]] \in SharedNames

=============================================================================
