--------------------------- MODULE SandboxProofs ---------------------------
(***************************************************************************)
(* What holds of the sandboxes for every value of the constants: the       *)
(* commands that launch and delete them, the drivers' snapshots, a live    *)
(* patch of a process in one, the MCP server's tools on them.  Each part is*)
(* one component's inductive invariant, what it says at each step of the   *)
(* code, that every action keeps it, and the theorem it gives.             *)
(***************************************************************************)
EXTENDS SandboxCommands, SandboxDrivers, Hotpatch, McpServer, TLAPS

----------------------------------------------------------------------------
(* Instances that commands launch and delete *)

\* The commands with fixed names that launch before their try.
HoldNames == {"shadow_exec", "fuzz_cascading"}

\* The commands that have a script.
LEMMA CommandNames ==
    Command = {"test_env", "mcts_collect", "swarm", "chaos", "watchdog_event", "synthesize",
               "bench_distributed", "shadow_exec", "fuzz_cascading", "threat_hunt",
               "net_chaos", "trace_causal"}
  BY DEF Command, ScriptOf

\* The script of each of them.
LEMMA ScriptIs ==
    /\ ScriptOf["test_env"] = cmd_test_env
    /\ ScriptOf["mcts_collect"] = cmd_mcts_collect
    /\ ScriptOf["swarm"] = cmd_swarm
    /\ ScriptOf["chaos"] = cmd_chaos
    /\ ScriptOf["watchdog_event"] = watchdog_event
    /\ ScriptOf["synthesize"] = cmd_synthesize_scenario
    /\ ScriptOf["bench_distributed"] = cmd_bench_distributed
    /\ ScriptOf["shadow_exec"] = cmd_shadow_exec
    /\ ScriptOf["fuzz_cascading"] = cmd_fuzz_cascading
    /\ ScriptOf["threat_hunt"] = cmd_threat_hunt
    /\ ScriptOf["net_chaos"] = cmd_net_chaos
    /\ ScriptOf["trace_causal"] = cmd_trace_causal
  BY DEF ScriptOf

\* A command with names of its own launches its instances in its try and deletes as many in
\* its finally.
LEMMA OwnScripts ==
    ASSUME NEW c \in OwnNames
    PROVE  /\ ~ScriptOf[c].fixed
           /\ Len(ScriptOf[c].before) = 0
           /\ \E k \in {1, 2} :
                  /\ Len(ScriptOf[c].body) = k + 1 /\ Len(ScriptOf[c].after) = k
                  /\ \A i \in 1 .. k : /\ ScriptOf[c].body[i] = Launch(i)
                                       /\ ScriptOf[c].after[i] = Delete(i)
                  /\ ScriptOf[c].body[k + 1] = Work
<1> USE DEF Script, Try, OneSandbox, cmd_mcts_collect, cmd_swarm, cmd_chaos,
            run_single_experiment, watchdog_event, execute_shadow_validation
<1>1. CASE c # "bench_distributed"
  <2>1. ScriptOf[c].fixed = FALSE /\ ScriptOf[c].before = <<>>
        /\ ScriptOf[c].body = <<Launch(1), Work>> /\ ScriptOf[c].after = <<Delete(1)>>
    BY <1>1, ScriptIs DEF OwnNames
  <2> QED
    BY <2>1
<1>2. CASE c = "bench_distributed"
  <2>1. ScriptOf[c].fixed = FALSE /\ ScriptOf[c].before = <<>>
        /\ ScriptOf[c].body = <<Launch(1), Launch(2), Work>>
        /\ ScriptOf[c].after = <<Delete(1), Delete(2)>>
    BY <1>2, ScriptIs DEF cmd_bench_distributed
  <2> QED
    BY <2>1
<1> QED
  BY <1>1, <1>2

\* A command with fixed names that launches before its try does the same with them.
LEMMA HoldScripts ==
    ASSUME NEW c \in HoldNames
    PROVE  /\ ScriptOf[c].fixed
           /\ Len(ScriptOf[c].body) = 1 /\ ScriptOf[c].body[1] = Work
           /\ \E k \in {1, 2} :
                  /\ Len(ScriptOf[c].before) = k /\ Len(ScriptOf[c].after) = k
                  /\ \A i \in 1 .. k : /\ ScriptOf[c].before[i] = Launch(i)
                                       /\ ScriptOf[c].after[i] = Delete(i)
<1>1. CASE c = "shadow_exec"
  <2>1. /\ ScriptOf[c].fixed = TRUE /\ ScriptOf[c].body = <<Work>>
        /\ ScriptOf[c].before = <<Launch(1), Launch(2)>>
        /\ ScriptOf[c].after = <<Delete(1), Delete(2)>>
    BY <1>1, ScriptIs DEF cmd_shadow_exec, Script, Try, run_shadow_comparison
  <2> QED
    BY <2>1
<1>2. CASE c = "fuzz_cascading"
  <2>1. /\ ScriptOf[c].fixed = TRUE /\ ScriptOf[c].body = <<Work>>
        /\ ScriptOf[c].before = <<Launch(1)>>
        /\ ScriptOf[c].after = <<Delete(1)>>
    BY <1>2, ScriptIs DEF cmd_fuzz_cascading, Script, Try, run_fuzz_experiment
  <2> QED
    BY <2>1
<1> QED
  BY <1>1, <1>2 DEF HoldNames

\* Every step that names an instance names its first or its second; only net-chaos attaches
\* and detaches, and threat-hunt and trace-causal delete nothing.
StepFits(c, step) ==
    /\ step.op \in {"launch", "attach", "delete", "detach"} => step.on \in {1, 2}
    /\ step.op \in {"attach", "detach"} => c = "net_chaos"
    /\ step.op = "delete" => c \notin {"threat_hunt", "trace_causal"}
ScriptFits(c, steps) ==
    Len(steps) \in Nat /\ \A i \in 1 .. Len(steps) : StepFits(c, steps[i])

\* Every step of every script fits its command.
LEMMA StepsFit ==
    ASSUME NEW c \in Command
    PROVE  /\ \A region \in {"before", "body", "after"} : ScriptFits(c, ScriptOf[c][region])
           /\ ScriptOf[c].fixed \/ c \in OwnNames
           /\ ScriptOf[c].fixed \in BOOLEAN
<1>0. /\ StepFits(c, Work) /\ StepFits(c, Exec)
      /\ c = "net_chaos" => StepFits(c, Attach) /\ StepFits(c, Detach)
      /\ \A i \in {1, 2} : StepFits(c, Launch(i))
      /\ c \notin {"threat_hunt", "trace_causal"} => \A i \in {1, 2} : StepFits(c, Delete(i))
  BY DEF StepFits, Launch, Delete, Attach, Detach, Exec, Work
<1> USE DEF ScriptFits
<1>1. CASE c \in {"test_env", "synthesize"}
  <2>1. /\ ScriptOf[c].fixed = TRUE /\ ScriptOf[c].before = <<>>
        /\ ScriptOf[c].body = <<Launch(1), Work>> /\ ScriptOf[c].after = <<Delete(1)>>
    BY <1>1, ScriptIs
    DEF Script, Try, OneSandbox, cmd_test_env, cmd_synthesize_scenario, synthesize
  <2>2. /\ ScriptFits(c, ScriptOf[c].before) /\ ScriptFits(c, ScriptOf[c].body)
        /\ ScriptFits(c, ScriptOf[c].after)
    BY <1>0, <1>1, <2>1
  <2> QED
    BY <2>1, <2>2
<1>2. CASE c = "net_chaos"
  <2>1. /\ ScriptOf[c].fixed = TRUE /\ ScriptOf[c].before = <<Attach, Exec, Detach>>
        /\ ScriptOf[c].body = <<>> /\ ScriptOf[c].after = <<>>
    BY <1>2, ScriptIs DEF Script, Try, cmd_net_chaos, run_chaos_experiment
  <2>2. /\ ScriptFits(c, ScriptOf[c].before) /\ ScriptFits(c, ScriptOf[c].body)
        /\ ScriptFits(c, ScriptOf[c].after)
    BY <1>0, <1>2, <2>1
  <2> QED
    BY <2>1, <2>2
<1>3. CASE c \in {"threat_hunt", "trace_causal"}
  <2>1. /\ ScriptOf[c].fixed = TRUE /\ ScriptOf[c].body = <<>> /\ ScriptOf[c].after = <<>>
        /\ ScriptOf[c].before \in {<<Launch(1)>> \o <<Exec>>, <<Exec>>}
    BY <1>3, ScriptIs
    DEF Script, Try, cmd_threat_hunt, run_full_threat_hunt, cmd_trace_causal, trace_remediation
  <2>2. ScriptFits(c, <<Launch(1)>> \o <<Exec>>)
    <3> DEFINE steps == <<Launch(1)>> \o <<Exec>>
    <3>1. Len(steps) = 2 /\ steps[1] = Launch(1) /\ steps[2] = Exec
      OBVIOUS
    <3> HIDE DEF steps
    <3>2. ScriptFits(c, steps)
      BY <1>0, <1>3, <3>1
    <3> QED
      BY <3>2 DEF steps
  <2>3. /\ ScriptFits(c, ScriptOf[c].before) /\ ScriptFits(c, ScriptOf[c].body)
        /\ ScriptFits(c, ScriptOf[c].after)
    BY <1>0, <1>3, <2>1, <2>2
  <2> QED
    BY <2>1, <2>3
<1>4. CASE c \in HoldNames
  <2>1. PICK k \in {1, 2} :
             /\ Len(ScriptOf[c].before) = k /\ Len(ScriptOf[c].after) = k
             /\ \A i \in 1 .. k : /\ ScriptOf[c].before[i] = Launch(i)
                                  /\ ScriptOf[c].after[i] = Delete(i)
    BY <1>4, HoldScripts
  <2>2. /\ ScriptOf[c].fixed = TRUE
        /\ Len(ScriptOf[c].body) = 1 /\ ScriptOf[c].body[1] = Work
    BY <1>4, ScriptIs, HoldScripts
    DEF HoldNames, cmd_shadow_exec, cmd_fuzz_cascading, Script
  <2>3. ScriptFits(c, ScriptOf[c].before) /\ ScriptFits(c, ScriptOf[c].after)
    BY <1>0, <1>4, <2>1 DEF HoldNames
  <2>4. ScriptFits(c, ScriptOf[c].body)
    BY <1>0, <1>4, <2>2 DEF HoldNames
  <2> QED
    BY <2>2, <2>3, <2>4
<1>5. CASE c \in OwnNames
  <2>1. PICK k \in {1, 2} :
                  /\ Len(ScriptOf[c].body) = k + 1 /\ Len(ScriptOf[c].after) = k
                  /\ \A i \in 1 .. k : /\ ScriptOf[c].body[i] = Launch(i)
                                       /\ ScriptOf[c].after[i] = Delete(i)
                  /\ ScriptOf[c].body[k + 1] = Work
    BY <1>5, OwnScripts
  <2>2. ScriptOf[c].fixed = FALSE /\ Len(ScriptOf[c].before) = 0
    BY <1>5, OwnScripts, ScriptIs
    DEF OwnNames, cmd_mcts_collect, cmd_swarm, cmd_chaos, watchdog_event,
        cmd_bench_distributed, Script
  <2>3. ScriptFits(c, ScriptOf[c].before)
    BY <2>2
  <2>4. ScriptFits(c, ScriptOf[c].body)
    <3>1. \A i \in 1 .. k + 1 : i = k + 1 \/ (i \in 1 .. k /\ i \in {1, 2})
      BY <2>1
    <3> QED
      BY <1>0, <1>5, <2>1, <3>1 DEF OwnNames
  <2>5. ScriptFits(c, ScriptOf[c].after)
    BY <1>0, <1>5, <2>1 DEF OwnNames
  <2> QED
    BY <1>5, <2>2, <2>3, <2>4, <2>5
<1> QED
  BY <1>1, <1>2, <1>3, <1>4, <1>5, CommandNames DEF HoldNames, OwnNames

----------------------------------------------------------------------------
(* Names and entries *)

Rounds == 1 .. CmdRounds
Entry(p, r, i) == <<RoundName(p, r, i), p>>
Owned(p) == Len(ScriptFor(p).after)
NextStep(p) == StepsOf(p, cmdAt[p].region)[cmdAt[p].done + 1]

CmdTyped ==
    /\ cmdOf \in [CmdProc -> Command]
    /\ cmdAt \in [CmdProc -> At]

\* Two launches get the same name only as the same instance of the same command, in the same
\* round of one invocation unless the command's names are fixed.
LEMMA NamesDiffer ==
    ASSUME NEW p \in CmdProc, NEW q \in CmdProc, NEW r \in Rounds, NEW s \in Rounds,
           NEW i \in {1, 2}, NEW j \in {1, 2}, RoundName(p, r, i) = RoundName(q, s, j)
    PROVE  /\ i = j
           /\ \/ p = q /\ (r = s \/ ScriptFor(p).fixed)
              \/ ScriptFor(p).fixed /\ ScriptFor(q).fixed /\ cmdOf[p] = cmdOf[q]
  BY CmdAssumption DEF RoundName, Rounds

\* A fixed name is the same in every round.
LEMMA FixedNames ==
    ASSUME NEW p \in CmdProc, ScriptFor(p).fixed,
           NEW r \in Rounds, NEW s \in Rounds, NEW i \in {1, 2}
    PROVE  RoundName(p, r, i) = RoundName(p, s, i)
  BY DEF RoundName

\* An invocation about to take a step is inside a region of its script, and the step fits it.
LEMMA NextStepFits ==
    ASSUME CmdTyped, NEW p \in CmdProc, NEW op, AtStep(p, op)
    PROVE  /\ NextStep(p).op = op
           /\ StepFits(cmdOf[p], NextStep(p))
           /\ cmdAt[p].region \in {"before", "body", "after"}
           /\ cmdAt[p].done + 1 \in 1 .. Len(ScriptFor(p)[cmdAt[p].region])
           /\ NextStep(p) = ScriptFor(p)[cmdAt[p].region][cmdAt[p].done + 1]
           /\ StepName(p) = RoundName(p, cmdAt[p].round, NextStep(p).on)
<1>1. cmdAt[p].region \in {"before", "body", "after"} /\ cmdAt[p].done \in Nat
      /\ cmdOf[p] \in Command
  BY DEF AtStep, Running, CmdTyped, At
<1>2. ScriptFits(cmdOf[p], ScriptOf[cmdOf[p]][cmdAt[p].region])
  BY <1>1, StepsFit
<1>3. NextStep(p) = ScriptFor(p)[cmdAt[p].region][cmdAt[p].done + 1]
  BY <1>1 DEF NextStep, StepsOf
<1>4. cmdAt[p].done + 1 \in 1 .. Len(ScriptFor(p)[cmdAt[p].region])
  BY <1>1, <1>2 DEF AtStep, StepsOf, ScriptFor, ScriptFits
<1> QED
  BY <1>1, <1>2, <1>3, <1>4 DEF AtStep, StepName, NextStep, ScriptFits, ScriptFor

\* What a command with names of its own, and one that shares its names but launches before
\* its try, does where.
LEMMA OwnSteps ==
    ASSUME CmdTyped, NEW p \in CmdProc, cmdOf[p] \in OwnNames, NEW op, AtStep(p, op)
    PROVE  \/ op = "work" /\ cmdAt[p].region = "body"
           \/ op = "launch" /\ cmdAt[p].region = "body" /\ NextStep(p).on \in 1 .. Owned(p)
           \/ op = "delete" /\ cmdAt[p].region = "after" /\ NextStep(p).on = cmdAt[p].done + 1
<1> DEFINE c == cmdOf[p]
           i == cmdAt[p].done + 1
<1>1. /\ NextStep(p).op = op /\ cmdAt[p].region \in {"before", "body", "after"}
      /\ i \in 1 .. Len(ScriptOf[c][cmdAt[p].region])
      /\ NextStep(p) = ScriptOf[c][cmdAt[p].region][i]
  BY NextStepFits DEF ScriptFor
<1>2. PICK k \in {1, 2} :
           /\ Len(ScriptOf[c].body) = k + 1 /\ Len(ScriptOf[c].after) = k
           /\ \A m \in 1 .. k : /\ ScriptOf[c].body[m] = Launch(m)
                                /\ ScriptOf[c].after[m] = Delete(m)
           /\ ScriptOf[c].body[k + 1] = Work
  BY OwnScripts
<1>3. Owned(p) = k /\ Len(ScriptOf[c].before) = 0
  BY <1>2, OwnScripts DEF Owned, ScriptFor
<1> HIDE DEF c, i
<1>4. CASE cmdAt[p].region = "before"
  BY <1>1, <1>3, <1>4
<1>5. CASE cmdAt[p].region = "body"
  <2>1. NextStep(p) = Work \/ (i \in 1 .. k /\ NextStep(p) = Launch(i))
    BY <1>1, <1>2, <1>5
  <2> QED
    BY <1>1, <1>3, <1>5, <2>1 DEF Launch, Work
<1>6. CASE cmdAt[p].region = "after"
  <2>1. NextStep(p) = Delete(i)
    BY <1>1, <1>2, <1>6
  <2> QED
    BY <1>1, <1>6, <2>1 DEF Delete, i
<1> QED
  BY <1>1, <1>4, <1>5, <1>6

\* The same for a command that shares its names but launches before its try.
LEMMA HoldSteps ==
    ASSUME CmdTyped, NEW p \in CmdProc, cmdOf[p] \in HoldNames, NEW op, AtStep(p, op)
    PROVE  \/ op = "work" /\ cmdAt[p].region = "body"
           \/ op = "launch" /\ cmdAt[p].region = "before" /\ NextStep(p).on = cmdAt[p].done + 1
           \/ /\ op = "delete" /\ cmdAt[p].region = "after"
              /\ NextStep(p).on = cmdAt[p].done + 1 /\ NextStep(p).on \in 1 .. Owned(p)
<1> DEFINE c == cmdOf[p]
           i == cmdAt[p].done + 1
<1>1. /\ NextStep(p).op = op /\ cmdAt[p].region \in {"before", "body", "after"}
      /\ i \in 1 .. Len(ScriptOf[c][cmdAt[p].region])
      /\ NextStep(p) = ScriptOf[c][cmdAt[p].region][i]
  BY NextStepFits DEF ScriptFor
<1>2. PICK k \in {1, 2} :
           /\ Len(ScriptOf[c].before) = k /\ Len(ScriptOf[c].after) = k
           /\ \A m \in 1 .. k : /\ ScriptOf[c].before[m] = Launch(m)
                                /\ ScriptOf[c].after[m] = Delete(m)
  BY HoldScripts
<1>3. Owned(p) = k /\ Len(ScriptOf[c].body) = 1 /\ ScriptOf[c].body[1] = Work
  BY <1>2, HoldScripts DEF Owned, ScriptFor
<1> HIDE DEF c, i
<1>4. CASE cmdAt[p].region = "before"
  <2>1. NextStep(p) = Launch(i)
    BY <1>1, <1>2, <1>4
  <2> QED
    BY <1>1, <1>4, <2>1 DEF Launch, i
<1>5. CASE cmdAt[p].region = "body"
  BY <1>1, <1>3, <1>5 DEF Work
<1>6. CASE cmdAt[p].region = "after"
  <2>1. NextStep(p) = Delete(i) /\ i \in 1 .. Owned(p)
    BY <1>1, <1>2, <1>3, <1>6
  <2> QED
    BY <1>1, <1>6, <2>1 DEF Delete, i
<1> QED
  BY <1>1, <1>4, <1>5, <1>6

\* Where a step of p takes it.
AtOthersStay(p) ==
    cmdAt' \in [CmdProc -> At] /\ \A q \in CmdProc \ {p} : cmdAt'[q] = cmdAt[q]

\* The invocation goes on to another region of its script.
LEMMA Enters ==
    ASSUME CmdTyped, NEW p \in CmdProc, NEW region \in Region, Enter(p, region)
    PROVE  AtOthersStay(p) /\ cmdAt'[p].region = region /\ cmdAt'[p].done = 0
           /\ cmdAt'[p].round = cmdAt[p].round
  BY DEF CmdTyped, Enter, AtOthersStay, At, Region

\* The invocation goes on to its next step.
LEMMA Advances ==
    ASSUME CmdTyped, NEW p \in CmdProc, Advance(p)
    PROVE  /\ AtOthersStay(p) /\ cmdOf' = cmdOf /\ cmdAt'[p].region = cmdAt[p].region
           /\ cmdAt'[p].done = cmdAt[p].done + 1 /\ cmdAt'[p].round = cmdAt[p].round
  BY DEF CmdTyped, Advance, AtOthersStay, At, Region

\* An exception takes it from the try to the finally, and from anywhere else out.
LEMMA Raises ==
    ASSUME CmdTyped, NEW p \in CmdProc, NEW kind \in {"error", "interrupt"}, Raise(p, kind)
    PROVE  /\ AtOthersStay(p) /\ cmdOf' = cmdOf /\ cmdAt'[p].done = 0
           /\ cmdAt'[p].round = cmdAt[p].round
           /\ cmdAt'[p].region = IF cmdAt[p].region = "body" THEN "after" ELSE "raised"
  BY ZenonT(30) DEF CmdTyped, Raise, AtOthersStay, At, Region

----------------------------------------------------------------------------
(* The invariant *)

\* What is on the host, or may still come, has a name of the invocation that launched it.
Named ==
    \A e \in cmdHost \cup cmdLate :
        \E p \in CmdProc, r \in Rounds, i \in {1, 2} : e = Entry(p, r, i)

\* A name is taken once.
Single ==
    \A p, q \in CmdProc : \A r, s \in Rounds : \A i, j \in {1, 2} :
        /\ Entry(p, r, i) \in cmdHost /\ Entry(q, s, j) \in cmdHost
        /\ RoundName(p, r, i) = RoundName(q, s, j)
        => p = q

\* What a command with names of its own has on the host, and no deletion has missed, is of
\* this round and still to be deleted.
OwnFits(p) ==
    cmdOf[p] \in OwnNames =>
        \A r \in Rounds : \A i \in {1, 2} :
            Entry(p, r, i) \in cmdHost /\ Entry(p, r, i) \notin cmdStuck =>
                /\ cmdAt[p].region \in {"body", "after"}
                /\ r = cmdAt[p].round
                /\ i <= Owned(p)
                /\ cmdAt[p].region = "after" => i > cmdAt[p].done

\* A command that launches before its try holds what its finally is still to delete.
HoldFits(p) ==
    cmdOf[p] \in HoldNames =>
        \A i \in 1 .. Owned(p) :
            \/ cmdAt[p].region = "before" /\ i <= cmdAt[p].done
            \/ cmdAt[p].region = "body"
            \/ cmdAt[p].region = "after" /\ i > cmdAt[p].done
            => Entry(p, 1, i) \in cmdHost

\* The invariant of the host under any number of invocations.
CmdInv ==
    /\ CmdTyped
    /\ Named
    /\ Single
    /\ \A p \in CmdProc : OwnFits(p) /\ HoldFits(p)
    /\ CmdNoTheft

\* An invocation's names depend on its command alone.
LEMMA NamesStay ==
    ASSUME UNCHANGED cmdOf, NEW p, NEW r, NEW i
    PROVE  /\ RoundName(p, r, i)' = RoundName(p, r, i) /\ Entry(p, r, i)' = Entry(p, r, i)
           /\ Owned(p)' = Owned(p)
  BY DEF RoundName, Entry, Owned, ScriptFor

\* What does not touch the place and the entries of q leaves q as it is.
LEMMA OthersFit ==
    ASSUME UNCHANGED cmdOf, NEW q \in CmdProc, OwnFits(q), HoldFits(q), cmdAt'[q] = cmdAt[q],
           \A r \in Rounds : \A i \in {1, 2} :
               Entry(q, r, i) \in cmdHost' /\ Entry(q, r, i) \notin cmdStuck' =>
                   Entry(q, r, i) \in cmdHost /\ Entry(q, r, i) \notin cmdStuck,
           \A i \in 1 .. Owned(q) :
               cmdOf[q] \in HoldNames /\ Entry(q, 1, i) \in cmdHost =>
                   Entry(q, 1, i) \in cmdHost'
    PROVE  OwnFits(q)' /\ HoldFits(q)'
<1>1. OwnFits(q)'
  BY NamesStay DEF OwnFits
<1>2. HoldFits(q)'
  BY NamesStay DEF HoldFits
<1> QED
  BY <1>1, <1>2

\* A step of p that leaves the host alone.
LEMMA Moves ==
    ASSUME CmdInv, NEW p \in CmdProc, UNCHANGED <<cmdOf, cmdHost, cmdVictims>>,
           cmdStuck \subseteq cmdStuck', AtOthersStay(p),
           \A e \in cmdLate' : \/ e \in cmdLate
                               \/ \E i \in {1, 2} : e = Entry(p, cmdAt[p].round, i),
           OwnFits(p)', HoldFits(p)'
    PROVE  CmdInv'
<1>1. CmdTyped'
  BY DEF CmdInv, CmdTyped, AtOthersStay
<1>2. Named'
  <2>1. cmdAt[p].round \in Rounds
    BY DEF CmdInv, CmdTyped, At, Rounds
  <2> QED
    BY <2>1, NamesStay DEF CmdInv, Named
<1>3. Single'
  BY NamesStay DEF CmdInv, Single
<1>4. ASSUME NEW q \in CmdProc PROVE OwnFits(q)' /\ HoldFits(q)'
  <2>1. CASE q = p
    BY <2>1
  <2>2. CASE q # p
    BY <2>2, OthersFit DEF CmdInv, AtOthersStay
  <2> QED
    BY <2>1, <2>2
<1>5. CmdNoTheft'
  BY DEF CmdInv, CmdNoTheft
<1> QED
  BY <1>1, <1>2, <1>3, <1>4, <1>5 DEF CmdInv

\* An instance comes up whose name was free.
LEMMA Lands ==
    ASSUME CmdInv, NEW p \in CmdProc, NEW r \in Rounds, NEW i \in {1, 2},
           ~Exists(RoundName(p, r, i)), cmdHost' = cmdHost \cup {Entry(p, r, i)},
           UNCHANGED <<cmdOf, cmdVictims>>, cmdLate' \subseteq cmdLate,
           cmdStuck \subseteq cmdStuck', AtOthersStay(p), OwnFits(p)', HoldFits(p)'
    PROVE  CmdInv'
<1>1. CmdTyped'
  BY DEF CmdInv, CmdTyped, AtOthersStay
<1>2. Named'
  BY NamesStay DEF CmdInv, Named
<1>3. Single'
  <2>1. \A q \in CmdProc, s \in Rounds, j \in {1, 2} :
            Entry(q, s, j) \in cmdHost => RoundName(q, s, j) # RoundName(p, r, i)
    BY DEF Exists, Entry
  <2>2. \A q \in CmdProc, s \in Rounds, j \in {1, 2} :
            Entry(q, s, j) = Entry(p, r, i) =>
                q = p /\ RoundName(q, s, j) = RoundName(p, r, i)
    BY DEF Entry
  <2>3. ASSUME NEW q1 \in CmdProc, NEW q2 \in CmdProc, NEW r1 \in Rounds, NEW r2 \in Rounds,
               NEW i1 \in {1, 2}, NEW i2 \in {1, 2},
               Entry(q1, r1, i1) \in cmdHost', Entry(q2, r2, i2) \in cmdHost',
               RoundName(q1, r1, i1) = RoundName(q2, r2, i2)
        PROVE  q1 = q2
    BY <2>1, <2>2, <2>3 DEF CmdInv, Single
  <2> QED
    BY <2>3, NamesStay DEF Single
<1>4. ASSUME NEW q \in CmdProc PROVE OwnFits(q)' /\ HoldFits(q)'
  <2>1. CASE q = p
    BY <2>1
  <2>2. CASE q # p
    <3>1. \A s \in Rounds : \A j \in {1, 2} : Entry(q, s, j) # Entry(p, r, i)
      BY <2>2 DEF Entry
    <3> QED
      BY <2>2, <3>1, OthersFit DEF CmdInv, AtOthersStay
  <2> QED
    BY <2>1, <2>2
<1>5. CmdNoTheft'
  BY DEF CmdInv, CmdNoTheft
<1> QED
  BY <1>1, <1>2, <1>3, <1>4, <1>5 DEF CmdInv

\* Every step of every invocation, and every late launch of the host, keeps the invariant.
LEMMA CmdInvStep ==
    ASSUME CmdInv, [CmdNext]_cmdVars
    PROVE  CmdInv'
<1>0. CmdTyped /\ \A p \in CmdProc : cmdAt[p].round \in Rounds /\ cmdAt[p].done \in Nat
  BY DEF CmdInv, CmdTyped, At, Rounds
<1>1. ASSUME NEW p \in CmdProc, CmdTurn(p) PROVE CmdInv'
  <2>1. UNCHANGED <<cmdOf, cmdHost, cmdLate, cmdStuck, cmdVictims>>
    BY <1>1 DEF CmdTurn
  <2>2. cmdAt[p].region \in {"before", "body", "after"}
        /\ cmdAt[p].done = Len(ScriptFor(p)[cmdAt[p].region])
    BY <1>1 DEF CmdTurn, Running, StepsOf
  <2>3. CASE cmdAt[p].region = "before"
    <3>1. Enter(p, "body")
      BY <1>1, <2>3 DEF CmdTurn
    <3>2. AtOthersStay(p) /\ cmdAt'[p].region = "body" /\ cmdAt'[p].round = cmdAt[p].round
      BY <1>0, <3>1, Enters DEF Region
    <3>3. OwnFits(p)'
      BY <2>1, <2>3, <3>2, NamesStay DEF CmdInv, OwnFits
    <3>4. HoldFits(p)'
      <4>1. cmdOf[p] \in HoldNames => cmdAt[p].done = Owned(p)
        BY <2>2, <2>3, HoldScripts DEF ScriptFor, Owned
      <4> QED
        BY <1>0, <2>1, <2>3, <3>2, <4>1, NamesStay DEF CmdInv, HoldFits
    <3> QED
      BY <2>1, <3>2, <3>3, <3>4, Moves
  <2>4. CASE cmdAt[p].region = "body"
    <3>1. Enter(p, "after")
      BY <1>1, <2>4 DEF CmdTurn
    <3>2. AtOthersStay(p) /\ cmdAt'[p].region = "after" /\ cmdAt'[p].done = 0
          /\ cmdAt'[p].round = cmdAt[p].round
      BY <1>0, <3>1, Enters DEF Region
    <3>3. OwnFits(p)'
      BY <2>1, <2>4, <3>2, NamesStay DEF CmdInv, OwnFits
    <3>4. HoldFits(p)'
      BY <2>1, <2>4, <3>2, NamesStay DEF CmdInv, HoldFits
    <3> QED
      BY <2>1, <3>2, <3>3, <3>4, Moves
  <2>5. CASE cmdAt[p].region = "after"
    <3>1. AtOthersStay(p) /\ cmdAt'[p].done = 0
          /\ cmdAt'[p].region \in {"before", "returned", "raised"}
      <4>1. CASE \E region \in {"returned", "raised"} : Enter(p, region)
        BY <1>0, <4>1, Enters DEF Region
      <4>2. CASE /\ cmdAt[p].round < CmdRounds
                 /\ cmdAt' = [cmdAt EXCEPT ![p] =
                            [region |-> "before", done |-> 0, round |-> cmdAt[p].round + 1,
                             pending |-> "none"]]
        <5>1. cmdAt[p].round + 1 \in 1 .. CmdRounds
          BY <1>0, <4>2, CmdAssumption DEF Rounds
        <5>2. [region |-> "before", done |-> 0, round |-> cmdAt[p].round + 1,
               pending |-> "none"] \in At
          BY <5>1 DEF At, Region
        <5> QED
          BY <1>0, <4>2, <5>2 DEF CmdTyped, AtOthersStay
      <4> QED
        BY <1>1, <2>5, <4>1, <4>2 DEF CmdTurn
    <3>2. OwnFits(p)'
      <4>1. cmdOf[p] \in OwnNames => cmdAt[p].done = Owned(p) /\ Owned(p) \in Nat
        BY <2>2, <2>5, OwnScripts DEF ScriptFor, Owned
      <4> QED
        BY <1>0, <2>1, <2>5, <4>1, NamesStay DEF CmdInv, OwnFits
    <3>3. HoldFits(p)'
      BY <2>1, <3>1, NamesStay DEF HoldFits
    <3> QED
      BY <2>1, <3>1, <3>2, <3>3, Moves
  <2> QED
    BY <2>2, <2>3, <2>4, <2>5
<1>2. ASSUME NEW p \in CmdProc, CmdLaunch(p) PROVE CmdInv'
  <2> DEFINE i == NextStep(p).on
             r == cmdAt[p].round
             e == Entry(p, r, i)
  <2>1. AtStep(p, "launch") /\ UNCHANGED <<cmdStuck, cmdVictims>>
    BY <1>2 DEF CmdLaunch
  <2>2. i \in {1, 2} /\ StepName(p) = RoundName(p, r, i) /\ <<StepName(p), p>> = e
    BY <1>0, <2>1, NextStepFits DEF StepFits, Entry
  <2>3. r \in Rounds /\ cmdAt[p].done \in Nat
    BY <1>0
  <2>4. cmdOf[p] \in OwnNames => cmdAt[p].region = "body" /\ i \in 1 .. Owned(p)
    BY <1>0, <2>1, OwnSteps
  <2>5. cmdOf[p] \in HoldNames =>
            cmdAt[p].region = "before" /\ i = cmdAt[p].done + 1 /\ ScriptFor(p).fixed
    BY <1>0, <2>1, HoldSteps, HoldScripts DEF ScriptFor
  <2>6. ASSUME AtOthersStay(p), cmdOf' = cmdOf,
               cmdAt'[p].round = r,
               cmdAt'[p].region \in {"body", "after"} \/ cmdOf[p] \notin OwnNames,
               cmdAt'[p].done = 0 \/ cmdAt'[p].region # "after",
               \A f \in cmdHost' : f \in cmdHost \/ f = e
        PROVE  OwnFits(p)'
    <3>1. \A s \in Rounds : \A j \in {1, 2} :
              cmdOf[p] \in OwnNames /\ Entry(p, s, j) = e => s = r /\ j = i
      <4>1. cmdOf[p] \in OwnNames => ~ScriptFor(p).fixed
        BY OwnScripts DEF ScriptFor
      <4> QED
        BY <2>2, <2>3, <4>1, NamesDiffer DEF Entry
    <3> HIDE DEF i, r, e
    <3>2. ASSUME cmdOf[p] \in OwnNames, NEW s \in Rounds, NEW j \in {1, 2},
                 Entry(p, s, j) \in cmdHost', Entry(p, s, j) \notin cmdStuck'
          PROVE  /\ cmdAt'[p].region \in {"body", "after"} /\ s = r /\ j <= Owned(p)
                 /\ cmdAt'[p].region = "after" => j > cmdAt'[p].done
      <4>1. CASE Entry(p, s, j) = e
        BY <2>2, <2>4, <2>6, <3>1, <3>2, <4>1
      <4>2. CASE Entry(p, s, j) \in cmdHost
        BY <2>1, <2>4, <2>6, <3>2, <4>2 DEF CmdInv, OwnFits, r
      <4> QED
        BY <2>6, <3>2, <4>1, <4>2
    <3> QED
      BY <2>6, <3>2, NamesStay DEF OwnFits
  <2>7. CASE Advance(p)
    <3>1. ~Exists(RoundName(p, r, i)) /\ cmdHost' = cmdHost \cup {e} /\ cmdLate' = cmdLate
      <4>1. ~Raise(p, "error")
        BY <1>0, <2>7, Raises, Advances
      <4> QED
        BY <1>2, <2>2, <4>1 DEF CmdLaunch
    <3>2. /\ AtOthersStay(p) /\ cmdOf' = cmdOf /\ cmdAt'[p].region = cmdAt[p].region
          /\ cmdAt'[p].done = cmdAt[p].done + 1 /\ cmdAt'[p].round = r
      BY <1>0, <2>7, Advances
    <3>3. OwnFits(p)'
      <4>1. CASE cmdOf[p] \in OwnNames
        BY <2>4, <2>6, <3>1, <3>2, <4>1
      <4>2. CASE cmdOf[p] \notin OwnNames
        BY <3>2, <4>2 DEF OwnFits
      <4> QED
        BY <4>1, <4>2
    <3>4. HoldFits(p)'
      <4> SUFFICES ASSUME cmdOf[p] \in HoldNames, NEW j \in 1 .. Owned(p),
                          j <= cmdAt[p].done + 1
                   PROVE  Entry(p, 1, j) \in cmdHost'
        BY <2>5, <3>2, NamesStay DEF HoldFits
      <4>1. CASE j <= cmdAt[p].done
        BY <2>5, <3>1, <4>1 DEF CmdInv, HoldFits
      <4>2. CASE j = cmdAt[p].done + 1
        <5>1. Entry(p, 1, j) = e
          BY <2>2, <2>3, <2>5, <4>2, FixedNames, CmdAssumption DEF Entry, Rounds
        <5> QED
          BY <3>1, <5>1
      <4> QED
        BY <2>3, <4>1, <4>2
    <3> HIDE DEF i, r, e
    <3> QED
      BY <2>1, <2>2, <2>3, <3>1, <3>2, <3>3, <3>4, Lands DEF e
  <2>8. CASE Raise(p, "error")
    <3>1. \/ UNCHANGED <<cmdHost, cmdLate>>
          \/ ~Exists(RoundName(p, r, i)) /\ cmdHost' = cmdHost \cup {e} /\ UNCHANGED cmdLate
          \/ cmdLate' = cmdLate \cup {e} /\ UNCHANGED cmdHost
      <4>1. ~Advance(p)
        BY <1>0, <2>8, Raises, Advances
      <4> QED
        BY <1>2, <2>2, <4>1 DEF CmdLaunch
    <3>2. /\ AtOthersStay(p) /\ cmdOf' = cmdOf /\ cmdAt'[p].done = 0 /\ cmdAt'[p].round = r
          /\ cmdAt'[p].region = IF cmdAt[p].region = "body" THEN "after" ELSE "raised"
      BY <1>0, <2>8, Raises
    <3>3. OwnFits(p)'
      <4>1. CASE cmdOf[p] \in OwnNames
        BY <2>4, <2>6, <3>1, <3>2, <4>1
      <4>2. CASE cmdOf[p] \notin OwnNames
        BY <3>2, <4>2 DEF OwnFits
      <4> QED
        BY <4>1, <4>2
    <3>4. HoldFits(p)'
      BY <2>5, <3>2, NamesStay DEF HoldFits
    <3> HIDE DEF i, r, e
    <3>5. CASE cmdHost' = cmdHost
      BY <2>1, <2>2, <3>1, <3>2, <3>3, <3>4, <3>5, Moves DEF e, r
    <3>6. CASE ~Exists(RoundName(p, r, i)) /\ cmdHost' = cmdHost \cup {e} /\ UNCHANGED cmdLate
      BY <2>1, <2>2, <2>3, <3>2, <3>3, <3>4, <3>6, Lands DEF e
    <3> QED
      BY <3>1, <3>5, <3>6
  <2> QED
    BY <1>2, <2>7, <2>8 DEF CmdLaunch
<1>3. ASSUME NEW late \in cmdLate, CmdLaunchEnds(late) PROVE CmdInv'
  <2>1. PICK p \in CmdProc, r \in Rounds, i \in {1, 2} : late = Entry(p, r, i)
    BY <1>3 DEF CmdInv, Named
  <2>2. /\ UNCHANGED <<cmdOf, cmdAt, cmdVictims>> /\ cmdLate' \subseteq cmdLate
        /\ \/ UNCHANGED <<cmdHost, cmdStuck>>
           \/ /\ ~Exists(RoundName(p, r, i))
              /\ cmdHost' = cmdHost \cup {Entry(p, r, i)}
              /\ cmdStuck' = cmdStuck \cup {Entry(p, r, i)}
    BY <1>3, <2>1 DEF CmdLaunchEnds, Entry
  <2>3. AtOthersStay(p)
    BY <1>0, <2>2 DEF AtOthersStay, CmdTyped
  <2>4. OwnFits(p)'
    BY <2>2, NamesStay DEF CmdInv, OwnFits
  <2>5. HoldFits(p)'
    BY <2>2, NamesStay DEF CmdInv, HoldFits
  <2>6. CASE UNCHANGED <<cmdHost, cmdStuck>>
    BY <2>2, <2>3, <2>4, <2>5, <2>6, Moves
  <2>7. CASE cmdHost' = cmdHost \cup {Entry(p, r, i)} /\ ~Exists(RoundName(p, r, i))
             /\ cmdStuck' = cmdStuck \cup {Entry(p, r, i)}
    BY <2>2, <2>3, <2>4, <2>5, <2>7, Lands
  <2> QED
    BY <2>2, <2>6, <2>7
<1>4. ASSUME NEW p \in CmdProc, CmdWork(p) PROVE CmdInv'
  <2>1. UNCHANGED <<cmdHost, cmdLate, cmdStuck, cmdVictims>>
    BY <1>4 DEF CmdWork
  <2>2. cmdOf[p] \in OwnNames \/ cmdOf[p] \in HoldNames => cmdAt[p].region = "body"
    BY <1>0, <1>4, OwnSteps, HoldSteps DEF CmdWork
  <2>3. /\ AtOthersStay(p) /\ cmdOf' = cmdOf /\ cmdAt'[p].round = cmdAt[p].round
        /\ \/ cmdAt'[p].region = cmdAt[p].region
           \/ /\ cmdAt'[p].done = 0
              /\ cmdAt'[p].region = IF cmdAt[p].region = "body" THEN "after" ELSE "raised"
    BY <1>0, <1>4, Advances, Raises DEF CmdWork
  <2>4. OwnFits(p)'
    BY <2>1, <2>2, <2>3, NamesStay DEF CmdInv, OwnFits
  <2>5. HoldFits(p)'
    BY <2>1, <2>2, <2>3, NamesStay DEF CmdInv, HoldFits
  <2> QED
    BY <2>1, <2>3, <2>4, <2>5, Moves
<1>5. ASSUME NEW p \in CmdProc, CmdAttach(p) PROVE CmdInv'
  <2> DEFINE n == StepName(p)
  <2>1. /\ AtStep(p, "attach") /\ Advance(p) /\ UNCHANGED <<cmdLate, cmdVictims>>
        /\ cmdHost' \in {cmdHost, Without(cmdHost, n), Without(cmdHost, n) \cup {<<n, p>>}}
        /\ cmdStuck' = cmdStuck \cap cmdHost'
    BY <1>5 DEF CmdAttach
  <2>2. PICK r \in Rounds, i \in {1, 2} : n = RoundName(p, r, i) /\ <<n, p>> = Entry(p, r, i)
    BY <1>0, <2>1, NextStepFits DEF StepFits, Entry
  <2>3. cmdOf[p] = "net_chaos"
    BY <1>0, <2>1, NextStepFits DEF StepFits
  <2>4. AtOthersStay(p) /\ cmdOf' = cmdOf
    BY <1>0, <2>1, Advances
  <2> HIDE DEF n
  <2>5. /\ \A e \in cmdHost' : e \in cmdHost \/ e = Entry(p, r, i)
        /\ \A e \in cmdHost : e[1] # n => e \in cmdHost'
        /\ \A e \in cmdHost' : e[1] = n => cmdHost' = cmdHost \/ e = Entry(p, r, i)
    BY <2>1, <2>2 DEF Without
  <2>6. Named'
    BY <2>1, <2>4, <2>5, NamesStay DEF CmdInv, Named
  <2>7. Single'
    <3>1. ASSUME NEW q1 \in CmdProc, NEW q2 \in CmdProc, NEW r1 \in Rounds, NEW r2 \in Rounds,
                 NEW i1 \in {1, 2}, NEW i2 \in {1, 2},
                 Entry(q1, r1, i1) \in cmdHost', Entry(q2, r2, i2) \in cmdHost',
                 RoundName(q1, r1, i1) = RoundName(q2, r2, i2)
          PROVE  q1 = q2
      <4>1. CASE RoundName(q1, r1, i1) = n /\ cmdHost' # cmdHost
        BY <2>5, <3>1, <4>1 DEF Entry
      <4>2. CASE RoundName(q1, r1, i1) # n \/ cmdHost' = cmdHost
        <5>1. Entry(q1, r1, i1) \in cmdHost /\ Entry(q2, r2, i2) \in cmdHost
          BY <2>2, <2>5, <3>1, <4>2 DEF Entry
        <5> QED
          BY <3>1, <5>1 DEF CmdInv, Single
      <4> QED
        BY <4>1, <4>2
    <3> QED
      BY <2>4, <3>1, NamesStay DEF Single
  <2>8. ASSUME NEW q \in CmdProc PROVE OwnFits(q)' /\ HoldFits(q)'
    <3>1. CASE q = p
      BY <2>3, <2>4, <3>1 DEF OwnFits, HoldFits, OwnNames, HoldNames
    <3>2. CASE q # p
      <4>1. \A s \in Rounds : \A j \in {1, 2} : Entry(q, s, j) # Entry(p, r, i)
        BY <3>2 DEF Entry
      <4>2. ASSUME cmdOf[q] \in HoldNames, NEW j \in 1 .. Owned(q), Entry(q, 1, j) \in cmdHost
            PROVE  Entry(q, 1, j) \in cmdHost'
        <5>1. PICK q2 \in CmdProc, r2 \in Rounds, j2 \in {1, 2} :
                   Entry(q, 1, j) = Entry(q2, r2, j2)
          BY <4>2 DEF CmdInv, Named
        <5>2. q2 = q /\ RoundName(q, 1, j) = RoundName(q, r2, j2)
          BY <5>1 DEF Entry
        <5>3. RoundName(q, r2, j2) # n
          BY <2>2, <2>3, <3>2, <4>2, NamesDiffer DEF HoldNames
        <5> QED
          BY <2>5, <4>2, <5>2, <5>3 DEF Entry
      <4> QED
        BY <2>1, <2>4, <2>5, <3>2, <4>1, <4>2, OthersFit DEF CmdInv, AtOthersStay
    <3> QED
      BY <3>1, <3>2
  <2>9. CmdTyped' /\ CmdNoTheft'
    BY <2>1, <2>4 DEF CmdInv, CmdTyped, CmdNoTheft, AtOthersStay
  <2> QED
    BY <2>6, <2>7, <2>8, <2>9 DEF CmdInv
<1>6. ASSUME NEW p \in CmdProc, CmdDelete(p) PROVE CmdInv'
  <2> DEFINE n == StepName(p)
             i == NextStep(p).on
             r == cmdAt[p].round
  <2>1. /\ AtStep(p, "delete") \/ AtStep(p, "detach")
        /\ Advance(p) /\ UNCHANGED cmdLate
    BY <1>6 DEF CmdDelete
  <2>2. \/ /\ cmdHost' = Without(cmdHost, n) /\ cmdStuck' = Without(cmdStuck, n)
           /\ cmdVictims' = cmdVictims \cup
                  {<<p, q>> : q \in {o \in CmdProc \ {p} : <<n, o>> \in cmdHost /\ Running(o)}}
        \/ /\ cmdStuck' = cmdStuck \cup {e \in cmdHost : e[1] = n}
           /\ UNCHANGED <<cmdHost, cmdVictims>>
    BY <1>6 DEF CmdDelete
  <2>3. i \in {1, 2} /\ r \in Rounds /\ n = RoundName(p, r, i) /\ cmdAt[p].done \in Nat
    BY <1>0, <2>1, NextStepFits DEF StepFits
  <2>4. /\ AtOthersStay(p) /\ cmdOf' = cmdOf /\ cmdAt'[p].region = cmdAt[p].region
        /\ cmdAt'[p].done = cmdAt[p].done + 1 /\ cmdAt'[p].round = r
    BY <1>0, <2>1, Advances
  <2>5. cmdOf[p] \in OwnNames => cmdAt[p].region = "after" /\ i = cmdAt[p].done + 1
    BY <1>0, <2>1, OwnSteps
  <2>6. cmdOf[p] \in HoldNames =>
            /\ cmdAt[p].region = "after" /\ i = cmdAt[p].done + 1 /\ i \in 1 .. Owned(p)
            /\ ScriptFor(p).fixed
    BY <1>0, <2>1, HoldSteps, HoldScripts DEF ScriptFor
  <2>7. cmdOf[p] \in Command /\ cmdOf[p] \notin {"threat_hunt", "trace_causal"}
    BY <1>0, <2>1, NextStepFits DEF StepFits, CmdTyped
  <2> HIDE DEF n, i, r
  <2>8. /\ cmdHost' \subseteq cmdHost
        /\ \A e \in cmdHost : e[1] # n => e \in cmdHost'
        /\ \A e \in cmdHost' : e \notin cmdStuck' => e \notin cmdStuck /\ e[1] # n
    BY <2>2 DEF Without
  <2>9. cmdOf[p] \in HoldNames => Entry(p, r, i) \in cmdHost
    <3>1. cmdOf[p] \in HoldNames => Entry(p, 1, i) \in cmdHost
      BY <2>3, <2>6 DEF CmdInv, HoldFits
    <3> QED
      BY <2>3, <2>6, <3>1, FixedNames, CmdAssumption DEF Entry, Rounds
  <2>10. ASSUME cmdOf[p] \in HoldNames, NEW q \in CmdProc, NEW s \in Rounds, NEW j \in {1, 2},
                Entry(q, s, j) \in cmdHost, RoundName(q, s, j) = n
         PROVE  q = p
    BY <2>3, <2>9, <2>10 DEF CmdInv, Single
  <2>11. Named' /\ Single'
    BY <2>1, <2>4, <2>8, NamesStay DEF CmdInv, Named, Single
  <2>12. ASSUME NEW q \in CmdProc PROVE OwnFits(q)' /\ HoldFits(q)'
    <3>1. ASSUME cmdOf[q] \in HoldNames, NEW j \in 1 .. Owned(q), Entry(q, 1, j) \in cmdHost,
                 q # p \/ j # i
          PROVE  Entry(q, 1, j) \in cmdHost'
      <4>1. PICK q2 \in CmdProc, r2 \in Rounds, j2 \in {1, 2} :
                   Entry(q, 1, j) = Entry(q2, r2, j2)
        BY <3>1 DEF CmdInv, Named
      <4>2. q2 = q /\ RoundName(q, 1, j) = RoundName(q, r2, j2)
        BY <4>1 DEF Entry
      <4>3. j2 = j
        BY <4>2 DEF RoundName
      <4>4. RoundName(q, r2, j2) # n
        BY <2>3, <2>10, <3>1, <4>1, <4>2, <4>3, NamesDiffer
      <4> QED
        BY <2>8, <3>1, <4>2, <4>4 DEF Entry
    <3>2. CASE q # p
      BY <2>4, <2>8, <3>1, <3>2, OthersFit DEF CmdInv, AtOthersStay
    <3>3. CASE q = p
      <4>1. OwnFits(p)'
        <5> SUFFICES ASSUME cmdOf[p] \in OwnNames, NEW s \in Rounds, NEW j \in {1, 2},
                            Entry(p, s, j) \in cmdHost', Entry(p, s, j) \notin cmdStuck'
                     PROVE  s = r /\ j <= Owned(p) /\ j > cmdAt[p].done + 1
          BY <2>4, <2>5, NamesStay DEF OwnFits
        <5>1. /\ Entry(p, s, j) \in cmdHost /\ Entry(p, s, j) \notin cmdStuck
              /\ RoundName(p, s, j) # n
          BY <2>8 DEF Entry
        <5>2. s = r /\ j <= Owned(p) /\ j > cmdAt[p].done
          BY <2>5, <5>1 DEF CmdInv, OwnFits, r
        <5>3. j # i
          BY <2>3, <5>1, <5>2
        <5> QED
          BY <2>3, <2>5, <5>2, <5>3
      <4>2. HoldFits(p)'
        <5> SUFFICES ASSUME cmdOf[p] \in HoldNames, NEW j \in 1 .. Owned(p),
                            j > cmdAt[p].done + 1
                     PROVE  Entry(p, 1, j) \in cmdHost'
          BY <2>4, <2>6, NamesStay DEF HoldFits
        <5>1. Entry(p, 1, j) \in cmdHost
          BY <2>3, <2>6 DEF CmdInv, HoldFits
        <5> QED
          BY <2>3, <2>6, <3>1, <3>3, <5>1
      <4> QED
        BY <3>3, <4>1, <4>2
    <3> QED
      BY <3>2, <3>3
  <2>13. CmdNoTheft'
    <3>1. ASSUME NEW q \in CmdProc \ {p}, <<n, q>> \in cmdHost
          PROVE  cmdOf[p] = cmdOf[q] /\ cmdOf[p] \in SharedNames
      <4>1. PICK q2 \in CmdProc, r2 \in Rounds, j2 \in {1, 2} : <<n, q>> = Entry(q2, r2, j2)
        BY <3>1 DEF CmdInv, Named
      <4>2. q2 = q /\ n = RoundName(q, r2, j2)
        BY <4>1 DEF Entry
      <4>3. ScriptFor(p).fixed /\ cmdOf[p] = cmdOf[q]
        <5>1. RoundName(p, r, i) = RoundName(q, r2, j2) /\ q # p /\ q \in CmdProc
          BY <2>3, <3>1, <4>2
        <5> QED
          BY <2>3, <5>1, NamesDiffer
      <4>4. cmdOf[p] \notin OwnNames
        BY <4>3, OwnScripts DEF ScriptFor
      <4>5. cmdOf[p] \notin HoldNames
        BY <2>10, <3>1, <4>1, <4>2
      <4> QED
        BY <2>7, <4>3, <4>4, <4>5, CommandNames DEF OwnNames, HoldNames, SharedNames
    <3>2. ASSUME NEW v \in cmdVictims'
          PROVE  cmdOf[v[1]] = cmdOf[v[2]] /\ cmdOf[v[1]] \in SharedNames
      <4>1. CASE v \in cmdVictims
        BY <4>1 DEF CmdInv, CmdNoTheft
      <4>2. CASE \E q \in CmdProc \ {p} : v = <<p, q>> /\ <<n, q>> \in cmdHost
        BY <3>1, <4>2
      <4> QED
        BY <2>2, <3>2, <4>1, <4>2
    <3> QED
      BY <2>4, <3>2 DEF CmdNoTheft
  <2>14. CmdTyped'
    BY <2>4 DEF CmdInv, CmdTyped, AtOthersStay
  <2> QED
    BY <2>11, <2>12, <2>13, <2>14 DEF CmdInv
<1>7. ASSUME NEW p \in CmdProc, CmdInterrupt(p) PROVE CmdInv'
  <2>1. /\ cmdAt[p].region \in {"before", "body", "after"}
        /\ cmdAt[p].done < Len(ScriptFor(p)[cmdAt[p].region])
        /\ Raise(p, "interrupt") /\ UNCHANGED <<cmdHost, cmdVictims>>
        /\ cmdStuck' = IF cmdAt[p].region = "after"
                       THEN cmdStuck \cup EntriesOf(p) ELSE cmdStuck
    BY <1>7 DEF CmdInterrupt, Running, StepsOf
  <2>2. /\ AtOthersStay(p) /\ cmdOf' = cmdOf /\ cmdAt'[p].done = 0
        /\ cmdAt'[p].round = cmdAt[p].round
        /\ cmdAt'[p].region = IF cmdAt[p].region = "body" THEN "after" ELSE "raised"
    BY <1>0, <2>1, Raises
  <2>3. \A e \in cmdLate' : \/ e \in cmdLate
                            \/ \E i \in {1, 2} : e = Entry(p, cmdAt[p].round, i)
    <3>1. CASE AtStep(p, "launch")
      <4>1. /\ NextStep(p).on \in {1, 2}
            /\ StepName(p) = RoundName(p, cmdAt[p].round, NextStep(p).on)
        BY <1>0, <3>1, NextStepFits DEF StepFits
      <4>2. \A e \in cmdLate' : e \in cmdLate \/ e = <<StepName(p), p>>
        BY <1>7 DEF CmdInterrupt
      <4> QED
        BY <4>1, <4>2 DEF Entry
    <3>2. CASE ~AtStep(p, "launch")
      BY <1>7, <3>2 DEF CmdInterrupt
    <3> QED
      BY <3>1, <3>2
  <2>4. OwnFits(p)'
    <3> SUFFICES ASSUME cmdOf[p] \in OwnNames, NEW s \in Rounds, NEW j \in {1, 2},
                        Entry(p, s, j) \in cmdHost, Entry(p, s, j) \notin cmdStuck'
                 PROVE  cmdAt[p].region = "body" /\ s = cmdAt[p].round /\ j <= Owned(p)
      BY <2>1, <2>2, NamesStay DEF OwnFits
    <3>1. /\ cmdAt[p].region \in {"body", "after"} /\ s = cmdAt[p].round /\ j <= Owned(p)
      BY <2>1 DEF CmdInv, OwnFits
    <3>2. Entry(p, s, j) \in EntriesOf(p)
      BY <3>1 DEF EntriesOf, NamesOf, Entry
    <3> QED
      BY <2>1, <3>1, <3>2
  <2>5. HoldFits(p)'
    BY <2>1, <2>2, NamesStay DEF CmdInv, HoldFits
  <2> QED
    BY <2>1, <2>2, <2>3, <2>4, <2>5, Moves
<1>8. CASE UNCHANGED cmdVars
  <2>1. \A p \in CmdProc : OwnFits(p)' /\ HoldFits(p)'
    BY <1>8, NamesStay DEF CmdInv, OwnFits, HoldFits, cmdVars
  <2>2. Named' /\ Single'
    BY <1>8, NamesStay DEF CmdInv, Named, Single, cmdVars
  <2> QED
    BY <1>8, <2>1, <2>2 DEF CmdInv, CmdTyped, CmdNoTheft, cmdVars
<1> QED
  BY <1>1, <1>2, <1>3, <1>4, <1>5, <1>6, <1>7, <1>8 DEF CmdNext, CmdStep

\* The invariant holds in every execution.
LEMMA CmdInvHolds == CmdSpec => []CmdInv
<1>1. CmdInit => CmdInv
  <2> SUFFICES ASSUME CmdInit PROVE CmdInv
    OBVIOUS
  <2>1. CmdTyped
    <3>1. [region |-> "before", done |-> 0, round |-> 1, pending |-> "none"] \in At
      BY CmdAssumption DEF At, Region
    <3> QED
      BY <3>1 DEF CmdInit, CmdTyped
  <2>2. \A p \in CmdProc : cmdAt[p].region = "before" /\ cmdAt[p].done = 0
    BY DEF CmdInit
  <2>3. \A p \in CmdProc : OwnFits(p) /\ HoldFits(p)
    BY <2>2 DEF CmdInit, OwnFits, HoldFits
  <2> QED
    BY <2>1, <2>3 DEF CmdInit, CmdInv, Named, Single, CmdNoTheft
<1>2. CmdInv /\ [CmdNext]_cmdVars => CmdInv'
  BY CmdInvStep
<1> QED
  BY <1>1, <1>2, PTL DEF CmdSpec

\* A command with names of its own, whatever raises in it and however often it loops, leaves
\* an instance behind only if its deletion failed or an interrupt skipped it, or if the host
\* finished a launch nobody waited for.
THEOREM CommandsLeakNothing == CmdSpec => []CmdNoLeak
<1>1. CmdInv => CmdNoLeak
  <2> SUFFICES ASSUME CmdInv, NEW p \in CmdProc, NEW n \in InstanceName,
                      <<n, p>> \in cmdHost, cmdOf[p] \in OwnNames, <<n, p>> \notin cmdStuck
               PROVE  Running(p) /\ n \in NamesOf(p)
    BY DEF CmdNoLeak
  <2>1. PICK q \in CmdProc, r \in Rounds, i \in {1, 2} : <<n, p>> = Entry(q, r, i)
    BY DEF CmdInv, Named
  <2>2. q = p /\ n = RoundName(p, r, i)
    BY <2>1 DEF Entry
  <2>3. cmdAt[p].region \in {"body", "after"} /\ r = cmdAt[p].round
    BY <2>1, <2>2 DEF CmdInv, OwnFits
  <2> QED
    BY <2>2, <2>3 DEF Running, NamesOf
<1> QED
  BY <1>1, CmdInvHolds, PTL

\* Cleaning up never takes the instance of a command that still runs, except between two runs
\* of test-env, of synthesize-scenario or of net-chaos.
THEOREM CommandsStealNothing == CmdSpec => []CmdNoTheft
<1>1. CmdInv => CmdNoTheft
  BY DEF CmdInv
<1> QED
  BY <1>1, CmdInvHolds, PTL

----------------------------------------------------------------------------
(* Snapshots of a driver *)

\* What a snapshot saw is what its driver keeps under its name.
KeptAsTaken ==
    /\ drvDriver = "incus" => ~drvMock
    /\ \A s \in DrvSnap :
           /\ drvDriver = "incus" =>
                  ~drvTaken[s].mock /\ drvTaken[s].saw \in {NoValue, drvStore[s]}
           /\ drvTaken[s].mock => drvMock /\ drvMockStore[s] = drvTaken[s].saw

\* The type of the last call and its answer.
CallIsTyped ==
    drvCall \in [op : {"none", "setup", "execute", "create_snapshot", "revert", "cleanup"},
                 on : DrvSnap \cup {NoValue}, raised : BOOLEAN]

\* The invariant of a driver.
DrvInv ==
    /\ DrvTypeOK
    /\ drvCall.op = "revert" => drvCall.on \in DrvSnap
    /\ KeptAsTaken
    /\ RevertRestores

\* Every call of a driver keeps the invariant.
LEMMA DrvInvStep ==
    ASSUME DrvInv, [DrvNext]_drvVars
    PROVE  DrvInv'
<1> USE DriverAssumption DEF DrvInv
<1>1. CASE DrvSetup
  <2>1. /\ UNCHANGED <<drvDriver, drvStore, drvMockStore, drvTaken>>
        /\ drvMock' = drvMock \/ (drvMock' = TRUE /\ drvDriver # "incus")
        /\ drvFiles' \in {drvFiles, Fresh} /\ drvGuest' \in {drvGuest, Fresh, NoValue}
    BY <1>1 DEF DrvSetup
  <2>2. /\ drvReady' \in BOOLEAN
        /\ \E raised \in BOOLEAN :
               drvCall' = [op |-> "setup", on |-> NoValue, raised |-> raised]
    BY <1>1 DEF DrvSetup, Called, DrvTypeOK
  <2>3. CallIsTyped' /\ drvCall'.op = "setup"
    BY <2>2 DEF CallIsTyped
  <2>4. DrvTypeOK'
    BY <2>1, <2>2, <2>3 DEF DrvTypeOK, CallIsTyped, Content
  <2>5. KeptAsTaken'
    BY <2>1 DEF KeptAsTaken
  <2> QED
    BY <2>3, <2>4, <2>5 DEF RevertRestores
<1>2. ASSUME NEW v \in DrvValue, DrvExecute(v) PROVE DrvInv'
  BY <1>2 DEF DrvExecute, Called, DrvTypeOK, Content, KeptAsTaken, RevertRestores
<1>3. ASSUME NEW s \in DrvSnap, DrvCreateSnapshot(s) PROVE DrvInv'
  <2>1. UNCHANGED <<drvDriver, drvMock, drvReady, drvGuest, drvFiles>>
    BY <1>3 DEF DrvCreateSnapshot
  <2>2. \E raised \in BOOLEAN :
            drvCall' = [op |-> "create_snapshot", on |-> s, raised |-> raised]
    BY <1>3 DEF DrvCreateSnapshot, Called
  <2> DEFINE now == [saw |-> Shown, mock |-> drvMock]
  <2>3. now \in [saw : Content, mock : BOOLEAN]
    BY DEF DrvTypeOK, Shown
  <2>4. drvTaken' = drvTaken \/ drvTaken' = [drvTaken EXCEPT ![s] = now]
    BY <1>3 DEF DrvCreateSnapshot
  <2>5. /\ drvStore' \in {drvStore, [drvStore EXCEPT ![s] = drvGuest]}
        /\ drvMockStore' \in {drvMockStore, [drvMockStore EXCEPT ![s] = drvFiles]}
    BY <1>3 DEF DrvCreateSnapshot
  <2>6. DrvTypeOK'
    <3>1. CallIsTyped'
      BY <2>2 DEF CallIsTyped
    <3>2. drvTaken' \in [DrvSnap -> [saw : Content, mock : BOOLEAN]]
      BY <2>3, <2>4 DEF DrvTypeOK
    <3>3. /\ drvStore' \in [DrvSnap -> Content]
          /\ drvMockStore' \in [DrvSnap -> Content]
      BY <2>5 DEF DrvTypeOK
    <3> QED
      BY <2>1, <3>1, <3>2, <3>3 DEF DrvTypeOK, CallIsTyped
  <2>7. KeptAsTaken'
    <3>1. CASE drvMock
      <4>1. /\ drvMockStore' = [drvMockStore EXCEPT ![s] = drvFiles]
            /\ drvTaken' = [drvTaken EXCEPT ![s] = [saw |-> drvFiles, mock |-> TRUE]]
        BY <1>3, <3>1 DEF DrvCreateSnapshot, Called, Shown, DrvTypeOK
      <4> QED
        BY <2>1, <3>1, <4>1 DEF KeptAsTaken, DrvTypeOK
    <3>2. CASE ~drvMock
      <4>1. /\ drvMockStore' = drvMockStore
            /\ \/ drvTaken' = drvTaken
               \/ drvTaken' = [drvTaken EXCEPT ![s] = [saw |-> drvGuest, mock |-> FALSE]]
        BY <1>3, <3>2 DEF DrvCreateSnapshot, Shown, DrvTypeOK
      <4>2. drvDriver = "incus" =>
                \/ /\ drvTaken' = drvTaken /\ drvStore' = drvStore
                \/ /\ drvTaken' = drvTaken /\ drvStore[s] = NoValue
                   /\ drvStore' = [drvStore EXCEPT ![s] = drvGuest]
                \/ /\ drvTaken' = [drvTaken EXCEPT ![s] = [saw |-> drvGuest, mock |-> FALSE]]
                   /\ drvStore' = [drvStore EXCEPT ![s] = drvGuest]
        <5>1. /\ drvMockStore' = drvMockStore
              /\ \/ /\ UNCHANGED drvStore /\ drvCall'.raised = TRUE
                 \/ /\ drvStore[s] = NoValue /\ drvStore' = [drvStore EXCEPT ![s] = drvGuest]
                 \/ drvDriver # "incus"
          BY <1>3, <3>2 DEF DrvCreateSnapshot, Called
        <5>2. drvTaken' = drvTaken \/ ~drvCall'.raised
          BY <1>3 DEF DrvCreateSnapshot
        <5> QED
          BY <4>1, <5>1, <5>2 
      <4> QED
        BY <2>1, <3>2, <4>1, <4>2 DEF KeptAsTaken, DrvTypeOK
    <3> QED
      BY <3>1, <3>2 DEF DrvTypeOK
  <2>8. RevertRestores'
    BY <2>2 DEF RevertRestores
  <2> QED
    BY <2>2, <2>6, <2>7, <2>8
<1>4. ASSUME NEW s \in DrvSnap, DrvRevert(s) PROVE DrvInv'
  <2>1. UNCHANGED <<drvDriver, drvStore, drvMockStore, drvTaken, drvReady>>
    BY <1>4 DEF DrvRevert, MockRevert, IncusRevert, FirecrackerRevert, ProxmoxRevert
  <2>2. \E raised \in BOOLEAN : drvCall' = [op |-> "revert", on |-> s, raised |-> raised]
    BY <1>4 DEF DrvRevert, MockRevert, IncusRevert, FirecrackerRevert, ProxmoxRevert, Called
  <2>3. /\ drvMock' = drvMock \/ (drvMock' = TRUE /\ drvDriver = "firecracker")
        /\ drvGuest' \in {drvGuest, drvStore[s]} /\ drvFiles' \in {drvFiles, drvMockStore[s]}
    BY <1>4
    DEF DrvRevert, MockRevert, IncusRevert, FirecrackerRevert, ProxmoxRevert, DrvTypeOK
  <2>4. DrvTypeOK'
    <3>1. CallIsTyped'
      BY <2>2 DEF CallIsTyped
    <3>2. drvGuest' \in Content /\ drvFiles' \in Content
      BY <2>3 DEF DrvTypeOK
    <3>3. drvMock' \in BOOLEAN
      BY <2>3, Zenon DEF DrvTypeOK
    <3> QED
      BY <2>1, <3>1, <3>2, <3>3 DEF DrvTypeOK, CallIsTyped
  <2>5. KeptAsTaken'
    <3>1. (drvMock => drvMock') /\ (drvDriver = "incus" => drvMock' = drvMock)
      BY <2>3
    <3> QED
      BY <2>1, <3>1 DEF KeptAsTaken, DrvTypeOK
  <2>6. RevertRestores'
    <3>1. CASE drvMock
      BY <1>4, <2>1, <2>2, <3>1
      DEF DrvRevert, MockRevert, KeptAsTaken, RevertRestores, Checked, Shown
    <3>2. CASE ~drvMock /\ drvDriver = "incus"
      BY <1>4, <2>1, <2>2, <3>2
      DEF DrvRevert, IncusRevert, Called, KeptAsTaken, RevertRestores, Checked, Shown
    <3>3. CASE ~drvMock /\ drvDriver # "incus"
      BY <2>1, <2>2, <3>3 DEF KeptAsTaken, RevertRestores, Checked
    <3> QED
      BY <3>1, <3>2, <3>3
  <2> QED
    BY <2>2, <2>4, <2>5, <2>6
<1>5. CASE DrvCleanup
  <2>1. /\ UNCHANGED <<drvDriver, drvMock, drvFiles, drvMockStore>>
        /\ drvCall' = [op |-> "cleanup", on |-> NoValue, raised |-> FALSE]
        /\ \/ /\ drvGuest' = NoValue
              /\ drvStore' = [s \in DrvSnap |-> NoValue]
              /\ drvTaken' = [s \in DrvSnap |-> [saw |-> NoValue, mock |-> FALSE]]
           \/ UNCHANGED <<drvGuest, drvStore, drvTaken>>
        /\ drvReady' = FALSE
    BY <1>5 DEF DrvCleanup, Called
  <2>2. CallIsTyped' /\ drvCall'.op = "cleanup"
    BY <2>1 DEF CallIsTyped
  <2>3. DrvTypeOK'
    <3>1. drvTaken' \in [DrvSnap -> [saw : Content, mock : BOOLEAN]]
      <4>1. [saw |-> NoValue, mock |-> FALSE] \in [saw : Content, mock : BOOLEAN]
        BY DEF Content
      <4> QED
        BY <2>1, <4>1 DEF DrvTypeOK
    <3>2. drvStore' \in [DrvSnap -> Content] /\ drvGuest' \in Content
      BY <2>1 DEF DrvTypeOK, Content
    <3> QED
      BY <2>1, <2>2, <3>1, <3>2 DEF DrvTypeOK, CallIsTyped
  <2>4. KeptAsTaken'
    BY <2>1 DEF KeptAsTaken
  <2> QED
    BY <2>2, <2>3, <2>4 DEF RevertRestores
<1>6. CASE UNCHANGED drvVars
  BY <1>6 DEF drvVars, DrvTypeOK, KeptAsTaken, RevertRestores, Checked, Shown
<1> QED
  BY <1>1, <1>2, <1>3, <1>4, <1>5, <1>6 DEF DrvNext

\* A revert that did not raise brought back what its snapshot saw, of Incus and of a snapshot
\* taken and reverted in mock mode, whatever calls and failures came between.
THEOREM RevertsRestore == DrvSpec => []RevertRestores
<1>1. DrvInit => DrvInv
  <2> SUFFICES ASSUME DrvInit PROVE DrvInv
    OBVIOUS
  <2>1. drvMock \in BOOLEAN /\ (drvDriver = "incus" => ~drvMock)
    BY DEF DrvInit
  <2>2. drvCall.op = "none" /\ drvCall.on = NoValue /\ CallIsTyped
    BY DEF DrvInit, CallIsTyped
  <2>3. DrvTypeOK
    BY <2>1, <2>2 DEF DrvInit, DrvTypeOK, CallIsTyped, Content
  <2> QED
    BY <2>1, <2>2, <2>3 DEF DrvInit, DrvInv, KeptAsTaken, RevertRestores
<1>2. DrvInv /\ [DrvNext]_drvVars => DrvInv'
  BY DrvInvStep
<1>3. DrvInv => RevertRestores
  BY DEF DrvInv
<1> QED
  BY <1>1, <1>2, <1>3, PTL DEF DrvSpec

----------------------------------------------------------------------------
(* A hotpatch *)

\* What is settled at each step of a hotpatch.
HpInv ==
    /\ HpTypeOK
    /\ hpAt # "over" =>
           /\ ~hpResult.restore_success /\ ~hpResult.rolled_back /\ ~hpUndone
           /\ hpAt \in {"checkpoint", "patch"} => ~hpPatched
           /\ hpAt \in {"restore", "verify"} => hpPatched
           /\ hpAt # "checkpoint" => hpResult.dump_success
           /\ hpAt = "rollback" => hpGiven
    /\ PatchedIffRestored

\* Every stage of a hotpatch keeps the invariant.
LEMMA HpInvStep ==
    ASSUME HpInv, [HpNext]_hpVars
    PROVE  HpInv'
<1> USE DEF HpInv, HpTypeOK, PatchedIffRestored
<1>1. CASE checkpoint_process
  BY <1>1 DEF checkpoint_process
<1>2. CASE apply_patch
  BY <1>2 DEF apply_patch, AfterFailure
<1>3. CASE restore_process
  BY <1>3 DEF restore_process
<1>4. CASE validate_running
  <2>1. PICK seen \in BOOLEAN :
            /\ hpResult' = [hpResult EXCEPT !.restore_success = seen \/ hpExit]
            /\ hpAt' = IF seen \/ hpExit THEN "over" ELSE AfterFailure
    BY <1>4 DEF validate_running
  <2>2. /\ hpAt = "verify"
        /\ UNCHANGED <<hpGiven, hpAlive, hpPatched, hpDumped, hpExit, hpUndone>>
    BY <1>4 DEF validate_running
  <2>3. CASE seen \/ hpExit
    <3>1. hpResult' = [hpResult EXCEPT !.restore_success = TRUE] /\ hpAt' = "over"
      BY <2>1, <2>3
    <3> QED
      BY <2>2, <3>1
  <2>4. CASE ~(seen \/ hpExit)
    <3>1. hpResult' = [hpResult EXCEPT !.restore_success = FALSE] /\ hpAt' = AfterFailure
      BY <2>1, <2>4
    <3> QED
      BY <2>2, <3>1 DEF AfterFailure
  <2> QED
    BY <2>3, <2>4
<1>5. CASE fallback_rollback
  BY <1>5 DEF fallback_rollback
<1>6. CASE UNCHANGED hpVars
  BY <1>6 DEF hpVars
<1> QED
  BY <1>1, <1>2, <1>3, <1>4, <1>5, <1>6 DEF HpNext

\* However the dump, the patch, the restore and its check fail: a hotpatch reported as restored
\* left the patch in the guest, and any other, given a rollback command that took effect or
\* none to undo, left it out.
THEOREM HotpatchesEndWhole == HpSpec => []PatchedIffRestored
<1>1. HpInit => HpInv
  <2> SUFFICES ASSUME HpInit PROVE HpInv
    OBVIOUS
  <2>1. ~hpResult.restore_success /\ ~hpResult.rolled_back /\ ~hpUndone /\ ~hpPatched
    BY DEF HpInit
  <2>2. HpTypeOK
    BY DEF HpInit, HpTypeOK
  <2> QED
    BY <2>1, <2>2 DEF HpInit, HpInv, PatchedIffRestored
<1>2. HpInv /\ [HpNext]_hpVars => HpInv'
  BY HpInvStep
<1>3. HpInv => PatchedIffRestored
  BY DEF HpInv
<1> QED
  BY <1>1, <1>2, <1>3, PTL DEF HpSpec

----------------------------------------------------------------------------
(* The tools of the MCP server *)

\* The calls, each at an await of a tool.
McpCalls ==
    [McpCaller -> [tool : {"none", "create", "inject", "exec", "verify", "revert", "destroy"},
                   on : McpId \cup {McpNoId},
                   at : {"setup", "baseline", "prepare", "clean", "inject", "fault", "verify",
                         "execute", "restore", "delete", "returned"}]]

\* What a call relies on at its next await: a sandbox being made is its caller's alone,
\* one being deleted is no longer registered, and an injection follows a "snap-clean".
CallFits(c) ==
    LET i == McpOn(c)
    IN  IF McpIdleCaller(c) THEN i = McpNoId
        ELSE /\ i \in McpId
             /\ McpAt(c, "setup") <=> mcpHost[i] = "unused"
             /\ McpAt(c, "setup") \/ McpAt(c, "baseline") =>
                    i \notin mcpActive /\ \A d \in McpCaller \ {c} : McpOn(d) # i
             /\ McpAt(c, "baseline") => mcpHost[i] = "live" /\ mcpGuest[i] = "clean"
             /\ McpAt(c, "delete") => i \notin mcpActive
             /\ McpAt(c, "inject") \/ McpAt(c, "fault") =>
                    mcpHost[i] # "live" \/ mcpSnap[i]["snap-clean"] # "none"

\* Whatever brings a fault into a guest came after its "snap-clean".
FaultFollowsClean(i) ==
    /\ mcpHost[i] = "unused" =>
           mcpGuest[i] = "clean" /\ \A s \in McpSnapshot : mcpSnap[i][s] = "none"
    /\ mcpHost[i] = "live" /\ mcpSnap[i]["snap-clean"] = "none" =>
           mcpGuest[i] # "fault" /\ \A s \in McpSnapshot : mcpSnap[i][s] # "fault"

\* An instance that is not registered is some call's business.
Attended(i) ==
    mcpHost[i] = "live" =>
        \/ i \in mcpActive \cup mcpLost
        \/ \E c \in McpCaller : McpOn(c) = i /\ (McpAt(c, "baseline") \/ McpAt(c, "delete"))

\* The invariant of the server.
McpInv ==
    /\ McpTypeOK
    /\ \A c \in McpCaller : CallFits(c)
    /\ \A i \in McpId : FaultFollowsClean(i) /\ Attended(i)
    /\ CleanIsClean
    /\ RegisteredIsLive

\* A call that goes on to another await.
LEMMA McpGoesTo ==
    ASSUME McpTypeOK, NEW c \in McpCaller,
           NEW at \in {"clean", "inject", "fault", "verify", "baseline"}, McpGoTo(c, at)
    PROVE  /\ (mcpCall \in McpCalls)'
           /\ mcpCall'[c].at = at /\ mcpCall'[c].on = mcpCall[c].on
           /\ \A d \in McpCaller \ {c} : mcpCall'[d] = mcpCall[d]
  BY DEF McpTypeOK, McpGoTo, McpCalls

\* A call that returns.
LEMMA McpReturns ==
    ASSUME McpTypeOK, NEW c \in McpCaller, McpReturn(c)
    PROVE  /\ (mcpCall \in McpCalls)'
           /\ mcpCall'[c].at = "returned" /\ mcpCall'[c].on = McpNoId
           /\ \A d \in McpCaller \ {c} : mcpCall'[d] = mcpCall[d]
  BY DEF McpTypeOK, McpReturn, McpIdle, McpCalls

\* Every step of every tool keeps the invariant, whatever other calls do between its awaits.
LEMMA McpInvStep ==
    ASSUME McpInv, [McpNext]_mcpVars
    PROVE  McpInv'
<1> USE McpAssumption
    DEF McpInv, CallFits, McpIdleCaller, McpAt, McpOn, McpIdle, RegisteredIsLive
<1>1. ASSUME NEW c \in McpCaller, McpIdleCaller(c),
             UNCHANGED <<mcpHost, mcpGuest, mcpSnap, mcpLost>>,
             NEW tool \in {"inject", "exec", "verify", "revert", "destroy"},
             NEW at \in {"prepare", "execute", "verify", "restore", "delete"},
             NEW i \in mcpActive, McpBegin(c, tool, i, at),
             mcpActive' = IF at = "delete" THEN mcpActive \ {i} ELSE mcpActive
      PROVE  McpInv'
  <2>1. McpTypeOK'
    BY <1>1 DEF McpTypeOK, McpBegin
  <2>2. \A d \in McpCaller : CallFits(d)'
    BY <1>1 DEF McpTypeOK, McpBegin
  <2>3. \A j \in McpId : FaultFollowsClean(j)' /\ Attended(j)'
    BY <1>1 DEF McpTypeOK, McpBegin, FaultFollowsClean, Attended
  <2> QED
    BY <1>1, <2>1, <2>2, <2>3 DEF CleanIsClean
<1>2. ASSUME NEW c \in McpCaller, McpIdleCaller(c),
             UNCHANGED <<mcpActive, mcpHost, mcpGuest, mcpSnap, mcpLost>>,
             NEW i \in McpId, mcpHost[i] = "unused", \A d \in McpCaller : McpOn(d) # i,
             McpBegin(c, "create", i, "setup")
      PROVE  McpInv'
  <2>1. McpTypeOK'
    BY <1>2 DEF McpTypeOK, McpBegin
  <2>2. \A d \in McpCaller : CallFits(d)'
    BY <1>2 DEF McpTypeOK, McpBegin
  <2>3. \A j \in McpId : FaultFollowsClean(j)' /\ Attended(j)'
    BY <1>2 DEF McpTypeOK, McpBegin, FaultFollowsClean, Attended
  <2> QED
    BY <1>2, <2>1, <2>2, <2>3 DEF CleanIsClean
<1>3. ASSUME NEW c \in McpCaller, McpAt(c, "setup"),
             UNCHANGED <<mcpActive, mcpGuest, mcpSnap>>,
             \/ /\ mcpHost' = [mcpHost EXCEPT ![McpOn(c)] = "live"] /\ McpGoTo(c, "baseline")
                /\ UNCHANGED mcpLost
             \/ /\ mcpHost' \in {mcpHost, [mcpHost EXCEPT ![McpOn(c)] = "live"]}
                /\ McpReturn(c)
                /\ mcpLost' = mcpLost \cup {McpOn(c)}
      PROVE  McpInv'
  <2> DEFINE i == McpOn(c)
  <2>1. /\ i \in McpId /\ mcpHost[i] = "unused" /\ mcpGuest[i] = "clean" /\ i \notin mcpActive
        /\ \A d \in McpCaller \ {c} : McpOn(d) # i
        /\ \A s \in McpSnapshot : mcpSnap[i][s] = "none"
    BY <1>3 DEF FaultFollowsClean
  <2>2. CASE McpGoTo(c, "baseline")
    <3>1. /\ mcpHost' = [mcpHost EXCEPT ![i] = "live"] /\ UNCHANGED mcpLost
          /\ mcpCall'[c].at = "baseline" /\ mcpCall'[c].on = i
      BY <1>3, <2>2, McpGoesTo, McpReturns DEF McpTypeOK
    <3>2. /\ (mcpCall \in McpCalls)' /\ \A d \in McpCaller \ {c} : mcpCall'[d] = mcpCall[d]
      BY <2>2, McpGoesTo
    <3> HIDE DEF i
    <3>3. McpTypeOK'
      BY <1>3, <2>1, <3>1, <3>2 DEF McpTypeOK, McpCalls
    <3>4. \A d \in McpCaller : CallFits(d)'
      <4>1. CallFits(c)'
        <5>1. \A d \in McpCaller \ {c} : mcpCall'[d].on # i
          BY <2>1, <3>2
        <5>2. mcpHost'[i] = "live" /\ mcpGuest'[i] = "clean" /\ i \notin mcpActive'
          BY <1>3, <2>1, <3>1 DEF McpTypeOK
        <5> QED
          BY <2>1, <3>1, <5>1, <5>2
      <4>2. ASSUME NEW d \in McpCaller \ {c} PROVE CallFits(d)'
        <5>1. mcpCall'[d] = mcpCall[d] /\ mcpCall[d].on # i /\ mcpCall'[c].on \in {i, McpNoId}
          BY <2>1, <3>1, <3>2
        <5>2. ~McpIdleCaller(d) => /\ mcpCall[d].on \in McpId
                                    /\ mcpHost'[mcpCall[d].on] = mcpHost[mcpCall[d].on]
          BY <1>3, <2>1, <3>1, <5>1 DEF McpTypeOK
        <5> QED
          BY <1>3, <5>1, <5>2, <3>2
      <4> QED
        BY <4>1, <4>2
    <3>5. \A j \in McpId : FaultFollowsClean(j)' /\ Attended(j)'
      BY <1>3, <2>1, <3>1, <3>2 DEF McpTypeOK, FaultFollowsClean, Attended, McpSnapshot
    <3> QED
      BY <1>3, <2>1, <3>1, <3>3, <3>4, <3>5 DEF CleanIsClean, McpTypeOK
  <2>3. CASE McpReturn(c)
    <3>1. mcpHost' \in {mcpHost, [mcpHost EXCEPT ![i] = "live"]} /\ mcpLost' = mcpLost \cup {i}
      BY <1>3, <2>3, McpGoesTo, McpReturns DEF McpTypeOK
    <3>2. /\ mcpCall'[c].at = "returned" /\ mcpCall'[c].on = McpNoId
          /\ (mcpCall \in McpCalls)' /\ \A d \in McpCaller \ {c} : mcpCall'[d] = mcpCall[d]
      BY <2>3, McpReturns
    <3> HIDE DEF i
    <3>3. McpTypeOK'
      BY <1>3, <2>1, <3>1, <3>2 DEF McpTypeOK, McpCalls
    <3>4. \A d \in McpCaller : CallFits(d)'
      <4>1. CallFits(c)'
        BY <1>3, <2>1, <3>1, <3>2
      <4>2. ASSUME NEW d \in McpCaller \ {c} PROVE CallFits(d)'
        <5>1. mcpCall'[d] = mcpCall[d] /\ mcpCall[d].on # i /\ mcpCall'[c].on \in {i, McpNoId}
          BY <2>1, <3>1, <3>2
        <5>2. ~McpIdleCaller(d) => /\ mcpCall[d].on \in McpId
                                    /\ mcpHost'[mcpCall[d].on] = mcpHost[mcpCall[d].on]
          BY <1>3, <2>1, <3>1, <5>1 DEF McpTypeOK
        <5> QED
          BY <1>3, <5>1, <5>2, <3>2
      <4> QED
        BY <4>1, <4>2
    <3>5. \A j \in McpId : FaultFollowsClean(j)' /\ Attended(j)'
      BY <1>3, <2>1, <3>1, <3>2 DEF McpTypeOK, FaultFollowsClean, Attended, McpSnapshot
    <3> QED
      BY <1>3, <2>1, <3>1, <3>3, <3>4, <3>5 DEF CleanIsClean, McpTypeOK
  <2> QED
    BY <1>3, <2>2, <2>3
<1>4. ASSUME NEW c \in McpCaller, McpAt(c, "baseline"),
             UNCHANGED <<mcpHost, mcpGuest>>, McpReturn(c),
             \/ /\ mcpSnap' =
                       [mcpSnap EXCEPT ![McpOn(c)]["snap-baseline"] = mcpGuest[McpOn(c)]]
                /\ mcpActive' = mcpActive \cup {McpOn(c)}
                /\ UNCHANGED mcpLost
             \/ /\ mcpLost' = mcpLost \cup {McpOn(c)}
                /\ UNCHANGED <<mcpSnap, mcpActive>>
      PROVE  McpInv'
  <2> DEFINE i == McpOn(c)
  <2>1. /\ i \in McpId /\ mcpHost[i] = "live" /\ mcpGuest[i] = "clean" /\ i \notin mcpActive
        /\ \A d \in McpCaller \ {c} : McpOn(d) # i
    BY <1>4
  <2>2. /\ mcpCall'[c].at = "returned" /\ mcpCall'[c].on = McpNoId
        /\ (mcpCall \in McpCalls)' /\ \A d \in McpCaller \ {c} : mcpCall'[d] = mcpCall[d]
    BY <1>4, McpReturns
  <2>3. \/ /\ mcpSnap' = [mcpSnap EXCEPT ![i]["snap-baseline"] = "clean"]
           /\ mcpActive' = mcpActive \cup {i} /\ mcpLost' = mcpLost
        \/ mcpLost' = mcpLost \cup {i} /\ UNCHANGED <<mcpSnap, mcpActive>>
    BY <1>4, <2>1
  <2> HIDE DEF i
  <2>4. mcpSnap' \in [McpId -> [McpSnapshot -> McpContent \cup {"none"}]]
    BY <2>1, <2>3, SMTT(30) DEF McpTypeOK, McpSnapshot, McpContent
  <2>5. McpTypeOK'
    BY <1>4, <2>1, <2>2, <2>3, <2>4 DEF McpTypeOK, McpCalls
  <2>6. \A j \in McpId : mcpSnap'[j]["snap-clean"] = mcpSnap[j]["snap-clean"]
                         /\ \A s \in McpSnapshot :
                                j # i \/ s # "snap-baseline" => mcpSnap'[j][s] = mcpSnap[j][s]
    BY <2>1, <2>3 DEF McpTypeOK, McpSnapshot
  <2>7. mcpSnap'[i]["snap-baseline"] \in {"clean", mcpSnap[i]["snap-baseline"]}
    BY <2>1, <2>3 DEF McpTypeOK, McpSnapshot
  <2>8. \A d \in McpCaller : CallFits(d)'
    BY <1>4, <2>1, <2>2, <2>3, <2>6 DEF i
  <2>9. \A j \in McpId : FaultFollowsClean(j)' /\ Attended(j)'
    BY <1>4, <2>1, <2>2, <2>3, <2>6, <2>7 DEF FaultFollowsClean, Attended, McpSnapshot
  <2>10. CleanIsClean'
    BY <2>1, <2>6, <2>7 DEF CleanIsClean, McpSnapshot
  <2> QED
    BY <1>4, <2>1, <2>3, <2>5, <2>8, <2>9, <2>10
\* prepare, inject, execute and restore: the guest changes.
<1>5. ASSUME NEW c \in McpCaller, UNCHANGED <<mcpActive, mcpHost, mcpSnap, mcpLost>>,
             \/ McpAt(c, "prepare") /\ McpGoTo(c, "clean")
             \/ McpAt(c, "inject") /\ McpGoTo(c, "fault")
             \/ /\ McpAt(c, "execute") \/ McpAt(c, "restore") \/ McpAt(c, "verify")
                /\ McpReturn(c),
             NEW content \in McpContent,
             \/ UNCHANGED mcpGuest
             \/ mcpGuest' = [mcpGuest EXCEPT ![McpOn(c)] = content],
             mcpHost[McpOn(c)] = "live" /\ content = "fault" =>
                 mcpSnap[McpOn(c)]["snap-clean"] # "none"
      PROVE  McpInv'
  <2> DEFINE i == McpOn(c)
  <2>1. /\ i \in McpId /\ mcpHost[i] # "unused"
        /\ mcpCall[c].at \notin {"setup", "baseline", "delete"}
        /\ \A d \in McpCaller : McpOn(d) = i => mcpCall[d].at \notin {"setup", "baseline"}
    <3>1. mcpCall[c].at \in {"prepare", "inject", "execute", "restore", "verify"}
      BY <1>5
    <3> QED
      BY <3>1
  <2>2. /\ \/ mcpCall'[c].at = "returned" /\ mcpCall'[c].on = McpNoId
           \/ mcpCall'[c].at = "clean" /\ mcpCall'[c].on = i
           \/ mcpCall'[c].at = "fault" /\ mcpCall'[c].on = i /\ mcpCall[c].at = "inject"
        /\ (mcpCall \in McpCalls)' /\ \A d \in McpCaller \ {c} : mcpCall'[d] = mcpCall[d]
    BY <1>5, McpReturns, McpGoesTo
  <2>3. mcpGuest' \in {mcpGuest, [mcpGuest EXCEPT ![i] = content]}
    BY <1>5
  <2> HIDE DEF i
  <2>4. McpTypeOK'
    BY <1>5, <2>1, <2>2, <2>3 DEF McpTypeOK, McpCalls
  <2>5. \A d \in McpCaller : CallFits(d)'
    BY <1>5, <2>1, <2>2, <2>3 DEF McpTypeOK, i
  <2>6. \A j \in McpId : FaultFollowsClean(j)' /\ Attended(j)'
    BY <1>5, <2>1, <2>2, <2>3, SMTT(30) DEF McpTypeOK, FaultFollowsClean, Attended, i
  <2> QED
    BY <1>5, <2>4, <2>5, <2>6 DEF CleanIsClean
<1>6. ASSUME NEW c \in McpCaller, UNCHANGED <<mcpActive, mcpHost, mcpGuest, mcpLost>>,
             \/ McpAt(c, "clean") /\ McpTakeSnapshot(c, "snap-clean", "inject")
             \/ McpAt(c, "fault") /\ McpTakeSnapshot(c, "snap-fault-injected", "verify")
      PROVE  McpInv'
  <2> DEFINE i == McpOn(c)
  <2>1. /\ i \in McpId /\ mcpHost[i] # "unused" /\ mcpCall[c].at \in {"clean", "fault"}
    BY <1>6
  <2>2. CASE McpReturn(c) /\ UNCHANGED mcpSnap
    <3>1. /\ mcpCall'[c].at = "returned" /\ mcpCall'[c].on = McpNoId
          /\ (mcpCall \in McpCalls)' /\ \A d \in McpCaller \ {c} : mcpCall'[d] = mcpCall[d]
      BY <2>2, McpReturns
    <3> HIDE DEF i
    <3>2. McpTypeOK'
      BY <1>6, <2>2, <3>1 DEF McpTypeOK, McpCalls
    <3>3. \A d \in McpCaller : CallFits(d)'
      BY <1>6, <2>2, <3>1
    <3>4. \A j \in McpId : FaultFollowsClean(j)' /\ Attended(j)'
      BY <1>6, <2>1, <2>2, <3>1 DEF FaultFollowsClean, Attended
    <3> QED
      BY <1>6, <2>2, <3>2, <3>3, <3>4 DEF CleanIsClean
  <2>3. ASSUME NEW s \in {"snap-clean", "snap-fault-injected"},
               NEW then \in {"inject", "verify"}, McpGoTo(c, then),
               then = "inject" => s = "snap-clean",
               s = "snap-fault-injected" => mcpCall[c].at = "fault",
               mcpHost[i] = "live", mcpSnap[i][s] = "none",
               mcpSnap' = [mcpSnap EXCEPT ![i][s] = mcpGuest[i]]
        PROVE  McpInv'
    <3>1. /\ mcpCall'[c].at = then /\ mcpCall'[c].on = i
          /\ (mcpCall \in McpCalls)' /\ \A d \in McpCaller \ {c} : mcpCall'[d] = mcpCall[d]
      BY <2>3, McpGoesTo
    <3>2. mcpGuest[i] \in {"clean", "fault"} /\ (s = "snap-clean" => mcpGuest[i] = "clean")
      BY <2>1, <2>3 DEF McpTypeOK, McpContent, FaultFollowsClean
    <3>3. s = "snap-fault-injected" => mcpSnap[i]["snap-clean"] # "none"
      BY <2>1, <2>3
    <3> HIDE DEF i
    <3>4. mcpSnap' \in [McpId -> [McpSnapshot -> McpContent \cup {"none"}]]
      BY <2>1, <2>3, <3>2 DEF McpTypeOK, McpSnapshot, McpContent
    <3>5. /\ mcpSnap'[i][s] = mcpGuest[i]
          /\ \A j \in McpId : \A t \in McpSnapshot :
                 j # i \/ t # s => mcpSnap'[j][t] = mcpSnap[j][t]
      BY <2>1, <2>3 DEF McpTypeOK, McpSnapshot
    <3>6. \A j \in McpId :
              mcpSnap[j]["snap-clean"] # "none" => mcpSnap'[j]["snap-clean"] # "none"
      BY <3>2, <3>5 DEF McpSnapshot
    <3>7. mcpSnap'[i]["snap-clean"] # "none"
      BY <2>1, <3>2, <3>3, <3>5, <3>6 DEF McpSnapshot
    <3>8. McpTypeOK'
      BY <1>6, <3>1, <3>4 DEF McpTypeOK, McpCalls
    <3>9. \A d \in McpCaller : CallFits(d)'
      BY <1>6, <2>1, <2>3, <3>1, <3>6, <3>7 DEF i
    <3>10. \A j \in McpId : FaultFollowsClean(j)' /\ Attended(j)'
      BY <1>6, <2>1, <2>3, <3>1, <3>5, <3>6, <3>7 DEF FaultFollowsClean, Attended, McpSnapshot
    <3>11. CleanIsClean'
      BY <3>2, <3>5 DEF CleanIsClean, McpSnapshot
    <3> QED
      BY <1>6, <3>8, <3>9, <3>10, <3>11
  <2> QED
    BY <1>6, <2>2, <2>3 DEF McpTakeSnapshot
<1>7. ASSUME NEW c \in McpCaller, McpAt(c, "delete"),
             UNCHANGED <<mcpActive, mcpGuest>>, McpReturn(c),
             \/ /\ mcpHost' = [mcpHost EXCEPT ![McpOn(c)] = "deleted"]
                /\ mcpSnap' = [mcpSnap EXCEPT ![McpOn(c)] = [s \in McpSnapshot |-> "none"]]
                /\ UNCHANGED mcpLost
             \/ /\ mcpLost' = mcpLost \cup {McpOn(c)}
                /\ UNCHANGED <<mcpHost, mcpSnap>>
      PROVE  McpInv'
  <2> DEFINE i == McpOn(c)
  <2>1. /\ i \in McpId /\ mcpHost[i] # "unused" /\ i \notin mcpActive
        /\ \A d \in McpCaller : McpOn(d) = i => mcpCall[d].at \notin {"setup", "baseline"}
    BY <1>7
  <2>2. /\ mcpCall'[c].at = "returned" /\ mcpCall'[c].on = McpNoId
        /\ (mcpCall \in McpCalls)' /\ \A d \in McpCaller \ {c} : mcpCall'[d] = mcpCall[d]
    BY <1>7, McpReturns
  <2>3. \/ /\ mcpHost' = [mcpHost EXCEPT ![i] = "deleted"] /\ UNCHANGED mcpLost
           /\ mcpSnap' = [mcpSnap EXCEPT ![i] = [s \in McpSnapshot |-> "none"]]
        \/ mcpLost' = mcpLost \cup {i} /\ UNCHANGED <<mcpHost, mcpSnap>>
    BY <1>7
  <2> HIDE DEF i
  <2>4. McpTypeOK'
    <3>1. mcpSnap' \in [McpId -> [McpSnapshot -> McpContent \cup {"none"}]]
      BY <2>1, <2>3, SMTT(30) DEF McpTypeOK
    <3>2. mcpHost' \in [McpId -> {"unused", "live", "deleted"}] /\ mcpLost' \subseteq McpId
      BY <2>1, <2>3, ZenonT(30) DEF McpTypeOK
    <3> QED
      BY <1>7, <2>2, <3>1, <3>2 DEF McpTypeOK, McpCalls
  <2>5. \A d \in McpCaller : CallFits(d)'
    BY <1>7, <2>1, <2>2, <2>3 DEF McpTypeOK, McpSnapshot
  <2>6. \A j \in McpId : FaultFollowsClean(j)' /\ Attended(j)'
    BY <1>7, <2>1, <2>2, <2>3 DEF McpTypeOK, FaultFollowsClean, Attended, i
  <2>7. CleanIsClean'
    BY <2>1, <2>3 DEF CleanIsClean, McpTypeOK, McpSnapshot
  <2> QED
    BY <1>7, <2>1, <2>3, <2>4, <2>5, <2>6, <2>7 DEF McpTypeOK
<1>8. CASE UNCHANGED mcpVars
  BY <1>8 DEF mcpVars, McpTypeOK, FaultFollowsClean, Attended, CleanIsClean
<1> USE DEF McpContent
<1>9. ASSUME NEW c \in McpCaller, tool_create_sandbox(c), UNCHANGED mcpGuest PROVE McpInv'
  BY <1>2, <1>3, <1>4, <1>9 DEF tool_create_sandbox
<1>10. ASSUME NEW c \in McpCaller, tool_inject_fault(c) PROVE McpInv'
  BY <1>1, <1>5, <1>6, <1>10 DEF tool_inject_fault, McpUse
<1>11. ASSUME NEW c \in McpCaller, tool_exec_command(c) \/ tool_verify_fix(c) PROVE McpInv'
  BY <1>1, <1>5, <1>11 DEF tool_exec_command, tool_verify_fix, McpUse
<1>12. ASSUME NEW c \in McpCaller, tool_revert_sandbox(c) PROVE McpInv'
  <2>1. CASE McpUse(c, "revert", "restore")
    BY <1>1, <2>1 DEF McpUse
  <2>2. CASE McpAt(c, "restore")
    <3> DEFINE i == McpOn(c)
    <3>1. i \in McpId /\ mcpHost[i] # "unused"
      BY <2>2
    <3>2. /\ UNCHANGED <<mcpActive, mcpHost, mcpSnap, mcpLost>> /\ McpReturn(c)
          /\ \/ UNCHANGED mcpGuest
             \/ \E s \in McpSnapshot : /\ mcpHost[i] = "live" /\ mcpSnap[i][s] # "none"
                                        /\ mcpGuest' = [mcpGuest EXCEPT ![i] = mcpSnap[i][s]]
      BY <1>12, <2>2 DEF tool_revert_sandbox, McpUse
    <3>3. CASE UNCHANGED mcpGuest
      BY <1>5, <2>2, <3>2, <3>3
    <3>4. ASSUME NEW s \in McpSnapshot, mcpHost[i] = "live", mcpSnap[i][s] # "none",
                 mcpGuest' = [mcpGuest EXCEPT ![i] = mcpSnap[i][s]]
          PROVE  McpInv'
      <4>1. mcpSnap[i][s] \in McpContent
        BY <3>1, <3>4 DEF McpTypeOK
      <4>2. mcpSnap[i][s] = "fault" => mcpSnap[i]["snap-clean"] # "none"
        BY <3>1, <3>4 DEF FaultFollowsClean
      <4> QED
        BY <1>5, <2>2, <3>2, <3>4, <4>1, <4>2
    <3> QED
      BY <3>2, <3>3, <3>4
  <2> QED
    BY <1>12, <2>1, <2>2 DEF tool_revert_sandbox
<1>13. ASSUME NEW c \in McpCaller, tool_destroy_sandbox(c), UNCHANGED mcpGuest PROVE McpInv'
  BY <1>1, <1>7, <1>13 DEF tool_destroy_sandbox, McpPop
<1> QED
  BY <1>8, <1>9, <1>10, <1>11, <1>12, <1>13 DEF McpNext

\* However many tool calls interleave: a sandbox's clean snapshots hold no injected fault, a
\* registered sandbox exists, and an instance on the host is registered, or some call is
\* making or deleting it, or the call that did has failed.
THEOREM ToolsAreSound == McpSpec => []McpSound
<1>1. McpInit => McpInv
  BY McpAssumption
  DEF McpInit, McpInv, McpTypeOK, CallFits, McpIdleCaller, McpAt, McpOn, McpIdle, McpContent,
      RegisteredIsLive, FaultFollowsClean, Attended, CleanIsClean, McpSnapshot
<1>2. McpInv /\ [McpNext]_mcpVars => McpInv'
  BY McpInvStep
<1>3. McpInv => McpSound
  BY DEF McpInv, McpSound, Attended, NothingForgotten
<1> QED
  BY <1>1, <1>2, <1>3, PTL DEF McpSpec
============================================================================
