----------------------------- MODULE MCComponents ----------------------------
(***************************************************************************)
(* Nine parts of the program that share no state with one another,         *)
(* checked by one run: the part examined is chosen at the start, and the   *)
(* others stay as one of their initial states has them.                    *)
(***************************************************************************)
EXTENDS SandboxCommands, CanaryVerdicts, SandboxDrivers, Hotpatch, McpServer, CrossHost,
        ContinuousLoop, FormalVerifier, PolicyDialogue, TLC

VARIABLE part

vars == <<part, cmdVars, canVars, drvVars, hpVars, mcpVars, chVars, loopVars, fvVars, dlgVars>>

Init ==
    /\ part \in {"commands", "canaries", "drivers", "hotpatch", "mcp", "cross_host", "loop",
                 "verifier", "dialogue"}
    /\ CmdInit /\ (part # "commands" => cmdOf = [p \in CmdProc |-> "swarm"])
    /\ CanInit /\ (part # "canaries" => canKind = CHOOSE k \in Experiment : TRUE)
    /\ DrvInit /\ (part # "drivers" => drvDriver = "incus")
    /\ HpInit /\ (part # "hotpatch" => ~hpGiven /\ ~hpAlive)
    /\ McpInit
    /\ ChInit /\ (part # "cross_host" =>
           chEngineOf = [s \in ChSession |-> CHOOSE e \in ChEngine : TRUE])
    /\ LoopInit /\ (part # "loop" => ~loopDry /\ ~loopGrpo /\ loopFirst = 0)
    /\ FvInit /\ (part # "verifier" => fvZ3 /\ fvDomains = {})
    /\ DlgInit /\ (part # "dialogue" =>
           /\ ~dlgMock
           /\ dlgRetries = CHOOSE r \in DlgRetries : TRUE
           /\ dlgOf = CHOOSE s \in DlgScenario : TRUE)

Next ==
    /\ UNCHANGED part
    /\ \/ /\ part = "commands" /\ CmdNext
          /\ UNCHANGED <<canVars, drvVars, hpVars, mcpVars, chVars, loopVars, fvVars, dlgVars>>
       \/ /\ part = "canaries" /\ CanNext
          /\ UNCHANGED <<cmdVars, drvVars, hpVars, mcpVars, chVars, loopVars, fvVars, dlgVars>>
       \/ /\ part = "drivers" /\ DrvNext
          /\ UNCHANGED <<cmdVars, canVars, hpVars, mcpVars, chVars, loopVars, fvVars, dlgVars>>
       \/ /\ part = "hotpatch" /\ HpNext
          /\ UNCHANGED <<cmdVars, canVars, drvVars, mcpVars, chVars, loopVars, fvVars, dlgVars>>
       \/ /\ part = "mcp" /\ McpNext
          /\ UNCHANGED <<cmdVars, canVars, drvVars, hpVars, chVars, loopVars, fvVars, dlgVars>>
       \/ /\ part = "cross_host" /\ ChNext
          /\ UNCHANGED <<cmdVars, canVars, drvVars, hpVars, mcpVars, loopVars, fvVars, dlgVars>>
       \/ /\ part = "loop" /\ LoopNext
          /\ UNCHANGED <<cmdVars, canVars, drvVars, hpVars, mcpVars, chVars, fvVars, dlgVars>>
       \/ /\ part = "verifier" /\ FvNext
          /\ UNCHANGED <<cmdVars, canVars, drvVars, hpVars, mcpVars, chVars, loopVars, dlgVars>>
       \/ /\ part = "dialogue" /\ DlgNext
          /\ UNCHANGED <<cmdVars, canVars, drvVars, hpVars, mcpVars, chVars, loopVars, fvVars>>

Spec == Init /\ [][Next]_vars

\* Invocations that have made no choice yet are interchangeable.
InvocationSymmetry == Permutations(CmdProc)

=============================================================================
