------------------------------ MODULE McpServer ------------------------------
(***************************************************************************)
(* mcp_server/server.py: the tools an external agent calls, concurrently,  *)
(* on the sandboxes of one registry.                                       *)
(*                                                                         *)
(* A tool looks the registry up and then awaits its sandbox several times; *)
(* between any two awaits other calls run.  A guest is clean or carries an *)
(* injected fault.  Snapshots belong to an instance, and Incus refuses a   *)
(* name that is taken; restoring one keeps the others (on a ZFS pool Incus *)
(* refuses to restore any but the latest, which is the failed outcome).    *)
(***************************************************************************)
EXTENDS Naturals

CONSTANTS
    McpCaller,      \* concurrent calls
    McpId           \* instance ids: uuids, each given out once

McpNoId == "no instance"
ASSUME McpAssumption == McpNoId \notin McpId

McpSnapshot == {"snap-baseline", "snap-clean", "snap-fault-injected"}
McpContent == {"clean", "fault"}

VARIABLES
    mcpActive,      \* ACTIVE_SANDBOXES
    mcpHost,        \* each instance on the host
    mcpGuest,       \* what is in it
    mcpSnap,        \* its snapshots
    mcpCall,        \* each call: its tool, its instance, the next await
    mcpLost         \* history: instances whose creation raised or whose deletion failed

mcpVars == <<mcpActive, mcpHost, mcpGuest, mcpSnap, mcpCall, mcpLost>>

McpIdle == [tool |-> "none", on |-> McpNoId, at |-> "returned"]

McpTypeOK ==
    /\ mcpActive \subseteq McpId /\ mcpLost \subseteq McpId
    /\ mcpHost \in [McpId -> {"unused", "live", "deleted"}]
    /\ mcpGuest \in [McpId -> McpContent]
    /\ mcpSnap \in [McpId -> [McpSnapshot -> McpContent \cup {"none"}]]
    /\ mcpCall \in [McpCaller ->
           [tool : {"none", "create", "inject", "exec", "verify", "revert", "destroy"},
            on : McpId \cup {McpNoId},
            at : {"setup", "baseline", "prepare", "clean", "inject", "fault", "verify",
                  "execute", "restore", "delete", "returned"}]]

McpInit ==
    /\ mcpActive = {} /\ mcpLost = {}
    /\ mcpHost = [i \in McpId |-> "unused"]
    /\ mcpGuest = [i \in McpId |-> "clean"]
    /\ mcpSnap = [i \in McpId |-> [s \in McpSnapshot |-> "none"]]
    /\ mcpCall = [c \in McpCaller |-> McpIdle]

----------------------------------------------------------------------------
(* Calls *)

McpIdleCaller(c) == mcpCall[c].at = "returned"
McpAt(c, at) == mcpCall[c].at = at
McpOn(c) == mcpCall[c].on
McpGoTo(c, at) == mcpCall' = [mcpCall EXCEPT ![c].at = at]
McpReturn(c) == mcpCall' = [mcpCall EXCEPT ![c] = McpIdle]
McpBegin(c, tool, i, at) == mcpCall' = [mcpCall EXCEPT ![c] = [tool |-> tool, on |-> i, at |-> at]]

\* A call of a tool on a registered sandbox; on any other id it only answers an error.
McpUse(c, tool, at) ==
    /\ McpIdleCaller(c)
    /\ \E i \in mcpActive : McpBegin(c, tool, i, at)
    /\ UNCHANGED <<mcpActive, mcpHost, mcpGuest, mcpSnap, mcpLost>>

\* sandbox.create_snapshot(s), then the next await; or it raises, out of the tool.
FaultyTakeSnapshot(c, s, then) ==
    LET i == McpOn(c)
    IN  \/ /\ mcpHost[i] = "live"
           /\ mcpSnap' = [mcpSnap EXCEPT ![i][s] = mcpGuest[i]]
           /\ McpGoTo(c, then)
        \/ /\ McpReturn(c)
           /\ UNCHANGED mcpSnap
McpTakeSnapshot(c, s, then) ==
    LET i == McpOn(c)
    IN  \/ /\ mcpHost[i] = "live" /\ mcpSnap[i][s] = "none"
           /\ mcpSnap' = [mcpSnap EXCEPT ![i][s] = mcpGuest[i]]
           /\ McpGoTo(c, then)
        \/ /\ McpReturn(c)
           /\ UNCHANGED mcpSnap

----------------------------------------------------------------------------
(* The tools *)

tool_create_sandbox(c) ==
    \/ /\ McpIdleCaller(c)
       /\ \E i \in McpId :
              /\ mcpHost[i] = "unused" /\ \A d \in McpCaller : McpOn(d) # i
              /\ i \notin mcpLost
              /\ McpBegin(c, "create", i, "setup")
       /\ UNCHANGED <<mcpActive, mcpHost, mcpSnap, mcpLost>>
    \/ /\ McpAt(c, "setup")
       /\ \/ mcpHost' = [mcpHost EXCEPT ![McpOn(c)] = "live"] /\ McpGoTo(c, "baseline")
             /\ UNCHANGED mcpLost
          \/ mcpHost' \in {mcpHost, [mcpHost EXCEPT ![McpOn(c)] = "live"]} /\ McpReturn(c)
             /\ mcpLost' = mcpLost \cup {McpOn(c)}
       /\ UNCHANGED <<mcpActive, mcpSnap>>
    \/ /\ McpAt(c, "baseline")
       /\ LET i == McpOn(c)
          IN  \/ /\ mcpSnap' = [mcpSnap EXCEPT ![i]["snap-baseline"] = mcpGuest[i]]
                 /\ mcpActive' = mcpActive \cup {i}
                 /\ UNCHANGED mcpLost
              \/ /\ mcpLost' = mcpLost \cup {i}
                 /\ UNCHANGED <<mcpSnap, mcpActive>>
       /\ McpReturn(c)
       /\ UNCHANGED mcpHost

\* The commands of a scenario may fail unnoticed.
tool_inject_fault(c) ==
    \/ McpUse(c, "inject", "prepare")
    \/ /\ McpAt(c, "prepare")
       /\ mcpGuest' \in {mcpGuest, [mcpGuest EXCEPT ![McpOn(c)] = "clean"]}
       /\ McpGoTo(c, "clean")
       /\ UNCHANGED <<mcpActive, mcpHost, mcpSnap, mcpLost>>
    \/ /\ McpAt(c, "clean")
       /\ McpTakeSnapshot(c, "snap-clean", "inject")
       /\ UNCHANGED <<mcpActive, mcpHost, mcpGuest, mcpLost>>
    \/ /\ McpAt(c, "inject")
       /\ mcpGuest' \in {mcpGuest, [mcpGuest EXCEPT ![McpOn(c)] = "fault"]}
       /\ McpGoTo(c, "fault")
       /\ UNCHANGED <<mcpActive, mcpHost, mcpSnap, mcpLost>>
    \/ /\ McpAt(c, "fault")
       /\ McpTakeSnapshot(c, "snap-fault-injected", "verify")
       /\ UNCHANGED <<mcpActive, mcpHost, mcpGuest, mcpLost>>

\* The agent's command; it may repair the fault.
tool_exec_command(c) ==
    \/ McpUse(c, "exec", "execute")
    \/ /\ McpAt(c, "execute")
       /\ mcpGuest' \in {mcpGuest, [mcpGuest EXCEPT ![McpOn(c)] = "clean"]}
       /\ McpReturn(c)
       /\ UNCHANGED <<mcpActive, mcpHost, mcpSnap, mcpLost>>

\* Also the last await of inject_fault.
tool_verify_fix(c) ==
    \/ McpUse(c, "verify", "verify")
    \/ /\ McpAt(c, "verify")
       /\ McpReturn(c)
       /\ UNCHANGED <<mcpActive, mcpHost, mcpGuest, mcpSnap, mcpLost>>

tool_revert_sandbox(c) ==
    \/ McpUse(c, "revert", "restore")
    \/ /\ McpAt(c, "restore")
       /\ LET i == McpOn(c)
          IN  mcpGuest' \in {mcpGuest} \cup
                  {[mcpGuest EXCEPT ![i] = mcpSnap[i][s]] :
                      s \in {t \in McpSnapshot : mcpHost[i] = "live" /\ mcpSnap[i][t] # "none"}}
       /\ McpReturn(c)
       /\ UNCHANGED <<mcpActive, mcpHost, mcpSnap, mcpLost>>

\* The sandbox leaves the registry before its deletion is awaited; "DESTROYED" is answered
\* whether or not the instance is gone.
McpPop(c) ==
    /\ McpIdleCaller(c)
    /\ \E i \in mcpActive :
           /\ McpBegin(c, "destroy", i, "delete")
           /\ mcpActive' = mcpActive \ {i}
tool_destroy_sandbox(c) ==
    \/ McpPop(c) /\ UNCHANGED <<mcpHost, mcpSnap, mcpLost>>
    \/ /\ McpAt(c, "delete")
       /\ \/ /\ mcpHost' = [mcpHost EXCEPT ![McpOn(c)] = "deleted"]
             /\ mcpSnap' = [mcpSnap EXCEPT ![McpOn(c)] = [s \in McpSnapshot |-> "none"]]
             /\ UNCHANGED mcpLost
          \/ /\ mcpLost' = mcpLost \cup {McpOn(c)}
             /\ UNCHANGED <<mcpHost, mcpSnap>>
       /\ McpReturn(c)
       /\ UNCHANGED mcpActive

McpNext ==
    \E c \in McpCaller :
        \/ tool_create_sandbox(c) /\ UNCHANGED mcpGuest
        \/ tool_inject_fault(c)
        \/ tool_exec_command(c)
        \/ tool_verify_fix(c)
        \/ tool_revert_sandbox(c)
        \/ tool_destroy_sandbox(c) /\ UNCHANGED mcpGuest

McpSpec == McpInit /\ [][McpNext]_mcpVars

----------------------------------------------------------------------------
(* Correctness *)

\* However many calls inject, repair, revert and destroy at once, "snap-clean" of a sandbox
\* never holds an injected fault: a revert to it is a revert to a working system
\* (server.py:97-102).
CleanIsClean ==
    \A i \in McpId :
        /\ mcpSnap[i]["snap-clean"] # "fault"
        /\ mcpSnap[i]["snap-baseline"] # "fault"

\* Every instance on the host is in the registry, or some call is making or deleting it, or
\* its creation raised or its deletion failed: no interleaving of calls makes the server
\* forget one it still has (server.py:65-68, 196-213).
NothingForgotten ==
    \A i \in McpId :
        mcpHost[i] = "live" =>
            i \in mcpActive \cup mcpLost \cup {McpOn(c) : c \in McpCaller}

\* A registered sandbox exists, so that a call never starts on one that is gone.
RegisteredIsLive == \A i \in mcpActive : mcpHost[i] = "live"

McpSound == CleanIsClean /\ NothingForgotten /\ RegisteredIsLive

=============================================================================
