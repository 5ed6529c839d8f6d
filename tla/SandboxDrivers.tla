--------------------------- MODULE SandboxDrivers ----------------------------
(***************************************************************************)
(* The drivers behind sandbox/base.py, as create_sandbox makes them:       *)
(* sandbox/incus_sandbox.py, drivers/firecracker_sandbox.py and            *)
(* drivers/proxmox_sandbox.py.  One sandbox, its operations called one     *)
(* after the other.                                                        *)
(*                                                                         *)
(* The guest is one value.  A driver in mock mode keeps it, and its        *)
(* snapshots, in dictionaries of its own; both remote drivers fall into    *)
(* mock mode when a setup fails, and stay there.  Whether a request that   *)
(* the drivers do not check had its effect is left open.                   *)
(***************************************************************************)
EXTENDS Naturals

CONSTANTS
    Driver,         \* the drivers considered
    DrvValue,       \* what a guest can be changed to
    DrvSnap         \* snapshot names

Fresh == "fresh"    \* a guest as setup makes it
NoValue == "none"

ASSUME DriverAssumption ==
    /\ Driver \subseteq {"incus", "firecracker", "proxmox"}
    /\ {Fresh, NoValue} \cap DrvValue = {}

VARIABLES
    drvDriver,      \* the driver of this sandbox
    drvMock,        \* mock_mode
    drvReady,       \* setup has returned
    drvGuest,       \* the real guest
    drvStore,       \* its snapshots on the host
    drvFiles,       \* _files
    drvMockStore,   \* _snapshots of the mock mode
    drvCall,        \* the last operation: its name, its snapshot, whether it raised
    drvTaken        \* history: what each snapshot saw when it was taken, and in which mode

drvVars == <<drvDriver, drvMock, drvReady, drvGuest, drvStore, drvFiles, drvMockStore,
             drvCall, drvTaken>>

Content == DrvValue \cup {Fresh, NoValue}

DrvTypeOK ==
    /\ drvDriver \in Driver /\ drvMock \in BOOLEAN /\ drvReady \in BOOLEAN
    /\ drvGuest \in Content /\ drvFiles \in Content
    /\ drvStore \in [DrvSnap -> Content] /\ drvMockStore \in [DrvSnap -> Content]
    /\ drvCall \in [op : {"none", "setup", "execute", "create_snapshot", "revert", "cleanup"},
                    on : DrvSnap \cup {NoValue}, raised : BOOLEAN]
    /\ drvTaken \in [DrvSnap -> [saw : Content, mock : BOOLEAN]]

DrvInit ==
    /\ drvDriver \in Driver
    /\ drvMock \in IF drvDriver = "incus" THEN {FALSE} ELSE BOOLEAN
    /\ drvReady = FALSE
    /\ drvGuest = NoValue /\ drvFiles = NoValue
    /\ drvStore = [s \in DrvSnap |-> NoValue]
    /\ drvMockStore = [s \in DrvSnap |-> NoValue]
    /\ drvCall = [op |-> "none", on |-> NoValue, raised |-> FALSE]
    /\ drvTaken = [s \in DrvSnap |-> [saw |-> NoValue, mock |-> FALSE]]

Called(op, s, raised) == drvCall' = [op |-> op, on |-> s, raised |-> raised]

\* What the callers see of the guest.
Shown == IF drvMock THEN drvFiles ELSE drvGuest

----------------------------------------------------------------------------
(* setup *)

\* Incus raises when the launch or the agent fails; the others fall back to mock mode,
\* without the files a sandbox that was made in mock mode starts with.  Without a kernel
\* image Firecracker makes those files and leaves mock_mode as it is: there is no guest.
DrvSetup ==
    /\ ~drvReady
    /\ \/ /\ drvMock
          /\ drvFiles' = Fresh
          /\ drvReady' = TRUE /\ Called("setup", NoValue, FALSE)
          /\ UNCHANGED <<drvMock, drvGuest>>
       \/ /\ ~drvMock
          /\ drvDriver = "incus" => drvGuest = NoValue
          /\ drvGuest' = IF drvGuest = NoValue THEN Fresh ELSE drvGuest
          /\ drvReady' = TRUE /\ Called("setup", NoValue, FALSE)
          /\ UNCHANGED <<drvMock, drvFiles>>
       \/ /\ drvDriver = "incus"
          /\ drvGuest' \in IF drvGuest = NoValue THEN {NoValue, Fresh} ELSE {drvGuest}
          /\ Called("setup", NoValue, TRUE)
          /\ UNCHANGED <<drvMock, drvReady, drvFiles>>
       \/ /\ drvDriver = "firecracker" /\ ~drvMock /\ drvGuest = NoValue
          /\ drvFiles' = Fresh
          /\ drvReady' = TRUE /\ Called("setup", NoValue, FALSE)
          /\ UNCHANGED <<drvMock, drvGuest>>
       \/ /\ drvDriver # "incus" /\ ~drvMock
          /\ drvMock' = TRUE
          /\ drvReady' = TRUE /\ Called("setup", NoValue, FALSE)
          /\ UNCHANGED <<drvGuest, drvFiles>>
    /\ UNCHANGED <<drvDriver, drvStore, drvMockStore, drvTaken>>

----------------------------------------------------------------------------
(* execute, write_file *)

\* A command that changes the guest, or fails: a result, never an exception.
DrvExecute(v) ==
    /\ drvReady
    /\ IF drvMock THEN drvFiles' = v /\ UNCHANGED drvGuest
       ELSE /\ drvGuest' \in IF drvGuest = NoValue THEN {NoValue} ELSE {v, drvGuest}
            /\ UNCHANGED drvFiles
    /\ Called("execute", NoValue, FALSE)
    /\ UNCHANGED <<drvDriver, drvMock, drvReady, drvStore, drvMockStore, drvTaken>>

----------------------------------------------------------------------------
(* create_snapshot *)

\* Incus checks the exit code, and a name can be taken once; the answers of the Firecracker
\* API and of Proxmox are not looked at, only a broken connection raises.
DrvCreateSnapshot(s) ==
    /\ drvReady
    /\ \/ /\ drvMock
          /\ drvMockStore' = [drvMockStore EXCEPT ![s] = drvFiles]
          /\ Called("create_snapshot", s, FALSE)
          /\ UNCHANGED drvStore
       \/ /\ ~drvMock /\ drvGuest # NoValue
          /\ drvDriver = "incus" => drvStore[s] = NoValue
          /\ drvStore' = [drvStore EXCEPT ![s] = drvGuest]
          /\ \E raised \in BOOLEAN : Called("create_snapshot", s, raised)
          /\ UNCHANGED drvMockStore
       \/ /\ ~drvMock
          /\ Called("create_snapshot", s, TRUE)
          /\ UNCHANGED <<drvStore, drvMockStore>>
       \/ /\ ~drvMock /\ drvDriver # "incus"
          /\ Called("create_snapshot", s, FALSE)
          /\ UNCHANGED <<drvStore, drvMockStore>>
    /\ drvTaken' = IF drvCall'.raised THEN drvTaken
                   ELSE [drvTaken EXCEPT ![s] = [saw |-> Shown, mock |-> drvMock]]
    /\ UNCHANGED <<drvDriver, drvMock, drvReady, drvGuest, drvFiles>>

----------------------------------------------------------------------------
(* revert *)

\* incus snapshot restore, then the wait for the agent, each of which may raise.
FaultyIncusRevert(s) ==
    /\ \/ drvStore[s] # NoValue /\ drvGuest' = drvStore[s] /\ Called("revert", s, FALSE)
       \/ UNCHANGED drvGuest /\ Called("revert", s, FALSE)
    /\ UNCHANGED <<drvMock, drvReady, drvFiles>>
IncusRevert(s) ==
    /\ \/ drvStore[s] # NoValue /\ drvGuest' = drvStore[s] /\ Called("revert", s, FALSE)
       \/ drvStore[s] # NoValue /\ drvGuest' = drvStore[s] /\ Called("revert", s, TRUE)
       \/ UNCHANGED drvGuest /\ Called("revert", s, TRUE)
    /\ UNCHANGED <<drvMock, drvReady, drvFiles>>

\* If both snapshot files exist: cleanup, setup and a load that is not checked, of a guest
\* that may have come up in mock mode.  If not, nothing, and no exception.
FirecrackerRevert(s) ==
    \/ /\ drvStore[s] # NoValue
       /\ \/ drvGuest' \in {drvStore[s], drvGuest} /\ UNCHANGED drvMock
          \/ drvMock' = TRUE /\ UNCHANGED drvGuest
       /\ Called("revert", s, FALSE)
       /\ UNCHANGED <<drvReady, drvFiles>>
    \/ /\ drvStore[s] # NoValue
       /\ drvGuest' \in {drvStore[s], drvGuest}
       /\ Called("revert", s, TRUE)
       /\ UNCHANGED <<drvMock, drvReady, drvFiles>>
    \/ /\ drvStore[s] = NoValue
       /\ Called("revert", s, FALSE)
       /\ UNCHANGED <<drvMock, drvReady, drvGuest, drvFiles>>

\* One POST whose answer is not looked at.
ProxmoxRevert(s) ==
    /\ \/ drvStore[s] # NoValue /\ drvGuest' = drvStore[s]
       \/ UNCHANGED drvGuest
    /\ \E raised \in BOOLEAN : Called("revert", s, raised)
    /\ UNCHANGED <<drvMock, drvReady, drvFiles>>

\* A name that was never taken is ignored.
MockRevert(s) ==
    /\ drvFiles' = IF drvMockStore[s] # NoValue THEN drvMockStore[s] ELSE drvFiles
    /\ Called("revert", s, FALSE)
    /\ UNCHANGED <<drvMock, drvReady, drvGuest>>

DrvRevert(s) ==
    /\ drvReady
    /\ \/ drvMock /\ MockRevert(s)
       \/ ~drvMock /\ drvDriver = "incus" /\ IncusRevert(s)
       \/ ~drvMock /\ drvDriver = "firecracker" /\ FirecrackerRevert(s)
       \/ ~drvMock /\ drvDriver = "proxmox" /\ ProxmoxRevert(s)
    /\ UNCHANGED <<drvDriver, drvStore, drvMockStore, drvTaken>>

----------------------------------------------------------------------------
(* cleanup *)

\* Incus deletes the instance with its snapshots, or logs that it could not; the Firecracker
\* process ends and its files stay; the Proxmox guest goes on running.  The dictionaries stay.
DrvCleanup ==
    /\ drvCall.op \notin {"none", "cleanup"}
    /\ drvReady' = FALSE
    /\ \/ /\ drvDriver = "incus"
          /\ drvGuest' = NoValue
          /\ drvStore' = [s \in DrvSnap |-> NoValue]
          /\ drvTaken' = [s \in DrvSnap |-> [saw |-> NoValue, mock |-> FALSE]]
       \/ UNCHANGED <<drvGuest, drvStore, drvTaken>>
    /\ Called("cleanup", NoValue, FALSE)
    /\ UNCHANGED <<drvDriver, drvMock, drvFiles, drvMockStore>>

DrvNext ==
    \/ DrvSetup
    \/ \E v \in DrvValue : DrvExecute(v)
    \/ \E s \in DrvSnap : DrvCreateSnapshot(s) \/ DrvRevert(s)
    \/ DrvCleanup

DrvSpec == DrvInit /\ [][DrvNext]_drvVars

----------------------------------------------------------------------------
(* Correctness *)

\* A driver whose answers are checked: Incus, and the dictionaries of the mock mode.
Checked(s) == drvDriver = "incus" \/ (drvMock /\ drvTaken[s].mock)

\* A revert that did not raise brought back what its snapshot saw, however many other
\* snapshots, commands, failed calls and restarts of the sandbox came between: true of
\* Incus, and of a snapshot taken in mock mode and reverted in mock mode
\* (incus_sandbox.py:170-187, firecracker_sandbox.py:233-286, proxmox_sandbox.py:170-192).
RevertRestores ==
    /\ drvCall.op = "revert" /\ ~drvCall.raised /\ drvTaken[drvCall.on].saw # NoValue
    /\ Checked(drvCall.on)
    => Shown = drvTaken[drvCall.on].saw

=============================================================================
