---------------------------- MODULE FormalVerifier ---------------------------
(***************************************************************************)
(* security/formal_verifier.py and the formal-verify command of main.py: a *)
(* routing table, a list of firewall rules and a map of file modes are     *)
(* read entry by entry and declared PROVED_SAFE or refuted.                *)
(*                                                                         *)
(* The verifier reads text.  Of a line of rules the model has what its     *)
(* text says ("--dport 22" is part of "--dport 2222", "-j drop" of a drop  *)
(* for one source, and REJECT is no drop) and, apart from it, what the     *)
(* rule does to which packets.  Gateways and destinations are compared as  *)
(* they are written.  Of a mode only the bits of others are kept: those of *)
(* the group, and the largest modes of the table at lines 286-291, are     *)
(* never compared.                                                         *)
(***************************************************************************)
EXTENDS Naturals, FiniteSets

CONSTANTS
    FvNode,         \* destinations, which may be gateways too
    FvPort,         \* protected_ports
    FvLength,       \* bound on the routes, and on the files
    FvLines         \* bound on the lines of rules

ASSUME FvAssumption == FvLength \in Nat /\ FvLines \in Nat

VARIABLES
    fvZ3,           \* use_z3 and Z3_AVAILABLE
    fvDomains,      \* the domains there is something to verify about
    fvAt,           \* the domain being verified, or the status
    fvRead,         \* entries read of it
    fvHop,          \* next_hop_map, as (destination, gateway)
    fvStatus,       \* port_status
    fvGlobalDrop,   \* has_global_drop
    fvRoutes,       \* history: all the routes read
    fvFirst,        \* history: what the first rule for all packets to the port does
    fvBad,          \* history: a route that hands external traffic to loopback, or a file
                    \* others may touch, was read
    fvFine,         \* history: what the domains verified so far were proved to be is true
    fvDoubt         \* history: an entry was read that the verifier has no notion of

fvVars == <<fvZ3, fvDomains, fvAt, fvRead, fvHop, fvStatus, fvGlobalDrop, fvRoutes, fvFirst,
            fvBad, fvFine, fvDoubt>>

FvDomain == {"network", "firewall", "permissions"}
FvRoute == [dst : FvNode \cup {"local"}, gw : FvNode \cup {"direct", "loopback"}]

\* The words in a line, the protected ports it seems to name, whether it seems to drop
\* everything (global), or something of lo; then what it does with all packets (of the
\* service's protocol) to which protected ports, and whether it appends a rule, rather than
\* insert or delete one or set a policy.
FvLine == [says : SUBSET {"accept", "drop"}, names : SUBSET FvPort,
           global : BOOLEAN, lo : BOOLEAN,
           does : {"accept", "drop"}, all : SUBSET FvPort, appends : BOOLEAN]
FvRule == {r \in FvLine : r.global \/ r.lo => "drop" \in r.says}
FvFile == [path : {"critical", "binary", "other"}, others : SUBSET {"read", "write", "execute"},
           octal : BOOLEAN]

FvTypeOK ==
    /\ fvZ3 \in BOOLEAN /\ fvDomains \subseteq FvDomain
    /\ fvAt \in FvDomain \cup {"PROVED_SAFE", "COUNTER_EXAMPLE_FOUND"}
    /\ fvRead \in Nat
    /\ fvHop \subseteq FvRoute /\ fvRoutes \subseteq FvRoute
    /\ fvStatus \in [FvPort -> {"UNSET", "ACCEPTED", "DROPPED"}]
    /\ fvFirst \in [FvPort -> {"none", "accept", "drop"}]
    /\ {fvGlobalDrop, fvBad, fvFine, fvDoubt} \subseteq BOOLEAN

\* network, firewall, permissions: the first that is left, or the proof is complete.
FvFirstOf(left) ==
    CASE "network" \in left -> "network"
      [] "network" \notin left /\ "firewall" \in left -> "firewall"
      [] left = {"permissions"} -> "permissions"
      [] OTHER -> "PROVED_SAFE"

FvInit ==
    /\ fvZ3 \in BOOLEAN
    /\ fvDomains \in SUBSET FvDomain
    /\ fvAt = FvFirstOf(fvDomains)
    /\ fvRead = 0
    /\ fvHop = {} /\ fvRoutes = {}
    /\ fvStatus = [p \in FvPort |-> "UNSET"]
    /\ fvFirst = [p \in FvPort |-> "none"]
    /\ fvGlobalDrop = FALSE
    /\ fvBad = FALSE /\ fvFine = TRUE /\ fvDoubt = FALSE

FvReading(domain, bound) ==
    /\ fvAt = domain /\ fvRead < bound
    /\ fvRead' = fvRead + 1
    /\ UNCHANGED <<fvZ3, fvDomains, fvFine>>

\* The verdict on a domain ends the proof or goes on to the next one.
FvEnd(domain, refuted, fine) ==
    /\ fvAt = domain
    /\ fvAt' = IF refuted THEN "COUNTER_EXAMPLE_FOUND"
               ELSE FvFirstOf(CASE domain = "network" -> fvDomains \ {"network"}
                                [] domain = "firewall" -> fvDomains \cap {"permissions"}
                                [] OTHER -> {})
    /\ fvRead' = 0
    /\ fvHop' = {} /\ fvRoutes' = {}
    /\ fvStatus' = [p \in FvPort |-> "UNSET"]
    /\ fvFirst' = [p \in FvPort |-> "none"]
    /\ fvGlobalDrop' = FALSE
    /\ fvFine' = (fvFine /\ fine)
    /\ UNCHANGED <<fvZ3, fvDomains, fvBad, fvDoubt>>

Refute == fvAt' = "COUNTER_EXAMPLE_FOUND"

----------------------------------------------------------------------------
(* verify_routing_table *)

\* lo: the interface is lo.  short: an entry with `dst' and `via' in place of `destination'
\* and `gateway'; the check of the gateway does not read `via'.  Without Z3 only a route to
\* itself is seen.
FvReadRoute ==
    /\ FvReading("network", FvLength)
    /\ \E r \in FvRoute, lo, short \in BOOLEAN :
           /\ IF \/ fvZ3 /\ r.dst # "local" /\ (lo \/ (r.gw = "loopback" /\ ~short))
                 \/ ~fvZ3 /\ r.gw = r.dst /\ ~short
              THEN Refute ELSE UNCHANGED fvAt
           /\ fvHop' = {h \in fvHop : h.dst # r.dst} \cup {r}
           /\ fvRoutes' = fvRoutes \cup {r}
           /\ fvBad' = (fvBad \/ (r.dst # "local" /\ (lo \/ r.gw = "loopback")))
           /\ fvDoubt' = \/ fvDoubt \/ ~fvZ3
                         \/ r.gw = "loopback" /\ short
                         \/ \E h \in fvHop : h.dst = r.dst
    /\ UNCHANGED <<fvStatus, fvGlobalDrop, fvFirst>>

FvDests == {h.dst : h \in fvHop}
FvGateway(d) == (CHOOSE h \in fvHop : h.dst = d).gw

\* Follows the map from every destination until it is left, or meets a node again.
FvWalk(start) ==
    LET at[k \in 0 .. Cardinality(FvDests)] ==
            IF k = 0 THEN start
            ELSE IF at[k-1] \in FvDests THEN FvGateway(at[k-1]) ELSE "direct"
    IN  at
FvCycle == \E start \in FvDests : FvWalk(start)[Cardinality(FvDests)] \in FvDests

\* What a routing loop is: routes each of which hands over to another of them.
FvLoopFree(routes) ==
    \A loop \in (SUBSET routes) \ {{}} : \E r \in loop : r.gw \notin {s.dst : s \in loop}

FvEndRoutes ==
    FvEnd("network", fvZ3 /\ (fvHop = {} \/ FvCycle), FvLoopFree(fvRoutes) /\ ~fvBad)

----------------------------------------------------------------------------
(* verify_firewall_rules *)

FaultyRuleOn(p, r) ==
    CASE p \in r.names /\ "accept" \in r.says -> "ACCEPTED"
      [] fvStatus[p] = "UNSET" /\ ((p \in r.names /\ "drop" \in r.says) \/ r.global) -> "DROPPED"
      [] OTHER -> fvStatus[p]
FvRuleOn(p, r) ==
    IF fvStatus[p] # "UNSET" THEN fvStatus[p]
    ELSE IF p \in r.names /\ "accept" \in r.says THEN "ACCEPTED"
    ELSE IF (p \in r.names /\ "drop" \in r.says) \/ r.global THEN "DROPPED"
    ELSE "UNSET"

\* A line whose text is not what it does: it appends no rule; it speaks of accepting and does
\* not accept all packets to the ports it seems to name; or it blocks all packets to a port
\* (REJECT, --jump, --dports, -s 0.0.0.0/0) without dropping it by its number or with all.
FvMisread(r) ==
    \/ ~r.appends
    \/ "accept" \in r.says /\ ~(r.does = "accept" /\ r.names \subseteq r.all)
    \/ r.does = "drop" /\ r.all # {} /\ ~r.global
       /\ ~("drop" \in r.says /\ r.all \subseteq r.names)

FvReadRule ==
    /\ FvReading("firewall", FvLines)
    /\ \E r \in FvRule :
           /\ IF r.lo \/ (fvGlobalDrop /\ "accept" \in r.says)
              THEN Refute ELSE UNCHANGED fvAt
           /\ fvStatus' = [p \in FvPort |-> FvRuleOn(p, r)]
           /\ fvGlobalDrop' = (fvGlobalDrop \/ r.global)
           /\ fvFirst' = [p \in FvPort |->
                  IF fvFirst[p] = "none" /\ p \in r.all THEN r.does ELSE fvFirst[p]]
           /\ fvDoubt' = (fvDoubt \/ FvMisread(r))
    /\ UNCHANGED <<fvHop, fvRoutes, fvBad>>

FvEndRules ==
    FvEnd("firewall", \E p \in FvPort : fvStatus[p] = "DROPPED",
          \A p \in FvPort : fvFirst[p] # "drop")

----------------------------------------------------------------------------
(* verify_permission_boundaries *)

FvExposed(f) ==
    \/ f.path = "critical" /\ f.others # {}
    \/ f.path = "binary" /\ "write" \in f.others

\* A mode that is not an octal number is passed over.
FvReadMode ==
    /\ FvReading("permissions", FvLength)
    /\ \E f \in FvFile :
           /\ IF f.octal /\ FvExposed(f) THEN Refute ELSE UNCHANGED fvAt
           /\ fvBad' = (fvBad \/ FvExposed(f))
           /\ fvDoubt' = (fvDoubt \/ ~f.octal)
    /\ UNCHANGED <<fvHop, fvRoutes, fvStatus, fvGlobalDrop, fvFirst>>

FvEndModes == FvEnd("permissions", FALSE, ~fvBad)

----------------------------------------------------------------------------
(* The verifier *)

FvNext ==
    \/ FvReadRoute \/ FvEndRoutes
    \/ FvReadRule \/ FvEndRules
    \/ FvReadMode \/ FvEndModes

FvSpec == FvInit /\ [][FvNext]_fvVars

----------------------------------------------------------------------------
(* Correctness *)

\* A configuration that is PROVED_SAFE has no routes that hand over to one another in a
\* circle, none that hands external traffic to lo, 127.0.0.1 or ::1, no rule that blocks all
\* packets to a protected port unless one before it accepts them all, and no known critical
\* file that others may touch or system binary that they may write
\* (formal_verifier.py:63-67, 185-189, 301-330) - unless Z3 is not installed, a destination
\* has two routes, a loopback gateway is given as `via', a line of the rules is one the
\* verifier misreads, or a mode is not octal.
ProvedSafeIsSafe == fvAt = "PROVED_SAFE" => fvFine \/ fvDoubt

=============================================================================
