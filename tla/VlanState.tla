------------------------------ MODULE VlanState ------------------------------
(***************************************************************************)
(* The canonical VLAN state of a switch and the pure helpers that compare  *)
(* two of them (internal/model/vlan_state.go).                             *)
(*                                                                         *)
(* A VLANState is a record: vlans maps each VLAN id to the membership of   *)
(* its ports, pvids maps a port to the VLAN its untagged frames enter.     *)
(* Before Normalize the port maps may be partial and may name ports the    *)
(* switch does not have, as a configuration file can.                      *)
(***************************************************************************)
EXTENDS Integers, FiniteSets

CONSTANT PortCount      \* VLANState.PortCount, fixed per switch model

ASSUME PortCountAssumption == PortCount \in Nat \ {0}

Ports == 1 .. PortCount

Membership == {"untagged", "tagged", "ignored"}

\* The membership of port p in VLAN v of state s; a missing VLAN carries no port.
MemberOf(s, v, p) ==
    IF v \in DOMAIN s.vlans THEN s.vlans[v][p] ELSE "ignored"

(***************************************************************************)
(* Normalize: every VLAN covers exactly the switch's ports. Ports left out *)
(* become ignored, and ports the switch does not have are dropped.         *)
(***************************************************************************)
NormalizePorts(ports) ==
    [p \in Ports |-> IF p \in DOMAIN ports THEN ports[p] ELSE "ignored"]

Normalize(s) ==
    [vlans |-> [v \in DOMAIN s.vlans |-> NormalizePorts(s.vlans[v])],
     pvids |-> s.pvids]

\* Port p has a PVID, its VLAN exists, and the port is not ignored there.
PVIDIsLive(s, p) ==
    /\ p \in DOMAIN s.pvids
    /\ s.pvids[p] \in DOMAIN s.vlans
    /\ p \in DOMAIN s.vlans[s.pvids[p]] => s.vlans[s.pvids[p]][p] # "ignored"

\* Validate: a complete and coherent state.
Validate(s) ==
    /\ Cardinality(DOMAIN s.pvids) = PortCount
    /\ \A v \in DOMAIN s.vlans :
          /\ v > 0
          /\ \A p \in DOMAIN s.vlans[v] : p \in Ports /\ s.vlans[v][p] \in Membership
    /\ \A p \in Ports : PVIDIsLive(s, p)

Equal(s, t) == Normalize(s) = Normalize(t)

AddedVLANs(current, desired) == DOMAIN desired.vlans \ DOMAIN current.vlans

RemovedVLANs(current, desired) == DOMAIN current.vlans \ DOMAIN desired.vlans

\* Ports no VLAN of desired carries.
PreservedPorts(desired) ==
    {p \in Ports : \A v \in DOMAIN desired.vlans :
        p \in DOMAIN desired.vlans[v] => desired.vlans[v][p] = "ignored"}

\* Removed VLANs that no preserved port still needs as its PVID.
PreserveRemovedVLANs(removed, current, preserved) ==
    removed \ {current.pvids[p] : p \in preserved}

\* The ports whose PVID is v: one batch of BatchPVIDs.
BatchOf(s, v) == {p \in DOMAIN s.pvids : s.pvids[p] = v}
=============================================================================
