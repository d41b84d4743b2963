------------------------------ MODULE VlanPlan -------------------------------
(***************************************************************************)
(* The convergence plan of internal/model/vlan_plan.go: which writes move  *)
(* a switch from its current VLAN state to the desired one.                *)
(*                                                                         *)
(* The program's plan is a list of operations in five phases, ascending    *)
(* by VLAN id inside a phase. Here the plan is the set of operations each  *)
(* phase still has to send; the *Due operators say which one is due. What  *)
(* a membership operation writes is Step1 (phase 2) or Step2 (phase 4).    *)
(***************************************************************************)
EXTENDS VlanState

\* A slip: the weaker of two memberships survives.
MaxMembership(left, right) ==
    IF "ignored" \in {left, right} THEN "ignored"
    ELSE IF "tagged" \in {left, right} THEN "tagged" ELSE "untagged"

\* Per port, the stronger of two memberships: untagged over tagged over ignored.
MinMembership(left, right) ==
    IF "untagged" \in {left, right} THEN "untagged"
    ELSE IF "tagged" \in {left, right} THEN "tagged" ELSE "ignored"

IgnoredPorts == [p \in Ports |-> "ignored"]

\* A plausible slip: the transition state takes the desired membership at once.
DesiredMembershipOnly(current, desired) == desired

MergedMembership(current, desired) ==
    [p \in Ports |-> MinMembership(current[p], desired[p])]

(***************************************************************************)
(* Phase 2: added VLANs get their exact membership, VLANs on both sides    *)
(* the merged one, so that every port stays in its old PVID VLAN and is    *)
(* already in its new one when the PVID moves.                             *)
(***************************************************************************)
Step1(current, desired) ==
    [v \in DOMAIN desired.vlans |->
        IF v \in DOMAIN current.vlans
          THEN MergedMembership(current.vlans[v], desired.vlans[v])
          ELSE desired.vlans[v]]

(***************************************************************************)
(* Phase 4: exact memberships, removed VLANs emptied first, and each       *)
(* preserved port spliced into the VLAN of its current PVID.               *)
(***************************************************************************)
ExactMembership(current, desired, v) ==
    IF v \in DOMAIN desired.vlans \cap DOMAIN current.vlans
      THEN desired.vlans[v] ELSE IgnoredPorts

Step2(current, desired) ==
    LET preserved == PreservedPorts(desired)
        spliced == {current.pvids[p] : p \in preserved}
    IN [v \in DOMAIN current.vlans \cup spliced |->
           [p \in Ports |->
               IF p \in preserved /\ current.pvids[p] = v
                 THEN MemberOf(current, v, p)
                 ELSE ExactMembership(current, desired, v)[p]]]

NoOps == [add |-> {}, widen |-> {}, pvid |-> {}, exact |-> {}, delete |-> {}]

\* A slip: every port counts as preserved, so a VLAN some PVID named stays.
DeletesUnused(current, desired) ==
    PreserveRemovedVLANs(RemovedVLANs(current, desired), current, Ports)

Deletes(current, desired) ==
    PreserveRemovedVLANs(RemovedVLANs(current, desired), current,
                         PreservedPorts(desired))

\* Plan for a validated, normalized desired state. Phase 3 lists the ports
\* whose PVID is still to be written: all of them, batched by VLAN.
Plan(current, desired) ==
    IF current = desired THEN NoOps
    ELSE [add    |-> AddedVLANs(current, desired),
          widen  |-> DOMAIN Step1(current, desired),
          pvid   |-> Ports,
          exact  |-> DOMAIN Step2(current, desired),
          delete |-> Deletes(current, desired)]

-----------------------------------------------------------------------------
\* The order in which Run replays the plan.

IsLowest(x, S) == x \in S /\ \A y \in S : x <= y

AddDue(ops, v) == IsLowest(v, ops.add)

WidenDue(ops, v) == ops.add = {} /\ IsLowest(v, ops.widen)

PVIDDue(ops, desired, v) ==
    /\ ops.add = {} /\ ops.widen = {}
    /\ IsLowest(v, {desired.pvids[p] : p \in ops.pvid})

ExactDue(ops, v) ==
    /\ ops.add = {} /\ ops.widen = {} /\ ops.pvid = {}
    /\ IsLowest(v, ops.exact)

\* A slip in the order: deletes go out before the exact memberships.
DeleteDueEarly(ops) ==
    ops.add = {} /\ ops.widen = {} /\ ops.pvid = {} /\ ops.delete # {}

DeleteDue(ops) ==
    /\ ops.add = {} /\ ops.widen = {} /\ ops.pvid = {} /\ ops.exact = {}
    /\ ops.delete # {}
=============================================================================
