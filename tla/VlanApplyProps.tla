--------------------------- MODULE VlanApplyProps ----------------------------
(***************************************************************************)
(* What an apply on an incremental channel must guarantee.                 *)
(***************************************************************************)
EXTENDS VlanApply

\* At every moment, between any two writes and after any failed one, each
\* port's PVID names an existing VLAN that carries the port. This is why the
\* plan widens before it moves PVIDs, and moves PVIDs before it narrows and
\* deletes (model.Plan, nsdpSwitchTransport.ApplyVLANState).
PVIDsBacked == Backed(switch)

\* A VLAN disappears only when the rest of the desired state is in effect, so
\* a failed delete leaves nothing undone but the delete (phase 5 of Plan).
DeleteIsLast ==
    [][DOMAIN switch.vlans \subseteq DOMAIN switch'.vlans
       \/ (/\ switch.pvids = Desired.pvids
           /\ \A v \in DOMAIN Desired.vlans :
                 v \in DOMAIN switch.vlans /\ switch.vlans[v] = Desired.vlans[v])]_vars

\* While allow_vlan_deletions is off an apply deletes no VLAN its guard saw:
\* what it deletes somebody created after the guard's read and before the
\* driver's own (blockedVLANRemovals and ApplyVLANState read separately).
GuardedDeletion ==
    [][~allow => DOMAIN switch.vlans \ DOMAIN switch'.vlans
                     \subseteq intruded \cap DOMAIN current.vlans]_vars

\* An apply whose writes were all acknowledged reads back what it asked for:
\* every desired VLAN and PVID is in effect, and any other VLAN is one that
\* somebody else created since the guard's read. The read-back of apply fails
\* for no other reason (Plan's operations are enough, and Run sends them all).
EndsAsAsked ==
    status = "verify" =>
        /\ switch.pvids = Desired.pvids
        /\ \A v \in DOMAIN Desired.vlans :
              v \in DOMAIN switch.vlans /\ switch.vlans[v] = Desired.vlans[v]
        /\ DOMAIN switch.vlans \ DOMAIN Desired.vlans \subseteq intruded

\* An allowed, valid configuration for the right switch is reached in the end and stays, however
\* many of the writes on the way fail or lose their answer: a re-plan from
\* any half-applied state converges (Plan after an aborted Run).
Converges ==
    Validate(Desired) /\ allow /\ pinned => <>[](switch = Desired)

-----------------------------------------------------------------------------
(***************************************************************************)
(* The inductive strengthening: while a plan runs, the switch holds        *)
(* exactly what the operations sent so far have made of the driver's read. *)
(***************************************************************************)

\* The membership of port p in VLAN v with the operations in o outstanding.
Expected(c, d, o, v, p) ==
    IF v \in DOMAIN c.vlans
      THEN IF v \notin o.exact THEN MemberOf(d, v, p)
           ELSE IF v \in DOMAIN d.vlans \ o.widen
                  THEN MinMembership(c.vlans[v][p], d.vlans[v][p])
                  ELSE c.vlans[v][p]
      ELSE IF v \in o.widen THEN "ignored" ELSE MemberOf(d, v, p)

\* The phases run in order: a later one starts when the earlier are through.
InOrder(c, d, o) ==
    /\ o.add \subseteq DOMAIN d.vlans
    /\ o.widen \subseteq DOMAIN d.vlans
    /\ o.exact \subseteq DOMAIN c.vlans
    /\ o.delete \subseteq RemovedVLANs(c, d)
    /\ o.pvid # Ports => o.widen = {}
    /\ o.exact # DOMAIN c.vlans => o.widen = {} /\ o.pvid = {}
    /\ o.exact # {} => o.delete = RemovedVLANs(c, d)

Replayed(s, c, d, o) ==
    /\ InOrder(c, d, o)
    /\ \A v \in VIDs, p \in Ports : MemberOf(s, v, p) = Expected(c, d, o, v, p)
    /\ \A p \in Ports : s.pvids[p] = IF p \in o.pvid THEN c.pvids[p] ELSE d.pvids[p]
    /\ DOMAIN d.vlans \ o.widen \subseteq DOMAIN s.vlans

Working == {"guard", "planning", "running", "verify"}

\* Nothing the guard did not see is planned for deletion while allow is off.
GuardHeld ==
    ~allow => /\ status = "planning" => RemovedVLANs(switch, Desired) \subseteq intruded
              /\ status = "running" => ops.delete \subseteq intruded

\* A VLAN that is neither desired nor about to be deleted came from elsewhere,
\* after the guard's read.
OthersIntruded ==
    status \in {"running", "verify"} =>
        DOMAIN switch.vlans \ DOMAIN Desired.vlans \subseteq ops.delete \cup intruded

IInv ==
    /\ TypeOK
    /\ PVIDsBacked
    /\ Backed(current)
    /\ status \in Working => Validate(Desired)
    /\ status \in {"running", "verify"} => Replayed(switch, current, Desired, ops)
    /\ status = "verify" => ops = NoOps
    /\ GuardHeld
    /\ OthersIntruded

-----------------------------------------------------------------------------
(***************************************************************************)
(* The apply implements HitlessUpdate: the update is the replay of one     *)
(* plan, its links are the non-ignored memberships.                        *)
(***************************************************************************)
LinksOf(s) ==
    {l \in VIDs \X Ports \X {"untagged", "tagged"} : MemberOf(s, l[1], l[2]) = l[3]}

Goal == IF Validate(Desired) THEN LinksOf(Desired) ELSE {}

Phase ==
    IF status \in {"running", "verify"} THEN "moving"
    ELSE IF status = "applied" THEN "done" ELSE "rest"

Hitless == INSTANCE HitlessUpdate WITH
    VLANs <- VIDs, PortSet <- Ports,
    links <- LinksOf(switch),
    ingress <- switch.pvids,
    from <- LinksOf(current),
    to <- Goal,
    phase <- Phase

\* Every step of an apply is a step of a hitless update: traffic both the old
\* and the new configuration carry is never interrupted, none is carried that
\* neither asks for, and an apply that reports success has reached its goal.
HitlessSpec == Hitless!Spec
=============================================================================
