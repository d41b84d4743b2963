------------------------------ MODULE VlanApply ------------------------------
(***************************************************************************)
(* One apply of netgear_plus_vlan_state on a switch that converges         *)
(* incrementally: the resource's checks, the driver's read, the plan       *)
(* replayed one write at a time, and the read-back. The transport says how *)
(* the plan's operations reach the wire: "http" (the gs108ev3 forms,       *)
(* batched) or "nsdp" (one SET per port and per deleted VLAN, no add).     *)
(*                                                                         *)
(* Any read or write may fail. A failed write either never reached the     *)
(* switch or took effect without its answer coming back; the apply ends    *)
(* there, the switch keeps what was written, and the practitioner applies  *)
(* the same configuration again.                                           *)
(***************************************************************************)
EXTENDS VlanPlan

CONSTANTS
    VIDs,           \* the VLAN ids in play
    Transports,     \* a subset of {"http", "nsdp"}
    StartStates,    \* states the switch may be in before the first apply
    Configs,        \* configurations as written, before Normalize
    MaxFailures,    \* bound: failed reads and writes in a behaviour
    MaxIntruded     \* bound: VLANs created at the web UI during a behaviour

VARIABLES
    switch,     \* the switch's live VLAN state
    config,     \* the configuration being applied
    allow,      \* allow_vlan_deletions
    pinned,     \* expected_serial_number is set and is this switch's
    transport,  \* the channel the provider was configured with
    status,     \* where the apply is
    current,    \* the driver's read, the plan's left-hand side
    ops,        \* the part of the plan not sent yet
    failures,   \* failed reads and writes so far
    intrusions, \* VLANs created at the web UI so far
    intruded    \* those created since the resource's guard last read the switch

vars == <<switch, config, allow, pinned, transport, status, current, ops, failures,
          intrusions, intruded>>
inputs == <<config, allow, pinned, transport>>

VLANStates ==
    [vlans : UNION {[D -> [Ports -> Membership]] : D \in SUBSET VIDs},
     pvids : [Ports -> VIDs]]

\* Every port's PVID names a VLAN that exists and carries the port.
Backed(s) == \A p \in Ports : MemberOf(s, s.pvids[p], p) # "ignored"

ASSUME VlanApplyAssumption ==
    /\ VIDs \subseteq Nat \ {0}
    /\ Transports \subseteq {"http", "nsdp"}
    /\ StartStates \subseteq {s \in VLANStates : Backed(s)}
    /\ MaxFailures \in Nat /\ MaxIntruded \in Nat

\* A configuration is a finite document whose VLAN ids may be anything but
\* whose accepted ones are in VIDs.
ASSUME ConfigsAssumption ==
    \A c \in Configs :
        /\ IsFiniteSet(DOMAIN c.pvids)
        /\ c.pvids \in [DOMAIN c.pvids -> Int]
        /\ Validate(Normalize(c)) => DOMAIN c.vlans \subseteq VIDs

Desired == Normalize(config)

Statuses == {"idle", "guard", "planning", "running", "verify",
             "applied", "failed", "refused"}

Resting == {"idle", "applied", "failed", "refused"}

OpsType == [add : SUBSET VIDs, widen : SUBSET VIDs, pvid : SUBSET Ports,
            exact : SUBSET VIDs, delete : SUBSET VIDs]

TypeOK ==
    /\ switch \in VLANStates
    /\ config \in Configs
    /\ allow \in BOOLEAN
    /\ pinned \in BOOLEAN
    /\ transport \in Transports
    /\ status \in Statuses
    /\ current \in VLANStates
    /\ ops \in OpsType
    /\ failures \in 0 .. MaxFailures
    /\ intrusions \in 0 .. MaxIntruded
    /\ intruded \subseteq VIDs

Init ==
    /\ switch \in StartStates
    /\ config \in Configs
    /\ allow \in BOOLEAN
    /\ pinned \in BOOLEAN
    /\ transport \in Transports
    /\ status = "idle"
    /\ current = switch
    /\ ops = NoOps
    /\ failures = 0
    /\ intrusions = 0
    /\ intruded = {}

-----------------------------------------------------------------------------
(***************************************************************************)
(* The steps before the first write.                                       *)
(***************************************************************************)

\* terraform apply: expandVLANState normalizes, Validate accepts or refuses.
Begin ==
    /\ status \in Resting
    /\ status' = IF Validate(Desired) THEN "guard" ELSE "refused"
    /\ UNCHANGED <<switch, inputs, current, ops, failures, intrusions, intruded>>

\* A slip: the guard looks for VLANs the plan adds, not those it removes.
RemovalsAllowedAdded == allow \/ AddedVLANs(switch, Desired) = {}

\* Nothing is removed without leave (blockedVLANRemovals).
RemovalsAllowed == allow \/ RemovedVLANs(switch, Desired) = {}

\* The resource checks the switch's identity, then the removals, on its own
\* reads.
CheckRemovals ==
    /\ status = "guard"
    /\ status' = IF pinned /\ RemovalsAllowed THEN "planning" ELSE "refused"
    /\ intruded' = {}
    /\ UNCHANGED <<switch, inputs, current, ops, failures, intrusions>>

\* The driver reads again and plans against that read.
DriverPlan ==
    /\ status = "planning"
    /\ current' = switch
    /\ ops' = Plan(switch, Desired)
    /\ status' = IF ops' = NoOps THEN "verify" ELSE "running"
    /\ UNCHANGED <<switch, inputs, failures, intrusions, intruded>>

\* A read of the resource or of the driver fails before or after the writes.
ReadFails ==
    /\ status \in {"guard", "planning", "verify"}
    /\ failures < MaxFailures
    /\ failures' = failures + 1
    /\ status' = "failed"
    /\ UNCHANGED <<switch, inputs, current, ops, intrusions, intruded>>

-----------------------------------------------------------------------------
(***************************************************************************)
(* The writes. A write is acknowledged ("ok"), or it takes effect and its  *)
(* answer is lost ("lost"), or it never takes effect ("error"); Run stops  *)
(* at the first error.                                                     *)
(***************************************************************************)
Outcomes == {"ok", "lost", "error"}

Perform(outcome, after, rest) ==
    /\ status = "running"
    /\ switch' = IF outcome = "error" THEN switch ELSE after
    /\ IF outcome = "ok"
         THEN /\ status' = IF rest = NoOps THEN "verify" ELSE "running"
              /\ ops' = rest
              /\ failures' = failures
         ELSE /\ failures < MaxFailures
              /\ status' = "failed"
              /\ ops' = NoOps
              /\ failures' = failures + 1
    /\ UNCHANGED <<inputs, current, intrusions, intruded>>

WithMembership(s, v, ports) ==
    [s EXCEPT !.vlans = [w \in DOMAIN s.vlans \cup {v} |->
                            IF w = v THEN ports ELSE s.vlans[w]]]

WithPVIDs(s, v, batch) ==
    [s EXCEPT !.pvids = [p \in Ports |-> IF p \in batch THEN v ELSE s.pvids[p]]]

WithoutVLANs(s, vids) ==
    [s EXCEPT !.vlans = [w \in DOMAIN s.vlans \ vids |-> s.vlans[w]]]

\* Over HTTP the add form creates an empty VLAN; the NSDP AddVLAN is a no-op.
AddVLAN(v, outcome) ==
    /\ AddDue(ops, v)
    /\ Perform(outcome,
               IF transport = "http" /\ v \notin DOMAIN switch.vlans
                 THEN WithMembership(switch, v, IgnoredPorts) ELSE switch,
               [ops EXCEPT !.add = @ \ {v}])

WidenMembership(v, outcome) ==
    /\ WidenDue(ops, v)
    /\ Perform(outcome, WithMembership(switch, v, Step1(current, Desired)[v]),
               [ops EXCEPT !.widen = @ \ {v}])

\* One form for the whole batch over HTTP, one SET per port over NSDP.
PVIDBatches(v) ==
    LET due == BatchOf(Desired, v) \cap ops.pvid
    IN IF transport = "http" THEN {due} ELSE {{p} : p \in {q \in due : IsLowest(q, due)}}

SetPVIDs(v, outcome) ==
    /\ PVIDDue(ops, Desired, v)
    /\ \E batch \in PVIDBatches(v) :
          Perform(outcome, WithPVIDs(switch, v, batch), [ops EXCEPT !.pvid = @ \ batch])

ExactMemberships(v, outcome) ==
    /\ ExactDue(ops, v)
    /\ Perform(outcome, WithMembership(switch, v, Step2(current, Desired)[v]),
               [ops EXCEPT !.exact = @ \ {v}])

\* One checkbox form over HTTP, one SET per VLAN over NSDP; both skip a VLAN
\* that is already gone.
DeleteBatches ==
    IF transport = "http" THEN {ops.delete}
    ELSE {{v} : v \in {w \in ops.delete : IsLowest(w, ops.delete)}}

DeleteVLANs(outcome) ==
    /\ DeleteDue(ops)
    /\ \E batch \in DeleteBatches :
          Perform(outcome, WithoutVLANs(switch, batch), [ops EXCEPT !.delete = @ \ batch])

Write(outcome) ==
    \/ \E v \in VIDs : \/ AddVLAN(v, outcome)
                       \/ WidenMembership(v, outcome)
                       \/ SetPVIDs(v, outcome)
                       \/ ExactMemberships(v, outcome)
    \/ DeleteVLANs(outcome)

-----------------------------------------------------------------------------
\* The resource's read-back decides; Terraform state is written on success only.
Verify ==
    /\ status = "verify"
    /\ \/ /\ Equal(switch, Desired)
          /\ status' = "applied"
       \/ /\ ~Equal(switch, Desired)
          /\ status' = "failed"
    /\ UNCHANGED <<switch, inputs, current, ops, failures, intrusions, intruded>>

\* Somebody creates an empty VLAN at the switch's own web UI.
Intrude(v) ==
    /\ intrusions < MaxIntruded
    /\ intrusions' = intrusions + 1
    /\ v \notin DOMAIN switch.vlans
    /\ switch' = WithMembership(switch, v, IgnoredPorts)
    /\ intruded' = intruded \cup {v}
    /\ UNCHANGED <<inputs, status, current, ops, failures>>

Progress == Begin \/ CheckRemovals \/ DriverPlan \/ Write("ok") \/ Verify

Next ==
    \/ Progress
    \/ ReadFails
    \/ Write("lost") \/ Write("error")
    \/ \E v \in VIDs : Intrude(v)

\* The practitioner repeats a failed apply until it succeeds, and a started
\* apply is never abandoned.
Spec == Init /\ [][Next]_vars /\ WF_vars(Progress)
=============================================================================
