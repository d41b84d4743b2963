--------------------------- MODULE VlanApplyProofs ---------------------------
(***************************************************************************)
(* Proofs about VlanApply, for any number of ports, any VLAN ids, any      *)
(* start states and configurations, and any number of failures.            *)
(***************************************************************************)
EXTENDS VlanApplyProps, FiniteSetTheorems, TLAPS

USE PortCountAssumption

PortMap == [Ports -> Membership]

\* A set of VLAN tables is easier to use as a type and a bound on its domain.
LEMMA VLANStatesType ==
    \A s : s \in VLANStates <=>
        /\ s = [vlans |-> s.vlans, pvids |-> s.pvids]
        /\ DOMAIN s.vlans \subseteq VIDs
        /\ s.vlans \in [DOMAIN s.vlans -> PortMap]
        /\ s.pvids \in [Ports -> VIDs]
  BY DEF VLANStates, PortMap

\* Normalize fills in or drops ports and touches nothing else.
LEMMA NormalizeShape ==
    ASSUME NEW s
    PROVE  /\ Normalize(s) = [vlans |-> Normalize(s).vlans, pvids |-> s.pvids]
           /\ Normalize(s).pvids = s.pvids
           /\ DOMAIN Normalize(s).vlans = DOMAIN s.vlans
           /\ \A v \in DOMAIN s.vlans : DOMAIN Normalize(s).vlans[v] = Ports
  BY DEF Normalize, NormalizePorts

\* A validated configuration is a well-formed state in which every PVID is live.
LEMMA ValidDesired ==
    ASSUME config \in Configs, Validate(Desired)
    PROVE  Desired \in VLANStates /\ Backed(Desired)
<1> DEFINE D == Desired
<1>1. DOMAIN D.vlans \subseteq VIDs
  BY ConfigsAssumption, NormalizeShape DEF Desired
<1>2. D.vlans \in [DOMAIN D.vlans -> PortMap]
  BY NormalizeShape DEF Desired, Validate, PortMap, Normalize, NormalizePorts
<1>3. DOMAIN D.pvids = Ports
  <2>1. IsFiniteSet(DOMAIN D.pvids)
    BY ConfigsAssumption, NormalizeShape DEF Desired
  <2>2. Ports \subseteq DOMAIN D.pvids
    BY DEF Validate, PVIDIsLive
  <2>3. Cardinality(Ports) = PortCount
    BY FS_Interval DEF Ports
  <2>4. Cardinality(DOMAIN D.pvids) = PortCount
    BY DEF Validate
  <2> QED
    BY <2>1, <2>2, <2>3, <2>4, FS_Subset
<1>4. D.pvids \in [Ports -> VIDs]
  <2>1. \A p \in Ports : D.pvids[p] \in VIDs
    BY <1>1 DEF Validate, PVIDIsLive
  <2>2. D.pvids \in [DOMAIN D.pvids -> Int]
    BY ConfigsAssumption, NormalizeShape DEF Desired
  <2> QED
    BY <1>3, <2>1, <2>2
<1>5. Backed(D)
  BY <1>2 DEF Backed, MemberOf, Validate, PVIDIsLive, PortMap
<1> QED
  BY <1>1, <1>2, <1>4, <1>5, VLANStatesType, NormalizeShape DEF Desired

\* splicePreservedPorts and PreserveRemovedVLANs never act on a validated
\* desired state: a port no VLAN carries has no live PVID.
THEOREM NothingPreserved ==
    ASSUME config \in Configs, Validate(Desired)
    PROVE  PreservedPorts(Desired) = {}
  BY ValidDesired, VLANStatesType DEF Backed, MemberOf, PreservedPorts, PortMap

-----------------------------------------------------------------------------
(***************************************************************************)
(* What the plan's operations write, for a validated configuration.        *)
(***************************************************************************)

\* The merge keeps a port in a VLAN when either side does.
LEMMA MergeIsMember ==
    ASSUME NEW a \in Membership, NEW b \in Membership
    PROVE  /\ MinMembership(a, b) \in Membership
           /\ MinMembership(a, b) \in {a, b}
           /\ MinMembership(a, a) = a
           /\ MinMembership(a, b) = "ignored" => a = "ignored" /\ b = "ignored"
  BY DEF MinMembership, Membership

LEMMA MemberOfType ==
    ASSUME NEW s \in VLANStates, NEW v, NEW p \in Ports
    PROVE  MemberOf(s, v, p) \in Membership
  BY VLANStatesType DEF MemberOf, Membership, PortMap

LEMMA Step1Writes ==
    ASSUME NEW c \in VLANStates, NEW d \in VLANStates
    PROVE  /\ DOMAIN Step1(c, d) = DOMAIN d.vlans
           /\ \A v \in DOMAIN d.vlans :
                 /\ Step1(c, d)[v] \in PortMap
                 /\ \A p \in Ports :
                       Step1(c, d)[v][p] =
                         IF v \in DOMAIN c.vlans
                           THEN MinMembership(c.vlans[v][p], d.vlans[v][p])
                           ELSE d.vlans[v][p]
<1> SUFFICES ASSUME NEW v \in DOMAIN d.vlans
             PROVE  /\ Step1(c, d)[v] \in PortMap
                    /\ \A p \in Ports :
                          Step1(c, d)[v][p] =
                            IF v \in DOMAIN c.vlans
                              THEN MinMembership(c.vlans[v][p], d.vlans[v][p])
                              ELSE d.vlans[v][p]
  BY DEF Step1
<1>1. d.vlans[v] \in PortMap
  BY VLANStatesType
<1>2. CASE v \notin DOMAIN c.vlans
  BY <1>1, <1>2 DEF Step1
<1>3. CASE v \in DOMAIN c.vlans
  <2>1. c.vlans[v] \in PortMap
    BY <1>3, VLANStatesType
  <2>2. Step1(c, d)[v] = [p \in Ports |-> MinMembership(c.vlans[v][p], d.vlans[v][p])]
    BY <1>3 DEF Step1, MergedMembership
  <2>3. \A p \in Ports : MinMembership(c.vlans[v][p], d.vlans[v][p]) \in Membership
    BY <1>1, <2>1, MergeIsMember DEF PortMap
  <2> QED
    BY <1>3, <2>2, <2>3 DEF PortMap
<1> QED
  BY <1>2, <1>3

LEMMA Step2Writes ==
    ASSUME NEW c \in VLANStates, NEW d \in VLANStates, PreservedPorts(d) = {}
    PROVE  /\ DOMAIN Step2(c, d) = DOMAIN c.vlans
           /\ \A v \in DOMAIN c.vlans :
                 /\ Step2(c, d)[v] \in PortMap
                 /\ \A p \in Ports : Step2(c, d)[v][p] = MemberOf(d, v, p)
<1>1. DOMAIN Step2(c, d) = DOMAIN c.vlans
  BY DEF Step2
<1> SUFFICES ASSUME NEW v \in DOMAIN c.vlans
             PROVE  /\ Step2(c, d)[v] \in PortMap
                    /\ \A p \in Ports : Step2(c, d)[v][p] = MemberOf(d, v, p)
  BY <1>1
<1>2. Step2(c, d)[v] = [p \in Ports |-> ExactMembership(c, d, v)[p]]
  BY DEF Step2
<1>3. \A p \in Ports : ExactMembership(c, d, v)[p] = MemberOf(d, v, p)
  BY DEF ExactMembership, MemberOf, IgnoredPorts
<1> QED
  BY <1>2, <1>3, MemberOfType DEF PortMap

LEMMA DeletesAreRemovals ==
    ASSUME NEW c, NEW d, PreservedPorts(d) = {}
    PROVE  Deletes(c, d) = DOMAIN c.vlans \ DOMAIN d.vlans
  BY DEF Deletes, PreserveRemovedVLANs, RemovedVLANs

-----------------------------------------------------------------------------
(***************************************************************************)
(* What a write does to the switch.                                        *)
(***************************************************************************)

LEMMA WithMembershipWrites ==
    ASSUME NEW s \in VLANStates, NEW v \in VIDs, NEW ports \in PortMap
    PROVE  LET t == WithMembership(s, v, ports) IN
           /\ t \in VLANStates
           /\ DOMAIN t.vlans = DOMAIN s.vlans \cup {v}
           /\ t.pvids = s.pvids
           /\ \A w, p : MemberOf(t, w, p) = IF w = v THEN ports[p] ELSE MemberOf(s, w, p)
<1> DEFINE t == WithMembership(s, v, ports)
<1>1. t = [vlans |-> [w \in DOMAIN s.vlans \cup {v} |->
                        IF w = v THEN ports ELSE s.vlans[w]],
           pvids |-> s.pvids]
  BY VLANStatesType DEF WithMembership
<1>2. t \in VLANStates
  <2>1. DOMAIN t.vlans \subseteq VIDs
    BY <1>1, VLANStatesType
  <2>2. t.vlans \in [DOMAIN t.vlans -> PortMap]
    BY <1>1, VLANStatesType
  <2>3. t.pvids \in [Ports -> VIDs]
    BY <1>1, VLANStatesType
  <2> QED
    BY <1>1, <2>1, <2>2, <2>3, VLANStatesType
<1>3. \A w, p : MemberOf(t, w, p) = IF w = v THEN ports[p] ELSE MemberOf(s, w, p)
  BY <1>1 DEF MemberOf
<1> QED
  BY <1>1, <1>2, <1>3

LEMMA WithPVIDsWrites ==
    ASSUME NEW s \in VLANStates, NEW v \in VIDs, NEW batch
    PROVE  LET t == WithPVIDs(s, v, batch) IN
           /\ t \in VLANStates
           /\ t.vlans = s.vlans
           /\ \A p \in Ports : t.pvids[p] = IF p \in batch THEN v ELSE s.pvids[p]
<1> DEFINE t == WithPVIDs(s, v, batch)
<1>1. t = [vlans |-> s.vlans,
           pvids |-> [p \in Ports |-> IF p \in batch THEN v ELSE s.pvids[p]]]
  BY VLANStatesType DEF WithPVIDs
<1>2. t.pvids \in [Ports -> VIDs]
  BY <1>1, VLANStatesType
<1> QED
  BY <1>1, <1>2, VLANStatesType

LEMMA WithoutVLANsWrites ==
    ASSUME NEW s \in VLANStates, NEW batch
    PROVE  LET t == WithoutVLANs(s, batch) IN
           /\ t \in VLANStates
           /\ DOMAIN t.vlans = DOMAIN s.vlans \ batch
           /\ t.pvids = s.pvids
           /\ \A w, p : MemberOf(t, w, p) =
                           IF w \in batch THEN "ignored" ELSE MemberOf(s, w, p)
<1> DEFINE t == WithoutVLANs(s, batch)
<1>1. t = [vlans |-> [w \in DOMAIN s.vlans \ batch |-> s.vlans[w]],
           pvids |-> s.pvids]
  BY VLANStatesType DEF WithoutVLANs
<1>2. t \in VLANStates
  <2>1. DOMAIN t.vlans \subseteq VIDs
    BY <1>1, VLANStatesType
  <2>2. t.vlans \in [DOMAIN t.vlans -> PortMap]
    BY <1>1, VLANStatesType
  <2>3. t.pvids \in [Ports -> VIDs]
    BY <1>1, VLANStatesType
  <2> QED
    BY <1>1, <2>1, <2>2, <2>3, VLANStatesType
<1>3. \A w, p : MemberOf(t, w, p) =
                   IF w \in batch THEN "ignored" ELSE MemberOf(s, w, p)
  BY <1>1 DEF MemberOf
<1> QED
  BY <1>1, <1>2, <1>3

-----------------------------------------------------------------------------
(***************************************************************************)
(* The invariant: every write keeps the switch on the plan's track.        *)
(***************************************************************************)

\* A switch on the track has every PVID backed, whatever is still to send.
LEMMA ReplayedIsBacked ==
    ASSUME NEW s \in VLANStates, NEW c \in VLANStates, NEW d \in VLANStates,
           NEW o \in OpsType, Backed(c), Backed(d), Replayed(s, c, d, o)
    PROVE  Backed(s)
<1> SUFFICES ASSUME NEW p \in Ports PROVE MemberOf(s, s.pvids[p], p) # "ignored"
  BY DEF Backed
<1> DEFINE v == s.pvids[p]
<1>1. v \in VIDs /\ MemberOf(s, v, p) = Expected(c, d, o, v, p)
  BY VLANStatesType DEF Replayed
<1>2. CASE p \in o.pvid
  <2>1. v = c.pvids[p] /\ MemberOf(c, v, p) # "ignored"
    BY <1>2 DEF Replayed, Backed
  <2>2. v \in DOMAIN c.vlans /\ c.vlans[v][p] # "ignored"
    BY <2>1 DEF MemberOf
  <2>3. v \in o.exact
    BY <1>2, <2>2 DEF Replayed, InOrder
  <2>4. c.vlans[v][p] \in Membership
    BY <2>2, VLANStatesType DEF PortMap
  <2>5. CASE v \in DOMAIN d.vlans \ o.widen
    <3>1. d.vlans[v][p] \in Membership
      BY <2>5, VLANStatesType DEF PortMap
    <3> QED
      BY <1>1, <2>2, <2>3, <2>4, <2>5, <3>1, MergeIsMember DEF Expected
  <2>6. CASE v \notin DOMAIN d.vlans \ o.widen
    BY <1>1, <2>2, <2>3, <2>6 DEF Expected
  <2> QED
    BY <2>5, <2>6
<1>3. CASE p \notin o.pvid
  <2>1. v = d.pvids[p] /\ MemberOf(d, v, p) # "ignored"
    BY <1>3 DEF Replayed, Backed
  <2>2. v \in DOMAIN d.vlans /\ d.vlans[v][p] # "ignored"
    BY <2>1 DEF MemberOf
  <2>3. o.widen = {}
    BY <1>3 DEF Replayed, InOrder
  <2>4. CASE v \in DOMAIN c.vlans /\ v \in o.exact
    <3>1. c.vlans[v][p] \in Membership /\ d.vlans[v][p] \in Membership
      BY <2>2, <2>4, VLANStatesType DEF PortMap
    <3> QED
      BY <1>1, <2>2, <2>3, <2>4, <3>1, MergeIsMember DEF Expected
  <2>5. CASE ~(v \in DOMAIN c.vlans /\ v \in o.exact)
    BY <1>1, <2>1, <2>3, <2>5 DEF Expected
  <2> QED
    BY <2>4, <2>5
<1> QED
  BY <1>2, <1>3

\* The facts every write lemma starts from.
Running ==
    /\ TypeOK
    /\ Backed(current)
    /\ Validate(Desired)
    /\ Replayed(switch, current, Desired, ops)

LEMMA RunningTypes ==
    ASSUME Running
    PROVE  /\ switch \in VLANStates /\ current \in VLANStates /\ Desired \in VLANStates
           /\ Backed(Desired)
           /\ ops \in OpsType
           /\ PreservedPorts(Desired) = {}
           /\ DOMAIN Desired.vlans \subseteq VIDs
           /\ DOMAIN current.vlans \subseteq VIDs
           /\ DOMAIN switch.vlans \subseteq VIDs
  BY ValidDesired, NothingPreserved, VLANStatesType DEF Running, TypeOK

\* VLANs nobody asked for that are not about to be deleted.
Surplus(s, o) == (DOMAIN s.vlans \ DOMAIN Desired.vlans) \ o.delete

\* A write that keeps the switch on the track, sent from a running plan, and
\* creates no surplus.
OnTrack(after, rest) ==
    /\ after \in VLANStates
    /\ rest \in OpsType
    /\ rest.delete \subseteq ops.delete
    /\ Replayed(after, current, Desired, rest)
    /\ Surplus(after, rest) \subseteq Surplus(switch, ops)

LEMMA AddOnTrack ==
    ASSUME Running, NEW v \in VIDs, AddDue(ops, v)
    PROVE  OnTrack(IF transport = "http" /\ v \notin DOMAIN switch.vlans
                     THEN WithMembership(switch, v, IgnoredPorts) ELSE switch,
                   [ops EXCEPT !.add = @ \ {v}])
<1> DEFINE rest == [ops EXCEPT !.add = @ \ {v}]
           D == Desired
<1>1. /\ rest \in OpsType /\ rest.widen = ops.widen /\ rest.pvid = ops.pvid
      /\ rest.exact = ops.exact /\ rest.delete = ops.delete
      /\ rest.add \subseteq ops.add /\ v \in DOMAIN D.vlans
  BY RunningTypes DEF OpsType, AddDue, IsLowest, Running, Replayed, InOrder
<1>2. \A w, p : Expected(current, D, rest, w, p) = Expected(current, D, ops, w, p)
  BY <1>1 DEF Expected
<1>3. InOrder(current, D, rest)
  BY <1>1 DEF Running, Replayed, InOrder
<1>4. OnTrack(switch, rest)
  BY <1>1, <1>2, <1>3, RunningTypes DEF OnTrack, Running, Replayed, Surplus
<1>5. ASSUME v \notin DOMAIN switch.vlans
      PROVE  OnTrack(WithMembership(switch, v, IgnoredPorts), rest)
  <2> DEFINE t == WithMembership(switch, v, IgnoredPorts)
  <2>1. IgnoredPorts \in PortMap
    BY DEF IgnoredPorts, PortMap, Membership
  <2>2. /\ t \in VLANStates /\ t.pvids = switch.pvids
        /\ DOMAIN t.vlans = DOMAIN switch.vlans \cup {v}
        /\ \A w, p : MemberOf(t, w, p) =
                        IF w = v THEN IgnoredPorts[p] ELSE MemberOf(switch, w, p)
    BY <2>1, RunningTypes, WithMembershipWrites
  <2>3. \A w \in VIDs, p \in Ports : MemberOf(t, w, p) = MemberOf(switch, w, p)
    BY <1>5, <2>2 DEF MemberOf, IgnoredPorts
  <2>4. Surplus(t, rest) \subseteq Surplus(switch, ops)
    BY <1>1, <2>2 DEF Surplus
  <2>5. \A w \in VIDs, p \in Ports : MemberOf(t, w, p) = Expected(current, D, rest, w, p)
    BY <1>2, <2>3 DEF Running, Replayed
  <2>6. \A p \in Ports :
          t.pvids[p] = IF p \in rest.pvid THEN current.pvids[p] ELSE D.pvids[p]
    BY <1>1, <2>2 DEF Running, Replayed
  <2>7. DOMAIN D.vlans \ rest.widen \subseteq DOMAIN t.vlans
    BY <1>1, <2>2 DEF Running, Replayed
  <2> QED
    BY <1>1, <1>3, <2>2, <2>4, <2>5, <2>6, <2>7 DEF OnTrack, Replayed
<1> QED
  BY <1>4, <1>5

LEMMA WidenOnTrack ==
    ASSUME Running, NEW v \in VIDs, WidenDue(ops, v)
    PROVE  OnTrack(WithMembership(switch, v, Step1(current, Desired)[v]),
                   [ops EXCEPT !.widen = @ \ {v}])
<1> DEFINE rest == [ops EXCEPT !.widen = @ \ {v}]
           D == Desired
           t == WithMembership(switch, v, Step1(current, Desired)[v])
<1>1. /\ rest \in OpsType /\ rest.widen = ops.widen \ {v} /\ rest.pvid = ops.pvid
      /\ rest.exact = ops.exact /\ rest.delete = ops.delete /\ rest.add = ops.add
  BY RunningTypes DEF OpsType
<1>2. /\ v \in ops.widen /\ v \in DOMAIN D.vlans
      /\ ops.pvid = Ports /\ ops.exact = DOMAIN current.vlans
  BY DEF WidenDue, IsLowest, Running, Replayed, InOrder
<1>3. /\ t \in VLANStates /\ t.pvids = switch.pvids
      /\ DOMAIN t.vlans = DOMAIN switch.vlans \cup {v}
      /\ \A w, p : MemberOf(t, w, p) =
                      IF w = v THEN Step1(current, D)[v][p] ELSE MemberOf(switch, w, p)
  <2>1. Step1(current, D)[v] \in PortMap
    BY <1>2, RunningTypes, Step1Writes
  <2> QED
    BY <2>1, RunningTypes, WithMembershipWrites
<1>4. \A p \in Ports : MemberOf(t, v, p) = Expected(current, D, rest, v, p)
  BY <1>1, <1>2, <1>3, RunningTypes, Step1Writes DEF Expected, MemberOf
<1>5. \A w \in VIDs \ {v}, p \in Ports :
        MemberOf(t, w, p) = Expected(current, D, rest, w, p)
  BY <1>1, <1>3 DEF Expected, Running, Replayed
<1>6. InOrder(current, D, rest)
  BY <1>1 DEF Running, Replayed, InOrder
<1>7. DOMAIN D.vlans \ rest.widen \subseteq DOMAIN t.vlans
  BY <1>1, <1>3 DEF Running, Replayed
<1>8. \A p \in Ports :
        t.pvids[p] = IF p \in rest.pvid THEN current.pvids[p] ELSE D.pvids[p]
  BY <1>1, <1>3 DEF Running, Replayed
<1>9. Surplus(t, rest) \subseteq Surplus(switch, ops)
  BY <1>1, <1>2, <1>3 DEF Surplus
<1> QED
  BY <1>1, <1>3, <1>4, <1>5, <1>6, <1>7, <1>8, <1>9 DEF OnTrack, Replayed

LEMMA PVIDsOnTrack ==
    ASSUME Running, NEW v \in VIDs, PVIDDue(ops, Desired, v), NEW batch \in PVIDBatches(v)
    PROVE  OnTrack(WithPVIDs(switch, v, batch), [ops EXCEPT !.pvid = @ \ batch])
<1> DEFINE rest == [ops EXCEPT !.pvid = @ \ batch]
           D == Desired
           t == WithPVIDs(switch, v, batch)
<1>1. /\ rest \in OpsType /\ rest.pvid = ops.pvid \ batch /\ rest.widen = ops.widen
      /\ rest.exact = ops.exact /\ rest.delete = ops.delete /\ rest.add = ops.add
  BY RunningTypes DEF OpsType
<1>2. \A p \in batch : p \in ops.pvid /\ D.pvids[p] = v
  <2>1. batch \subseteq BatchOf(Desired, v) \cap ops.pvid
    BY DEF PVIDBatches
  <2> QED
    BY <2>1 DEF BatchOf
<1>3. ops.widen = {} /\ ops.pvid # {}
  BY DEF PVIDDue, IsLowest
<1>4. /\ t \in VLANStates /\ t.vlans = switch.vlans
      /\ \A p \in Ports : t.pvids[p] = IF p \in batch THEN v ELSE switch.pvids[p]
  BY RunningTypes, WithPVIDsWrites
<1>5. \A w \in VIDs, p \in Ports :
        MemberOf(t, w, p) = Expected(current, D, rest, w, p)
  BY <1>1, <1>4 DEF Expected, MemberOf, Running, Replayed
<1>6. InOrder(current, D, rest)
  BY <1>1, <1>3 DEF Running, Replayed, InOrder
<1>7. \A p \in Ports :
        t.pvids[p] = IF p \in rest.pvid THEN current.pvids[p] ELSE D.pvids[p]
  BY <1>1, <1>2, <1>4 DEF Running, Replayed
<1>8. DOMAIN D.vlans \ rest.widen \subseteq DOMAIN t.vlans
  BY <1>1, <1>4 DEF Running, Replayed
<1>9. Surplus(t, rest) \subseteq Surplus(switch, ops)
  BY <1>1, <1>4 DEF Surplus
<1> QED
  BY <1>1, <1>4, <1>5, <1>6, <1>7, <1>8, <1>9 DEF OnTrack, Replayed

LEMMA ExactOnTrack ==
    ASSUME Running, NEW v \in VIDs, ExactDue(ops, v)
    PROVE  OnTrack(WithMembership(switch, v, Step2(current, Desired)[v]),
                   [ops EXCEPT !.exact = @ \ {v}])
<1> DEFINE rest == [ops EXCEPT !.exact = @ \ {v}]
           D == Desired
           t == WithMembership(switch, v, Step2(current, Desired)[v])
<1>1. /\ rest \in OpsType /\ rest.exact = ops.exact \ {v} /\ rest.widen = ops.widen
      /\ rest.pvid = ops.pvid /\ rest.delete = ops.delete /\ rest.add = ops.add
  BY RunningTypes DEF OpsType
<1>2. /\ v \in DOMAIN current.vlans /\ ops.widen = {} /\ ops.pvid = {}
      /\ v \in DOMAIN D.vlans \cup ops.delete
  BY DEF ExactDue, IsLowest, Running, Replayed, InOrder, RemovedVLANs
<1>3. /\ t \in VLANStates /\ t.pvids = switch.pvids
      /\ DOMAIN t.vlans = DOMAIN switch.vlans \cup {v}
      /\ \A w, p : MemberOf(t, w, p) =
                      IF w = v THEN Step2(current, D)[v][p] ELSE MemberOf(switch, w, p)
  BY <1>2, RunningTypes, Step2Writes, WithMembershipWrites
<1>4. \A p \in Ports : MemberOf(t, v, p) = Expected(current, D, rest, v, p)
  BY <1>1, <1>2, <1>3, RunningTypes, Step2Writes DEF Expected
<1>5. \A w \in VIDs \ {v}, p \in Ports :
        MemberOf(t, w, p) = Expected(current, D, rest, w, p)
  BY <1>1, <1>3 DEF Expected, Running, Replayed
<1>6. InOrder(current, D, rest)
  BY <1>1, <1>2 DEF Running, Replayed, InOrder
<1>7. DOMAIN D.vlans \ rest.widen \subseteq DOMAIN t.vlans
  BY <1>1, <1>3 DEF Running, Replayed
<1>8. \A p \in Ports :
        t.pvids[p] = IF p \in rest.pvid THEN current.pvids[p] ELSE D.pvids[p]
  BY <1>1, <1>3 DEF Running, Replayed
<1>9. Surplus(t, rest) \subseteq Surplus(switch, ops)
  BY <1>1, <1>2, <1>3 DEF Surplus
<1> QED
  BY <1>1, <1>3, <1>4, <1>5, <1>6, <1>7, <1>8, <1>9 DEF OnTrack, Replayed

LEMMA DeletesOnTrack ==
    ASSUME Running, DeleteDue(ops), NEW batch \in DeleteBatches
    PROVE  OnTrack(WithoutVLANs(switch, batch), [ops EXCEPT !.delete = @ \ batch])
<1> DEFINE rest == [ops EXCEPT !.delete = @ \ batch]
           D == Desired
           t == WithoutVLANs(switch, batch)
<1>1. /\ rest \in OpsType /\ rest.delete = ops.delete \ batch /\ rest.widen = ops.widen
      /\ rest.pvid = ops.pvid /\ rest.exact = ops.exact /\ rest.add = ops.add
  BY RunningTypes DEF OpsType
<1>2. ops.widen = {} /\ ops.pvid = {} /\ ops.exact = {}
  BY DEF DeleteDue
<1>3. batch \subseteq ops.delete /\ batch \cap DOMAIN D.vlans = {}
  BY DEF DeleteBatches, Running, Replayed, InOrder, RemovedVLANs
<1>4. /\ t \in VLANStates /\ t.pvids = switch.pvids
      /\ DOMAIN t.vlans = DOMAIN switch.vlans \ batch
      /\ \A w, p : MemberOf(t, w, p) =
                      IF w \in batch THEN "ignored" ELSE MemberOf(switch, w, p)
  BY RunningTypes, WithoutVLANsWrites
<1>5. \A w \in VIDs, p \in Ports :
        MemberOf(t, w, p) = Expected(current, D, rest, w, p)
  BY <1>1, <1>2, <1>3, <1>4 DEF Expected, MemberOf, Running, Replayed
<1>6. InOrder(current, D, rest)
  BY <1>1, <1>2 DEF Running, Replayed, InOrder
<1>7. DOMAIN D.vlans \ rest.widen \subseteq DOMAIN t.vlans
  BY <1>1, <1>2, <1>3, <1>4 DEF Running, Replayed
<1>8. \A p \in Ports :
        t.pvids[p] = IF p \in rest.pvid THEN current.pvids[p] ELSE D.pvids[p]
  BY <1>1, <1>4 DEF Running, Replayed
<1>9. Surplus(t, rest) \subseteq Surplus(switch, ops)
  BY <1>1, <1>4 DEF Surplus
<1> QED
  BY <1>1, <1>4, <1>5, <1>6, <1>7, <1>8, <1>9 DEF OnTrack, Replayed

\* A write, whatever its outcome, keeps the invariant.
LEMMA PerformKeeps ==
    ASSUME IInv, status = "running", NEW outcome \in Outcomes, NEW after, NEW rest,
           OnTrack(after, rest), Perform(outcome, after, rest)
    PROVE  IInv'
<1> USE DEF Perform
<1>1. Running
  BY DEF IInv, Running, Working
<1>2. config' = config /\ allow' = allow /\ pinned' = pinned /\ transport' = transport
      /\ current' = current
      /\ intrusions' = intrusions /\ intruded' = intruded
  BY DEF inputs
<1>3. Desired' = Desired
  BY <1>2 DEF Desired
<1>4. switch' \in {switch, after} /\ switch' \in VLANStates /\ Backed(switch')
  <2>1. Backed(after)
    BY <1>1, RunningTypes, ReplayedIsBacked DEF OnTrack, Running
  <2> QED
    BY <1>1, <2>1, RunningTypes DEF OnTrack, IInv, PVIDsBacked
<1>5. CASE outcome = "ok"
  <2>1. /\ switch' = after /\ ops' = rest /\ failures' = failures
        /\ status' \in {"running", "verify"}
    BY <1>5
  <2>2. TypeOK'
    BY <1>2, <1>4, <2>1 DEF IInv, TypeOK, OnTrack, Statuses
  <2>3. Replayed(switch, current, Desired, ops)'
    BY <1>2, <1>3, <2>1 DEF OnTrack
  <2>4. GuardHeld'
    BY <1>2, <2>1 DEF IInv, GuardHeld, OnTrack
  <2>5. OthersIntruded'
    BY <1>2, <1>3, <2>1 DEF IInv, OthersIntruded, OnTrack, Surplus
  <2> QED
    BY <1>1, <1>2, <1>3, <1>4, <2>1, <2>2, <2>3, <2>4, <2>5
    DEF IInv, PVIDsBacked, Running, Validate
<1>6. CASE outcome # "ok"
  <2>1. /\ ops' = NoOps /\ failures' = failures + 1 /\ failures < MaxFailures
        /\ status' = "failed"
    BY <1>6
  <2>2. TypeOK'
    <3>1. failures' \in 0 .. MaxFailures
      BY <2>1, VlanApplyAssumption DEF IInv, TypeOK
    <3>2. NoOps \in OpsType
      BY DEF NoOps, OpsType
    <3> QED
      BY <1>2, <1>4, <2>1, <3>1, <3>2 DEF IInv, TypeOK, Statuses
  <2> QED
    BY <1>2, <1>4, <2>1, <2>2 DEF IInv, PVIDsBacked, GuardHeld, OthersIntruded, Working
<1> QED
  BY <1>5, <1>6

\* A write is sent only while a plan runs, and leaves the switch on track.
LEMMA WritesOnTrack ==
    ASSUME IInv, NEW outcome \in Outcomes, Write(outcome)
    PROVE  /\ status = "running" /\ Running
           /\ \E after, rest : OnTrack(after, rest) /\ Perform(outcome, after, rest)
<1>1. status = "running"
  BY DEF Write, AddVLAN, WidenMembership, SetPVIDs, ExactMemberships, DeleteVLANs, Perform
<1>2. Running
  BY <1>1 DEF IInv, Running, Working
<1>3. ASSUME NEW v \in VIDs, AddVLAN(v, outcome)
      PROVE  \E after, rest : OnTrack(after, rest) /\ Perform(outcome, after, rest)
  BY <1>2, <1>3, AddOnTrack DEF AddVLAN
<1>4. ASSUME NEW v \in VIDs, WidenMembership(v, outcome)
      PROVE  \E after, rest : OnTrack(after, rest) /\ Perform(outcome, after, rest)
  BY <1>2, <1>4, WidenOnTrack DEF WidenMembership
<1>5. ASSUME NEW v \in VIDs, SetPVIDs(v, outcome)
      PROVE  \E after, rest : OnTrack(after, rest) /\ Perform(outcome, after, rest)
  BY <1>2, <1>5, PVIDsOnTrack DEF SetPVIDs
<1>6. ASSUME NEW v \in VIDs, ExactMemberships(v, outcome)
      PROVE  \E after, rest : OnTrack(after, rest) /\ Perform(outcome, after, rest)
  BY <1>2, <1>6, ExactOnTrack DEF ExactMemberships
<1>7. ASSUME DeleteVLANs(outcome)
      PROVE  \E after, rest : OnTrack(after, rest) /\ Perform(outcome, after, rest)
  BY <1>2, <1>7, DeletesOnTrack DEF DeleteVLANs
<1> QED
  BY <1>1, <1>2, <1>3, <1>4, <1>5, <1>6, <1>7 DEF Write

LEMMA EqualIsSame ==
    ASSUME NEW s \in VLANStates, NEW t \in VLANStates, Equal(s, t)
    PROVE  s = t
<1>1. ASSUME NEW r \in VLANStates PROVE Normalize(r) = r
  <2>1. \A v \in DOMAIN r.vlans : NormalizePorts(r.vlans[v]) = r.vlans[v]
    BY VLANStatesType DEF NormalizePorts, PortMap
  <2>2. r = [vlans |-> r.vlans, pvids |-> r.pvids] /\ r.vlans = [v \in DOMAIN r.vlans |-> r.vlans[v]]
    BY VLANStatesType
  <2> QED
    BY <2>1, <2>2 DEF Normalize
<1> QED
  BY <1>1 DEF Equal

\* A fresh plan is on track before its first write.
LEMMA PlanOnTrack ==
    ASSUME NEW s \in VLANStates, NEW d \in VLANStates, PreservedPorts(d) = {}
    PROVE  /\ Plan(s, d) \in OpsType
           /\ Plan(s, d).delete = RemovedVLANs(s, d)
           /\ Replayed(s, s, d, Plan(s, d))
<1> DEFINE o == Plan(s, d)
<1>1. DOMAIN s.vlans \subseteq VIDs /\ DOMAIN d.vlans \subseteq VIDs
  BY VLANStatesType
<1>2. CASE s = d
  <2>1. o = NoOps
    BY <1>2 DEF Plan
  <2> QED
    BY <1>2, <2>1 DEF NoOps, OpsType, Replayed, InOrder, Expected, RemovedVLANs
<1>3. CASE s # d
  <2>1. o = [add |-> DOMAIN d.vlans \ DOMAIN s.vlans, widen |-> DOMAIN d.vlans,
             pvid |-> Ports, exact |-> DOMAIN s.vlans,
             delete |-> DOMAIN s.vlans \ DOMAIN d.vlans]
    BY <1>3, Step1Writes, Step2Writes, DeletesAreRemovals DEF Plan, AddedVLANs
  <2>2. o \in OpsType
    BY <1>1, <2>1 DEF OpsType
  <2>3. InOrder(s, d, o)
    BY <2>1 DEF InOrder, RemovedVLANs
  <2>4. \A v \in VIDs, p \in Ports : MemberOf(s, v, p) = Expected(s, d, o, v, p)
    BY <2>1 DEF MemberOf, Expected
  <2>5. /\ \A p \in Ports : p \in o.pvid
        /\ DOMAIN d.vlans \ o.widen = {}
        /\ o.delete = RemovedVLANs(s, d)
    BY <2>1 DEF RemovedVLANs
  <2>6. Replayed(s, s, d, o)
    <3> HIDE DEF o
    <3> QED
      BY <2>3, <2>4, <2>5 DEF Replayed
  <2> QED
    BY <2>2, <2>5, <2>6
<1> QED
  BY <1>2, <1>3

\* An empty VLAN from elsewhere changes no membership and takes none away.
LEMMA IntrusionKeeps ==
    ASSUME TypeOK, NEW v \in VIDs, Intrude(v)
    PROVE  /\ switch' \in VLANStates
           /\ switch'.pvids = switch.pvids
           /\ DOMAIN switch'.vlans = DOMAIN switch.vlans \cup {v}
           /\ \A w \in VIDs, p \in Ports : MemberOf(switch', w, p) = MemberOf(switch, w, p)
<1>1. IgnoredPorts \in PortMap
  BY DEF IgnoredPorts, PortMap, Membership
<1>2. /\ switch' \in VLANStates /\ switch'.pvids = switch.pvids
      /\ DOMAIN switch'.vlans = DOMAIN switch.vlans \cup {v}
      /\ \A w, p : MemberOf(switch', w, p) =
                      IF w = v THEN IgnoredPorts[p] ELSE MemberOf(switch, w, p)
  BY <1>1, WithMembershipWrites DEF TypeOK, Intrude
<1> QED
  BY <1>2 DEF Intrude, MemberOf, IgnoredPorts

LEMMA InitIInv == ASSUME Init PROVE IInv
<1>1. switch \in VLANStates /\ Backed(switch) /\ current = switch
  BY VlanApplyAssumption DEF Init
<1>2. NoOps \in OpsType /\ 0 \in 0 .. MaxFailures /\ 0 \in 0 .. MaxIntruded
  BY VlanApplyAssumption DEF NoOps, OpsType
<1> QED
  BY <1>1, <1>2
  DEF Init, IInv, TypeOK, PVIDsBacked, GuardHeld, OthersIntruded, Working, Statuses

LEMMA NextIInv == ASSUME IInv, [Next]_vars PROVE IInv'
<1> USE DEF IInv, PVIDsBacked
<1>1. CASE Begin
  <2>1. UNCHANGED <<switch, config, allow, pinned, transport, current, ops, failures, intrusions, intruded>>
    BY <1>1 DEF Begin, inputs
  <2>2. Desired' = Desired
    BY <2>1 DEF Desired
  <2>3. status' \in {"guard", "refused"} /\ (status' = "guard" => Validate(Desired))
    BY <1>1 DEF Begin
  <2> QED
    BY <2>1, <2>2, <2>3 DEF TypeOK, GuardHeld, OthersIntruded, Working, Statuses, Validate
<1>2. CASE CheckRemovals
  <2>1. /\ UNCHANGED <<switch, config, allow, pinned, transport, current, ops, failures, intrusions>>
        /\ intruded' = {}
    BY <1>2 DEF CheckRemovals, inputs
  <2>2. Desired' = Desired
    BY <2>1 DEF Desired
  <2>3. /\ status = "guard" /\ status' \in {"planning", "refused"}
        /\ status' = "planning" => allow \/ RemovedVLANs(switch, Desired) = {}
    BY <1>2 DEF CheckRemovals, RemovalsAllowed
  <2> QED
    BY <2>1, <2>2, <2>3 DEF TypeOK, GuardHeld, OthersIntruded, Working, Statuses, Validate
<1>3. CASE DriverPlan
  <2>1. UNCHANGED <<switch, config, allow, pinned, transport, failures, intrusions, intruded>>
    BY <1>3 DEF DriverPlan, inputs
  <2>2. Desired' = Desired
    BY <2>1 DEF Desired
  <2>3. /\ status = "planning" /\ current' = switch /\ ops' = Plan(switch, Desired)
        /\ status' \in {"running", "verify"} /\ (status' = "verify" => ops' = NoOps)
    BY <1>3 DEF DriverPlan
  <2>4. Validate(Desired) /\ Desired \in VLANStates /\ PreservedPorts(Desired) = {}
    BY <2>3, ValidDesired, NothingPreserved DEF TypeOK, Working
  <2>5. /\ ops' \in OpsType /\ ops'.delete = RemovedVLANs(switch, Desired)
        /\ Replayed(switch', current', Desired', ops')
    BY <2>1, <2>2, <2>3, <2>4, PlanOnTrack DEF TypeOK
  <2> QED
    BY <2>1, <2>2, <2>3, <2>4, <2>5
    DEF TypeOK, GuardHeld, OthersIntruded, Working, Statuses, Validate, RemovedVLANs
<1>4. CASE Verify
  <2>1. UNCHANGED <<switch, config, allow, pinned, transport, current, ops, failures, intrusions, intruded>>
    BY <1>4 DEF Verify, inputs
  <2>2. status' \in {"applied", "failed"}
    BY <1>4 DEF Verify
  <2> QED
    BY <2>1, <2>2 DEF TypeOK, GuardHeld, OthersIntruded, Working, Statuses
<1>5. CASE ReadFails
  <2>1. /\ UNCHANGED <<switch, config, allow, pinned, transport, current, ops, intrusions, intruded>>
        /\ status' = "failed" /\ failures' = failures + 1 /\ failures < MaxFailures
    BY <1>5 DEF ReadFails, inputs
  <2>2. failures' \in 0 .. MaxFailures
    BY <2>1, VlanApplyAssumption DEF TypeOK
  <2> QED
    BY <2>1, <2>2 DEF TypeOK, GuardHeld, OthersIntruded, Working, Statuses
<1>6. ASSUME NEW outcome \in Outcomes, Write(outcome) PROVE IInv'
  <2>1. PICK after, rest : OnTrack(after, rest) /\ Perform(outcome, after, rest)
    BY <1>6, WritesOnTrack
  <2> QED
    BY <1>6, <2>1, WritesOnTrack, PerformKeeps
<1>7. ASSUME NEW v \in VIDs, Intrude(v) PROVE IInv'
  <2>1. UNCHANGED <<config, allow, pinned, transport, status, current, ops, failures>>
        /\ intruded' = intruded \cup {v}
        /\ intrusions < MaxIntruded /\ intrusions' = intrusions + 1
    BY <1>7 DEF Intrude, inputs
  <2>2. Desired' = Desired
    BY <2>1 DEF Desired
  <2>3. /\ switch' \in VLANStates /\ switch'.pvids = switch.pvids
        /\ DOMAIN switch'.vlans = DOMAIN switch.vlans \cup {v}
        /\ \A w \in VIDs, p \in Ports : MemberOf(switch', w, p) = MemberOf(switch, w, p)
    BY <1>7, IntrusionKeeps
  <2>4. Backed(switch')
    BY <2>3, VLANStatesType DEF Backed, TypeOK
  <2>5. status \in {"running", "verify"} => Replayed(switch', current, Desired, ops)
    BY <2>3 DEF Replayed
  <2>6. GuardHeld'
    BY <2>1, <2>2, <2>3 DEF GuardHeld, RemovedVLANs
  <2>7. OthersIntruded'
    BY <2>1, <2>2, <2>3 DEF OthersIntruded
  <2>8. intrusions' \in 0 .. MaxIntruded
    BY <2>1, VlanApplyAssumption DEF TypeOK
  <2> QED
    BY <2>1, <2>2, <2>3, <2>4, <2>5, <2>6, <2>7, <2>8 DEF TypeOK, Validate
<1>8. CASE UNCHANGED vars
  BY <1>8
  DEF vars, TypeOK, Desired, Validate, Backed, MemberOf, Replayed, GuardHeld, OthersIntruded
<1> QED
  BY <1>1, <1>2, <1>3, <1>4, <1>5, <1>6, <1>7, <1>8 DEF Next, Progress, Outcomes

THEOREM Invariant == Spec => []IInv
<1> QED
  BY InitIInv, NextIInv, PTL DEF Spec

\* Every variable keeps its type, whatever fails and whoever interferes.
THEOREM TypeCorrect == Spec => []TypeOK
<1>1. IInv => TypeOK
  BY DEF IInv
<1> QED
  BY <1>1, Invariant, PTL

\* No apply ever strands a port: between any two writes and after any lost
\* one, its PVID names an existing VLAN that carries it.
THEOREM NoPortStranded == Spec => []PVIDsBacked
<1>1. IInv => PVIDsBacked
  BY DEF IInv
<1> QED
  BY <1>1, Invariant, PTL

\* A switch on the track with nothing left to send has all that was asked for.
LEMMA DoneIsDesired ==
    ASSUME Running, ops.widen = {}, ops.pvid = {}, ops.exact = {}
    PROVE  /\ switch.pvids = Desired.pvids
           /\ \A v \in DOMAIN Desired.vlans :
                 v \in DOMAIN switch.vlans /\ switch.vlans[v] = Desired.vlans[v]
<1>1. switch \in VLANStates /\ Desired \in VLANStates
  BY RunningTypes
<1>2. switch.pvids = Desired.pvids
  <2>1. \A p \in Ports : switch.pvids[p] = Desired.pvids[p]
    BY DEF Running, Replayed
  <2> QED
    BY <1>1, <2>1, VLANStatesType
<1>3. ASSUME NEW v \in DOMAIN Desired.vlans
      PROVE  v \in DOMAIN switch.vlans /\ switch.vlans[v] = Desired.vlans[v]
  <2>1. v \in DOMAIN switch.vlans /\ v \in VIDs
    BY <1>1, VLANStatesType DEF Running, Replayed
  <2>2. \A p \in Ports : MemberOf(switch, v, p) = MemberOf(Desired, v, p)
    BY <2>1 DEF Running, Replayed, Expected
  <2>3. \A p \in Ports : switch.vlans[v][p] = Desired.vlans[v][p]
    BY <2>1, <2>2 DEF MemberOf
  <2>4. switch.vlans[v] \in PortMap /\ Desired.vlans[v] \in PortMap
    BY <1>1, <2>1, VLANStatesType
  <2> QED
    BY <2>1, <2>3, <2>4 DEF PortMap
<1> QED
  BY <1>2, <1>3

\* An apply whose writes were all acknowledged reads back what it asked for,
\* up to VLANs somebody else created, on either channel.
THEOREM AcknowledgedIsDone == Spec => []EndsAsAsked
<1>1. ASSUME IInv PROVE EndsAsAsked
  <2> SUFFICES ASSUME status = "verify" PROVE EndsAsAsked
    BY DEF EndsAsAsked
  <2>1. Running /\ ops = NoOps
    BY <1>1 DEF IInv, Running, Working
  <2>2. DOMAIN switch.vlans \ DOMAIN Desired.vlans \subseteq intruded
    BY <1>1, <2>1 DEF IInv, OthersIntruded, NoOps
  <2> QED
    BY <2>1, <2>2, DoneIsDesired DEF NoOps, EndsAsAsked
<1> QED
  BY <1>1, Invariant, PTL

-----------------------------------------------------------------------------
(***************************************************************************)
(* What a step may never do.                                               *)
(***************************************************************************)

\* Only a delete takes a VLAN away, and it takes planned ones only.
LEMMA OnlyDeletesRemove ==
    ASSUME IInv, [Next]_vars, NEW v \in DOMAIN switch.vlans, v \notin DOMAIN switch'.vlans
    PROVE  status = "running" /\ DeleteDue(ops) /\ v \in ops.delete
<1>1. ASSUME NEW outcome \in Outcomes, Write(outcome)
      PROVE  status = "running" /\ DeleteDue(ops) /\ v \in ops.delete
  <2>1. Running /\ status = "running"
    BY <1>1, WritesOnTrack
  <2>2. ASSUME NEW w \in VIDs, AddVLAN(w, outcome) PROVE FALSE
    <3>1. IgnoredPorts \in PortMap
      BY DEF IgnoredPorts, PortMap, Membership
    <3>2. DOMAIN switch.vlans \subseteq DOMAIN WithMembership(switch, w, IgnoredPorts).vlans
      BY <2>1, <3>1, RunningTypes, WithMembershipWrites
    <3> QED
      BY <2>2, <3>2 DEF AddVLAN, Perform
  <2>3. ASSUME NEW w \in VIDs, WidenMembership(w, outcome) PROVE FALSE
    <3>1. w \in DOMAIN Desired.vlans
      BY <2>1, <2>3 DEF WidenMembership, WidenDue, IsLowest, Running, Replayed, InOrder
    <3>2. Step1(current, Desired)[w] \in PortMap
      BY <2>1, <3>1, RunningTypes, Step1Writes
    <3>3. DOMAIN switch.vlans
            \subseteq DOMAIN WithMembership(switch, w, Step1(current, Desired)[w]).vlans
      BY <2>1, <3>2, RunningTypes, WithMembershipWrites
    <3> QED
      BY <2>3, <3>3 DEF WidenMembership, Perform
  <2>4. ASSUME NEW w \in VIDs, SetPVIDs(w, outcome) PROVE FALSE
    <3>1. PICK batch \in PVIDBatches(w) :
            Perform(outcome, WithPVIDs(switch, w, batch), [ops EXCEPT !.pvid = @ \ batch])
      BY <2>4 DEF SetPVIDs
    <3>2. WithPVIDs(switch, w, batch).vlans = switch.vlans
      BY <2>1, RunningTypes, WithPVIDsWrites
    <3> QED
      BY <3>1, <3>2 DEF Perform
  <2>5. ASSUME NEW w \in VIDs, ExactMemberships(w, outcome) PROVE FALSE
    <3>1. w \in DOMAIN current.vlans
      BY <2>1, <2>5 DEF ExactMemberships, ExactDue, IsLowest, Running, Replayed, InOrder
    <3>2. Step2(current, Desired)[w] \in PortMap
      BY <2>1, <3>1, RunningTypes, Step2Writes
    <3>3. DOMAIN switch.vlans
            \subseteq DOMAIN WithMembership(switch, w, Step2(current, Desired)[w]).vlans
      BY <2>1, <3>2, RunningTypes, WithMembershipWrites
    <3> QED
      BY <2>5, <3>3 DEF ExactMemberships, Perform
  <2>6. ASSUME DeleteVLANs(outcome) PROVE DeleteDue(ops) /\ v \in ops.delete
    <3>1. PICK batch \in DeleteBatches :
            Perform(outcome, WithoutVLANs(switch, batch), [ops EXCEPT !.delete = @ \ batch])
      BY <2>6 DEF DeleteVLANs
    <3>2. batch \subseteq ops.delete
      BY DEF DeleteBatches
    <3>3. DOMAIN WithoutVLANs(switch, batch).vlans = DOMAIN switch.vlans \ batch
      BY <2>1, RunningTypes, WithoutVLANsWrites
    <3>4. switch' = switch \/ switch' = WithoutVLANs(switch, batch)
      BY <3>1 DEF Perform
    <3>5. v \in ops.delete
      BY <3>2, <3>3, <3>4
    <3> QED
      BY <2>6, <3>5 DEF DeleteVLANs
  <2> QED
    BY <1>1, <2>1, <2>2, <2>3, <2>4, <2>5, <2>6 DEF Write
<1>2. ASSUME NEW w \in VIDs, Intrude(w) PROVE FALSE
  BY <1>2, IntrusionKeeps DEF IInv
<1>3. ASSUME UNCHANGED switch PROVE FALSE
  BY <1>3
<1> QED
  BY <1>1, <1>2, <1>3
  DEF Next, Progress, Outcomes, Begin, CheckRemovals, DriverPlan, ReadFails, Verify, vars

\* A VLAN is deleted only once the rest of the desired state is in effect.
THEOREM DeletionComesLast == Spec => DeleteIsLast
<1>1. ASSUME IInv, [Next]_vars
      PROVE  \/ DOMAIN switch.vlans \subseteq DOMAIN switch'.vlans
             \/ /\ switch.pvids = Desired.pvids
                /\ \A v \in DOMAIN Desired.vlans :
                      v \in DOMAIN switch.vlans /\ switch.vlans[v] = Desired.vlans[v]
  <2> SUFFICES ASSUME NEW x \in DOMAIN switch.vlans, x \notin DOMAIN switch'.vlans
               PROVE  /\ switch.pvids = Desired.pvids
                      /\ \A v \in DOMAIN Desired.vlans :
                            v \in DOMAIN switch.vlans /\ switch.vlans[v] = Desired.vlans[v]
    OBVIOUS
  <2>1. Running /\ DeleteDue(ops)
    BY <1>1, OnlyDeletesRemove DEF IInv, Running, Working
  <2> QED
    BY <2>1, DoneIsDesired DEF DeleteDue
<1> QED
  BY <1>1, Invariant, PTL DEF Spec, DeleteIsLast

\* With allow_vlan_deletions off, an apply deletes no VLAN that its own guard
\* read; what it may delete appeared between the guard's and the driver's read.
THEOREM DeletionIsGuarded == Spec => GuardedDeletion
<1>1. ASSUME IInv, [Next]_vars
      PROVE  ~allow => DOMAIN switch.vlans \ DOMAIN switch'.vlans
                           \subseteq intruded \cap DOMAIN current.vlans
  <2>1. status = "running" => ops.delete \subseteq DOMAIN current.vlans
    BY <1>1 DEF IInv, Replayed, InOrder, RemovedVLANs
  <2> QED
    BY <1>1, <2>1, OnlyDeletesRemove DEF IInv, GuardHeld
<1> QED
  BY <1>1, Invariant, PTL DEF Spec, GuardedDeletion

-----------------------------------------------------------------------------
(***************************************************************************)
(* The apply implements HitlessUpdate.                                     *)
(***************************************************************************)

LEMMA LinksAre ==
    ASSUME NEW s
    PROVE  /\ LinksOf(s) \subseteq VIDs \X Ports \X {"untagged", "tagged"}
           /\ \A v \in VIDs, p \in Ports, m \in {"untagged", "tagged"} :
                 <<v, p, m>> \in LinksOf(s) <=> MemberOf(s, v, p) = m
  BY DEF LinksOf

LEMMA BackedIsServed ==
    ASSUME NEW s \in VLANStates, Backed(s)
    PROVE  Hitless!Served(LinksOf(s), s.pvids)
<1> SUFFICES ASSUME NEW p \in Ports
             PROVE  \E m \in {"untagged", "tagged"} : <<s.pvids[p], p, m>> \in LinksOf(s)
  BY DEF Hitless!Served
<1>1. s.pvids[p] \in VIDs
  BY VLANStatesType
<1>2. MemberOf(s, s.pvids[p], p) \in {"untagged", "tagged"}
  BY MemberOfType DEF Backed, Membership
<1> QED
  BY <1>1, <1>2, LinksAre

\* A switch on the track serves old or new links only, and all they share.
LEMMA ReplayedLinks ==
    ASSUME NEW s \in VLANStates, NEW c \in VLANStates, NEW d \in VLANStates,
           NEW o, Replayed(s, c, d, o)
    PROVE  /\ LinksOf(s) \subseteq LinksOf(c) \cup LinksOf(d)
           /\ LinksOf(c) \cap LinksOf(d) \subseteq LinksOf(s)
<1>1. \A v \in VIDs, p \in Ports :
        /\ MemberOf(s, v, p) \in {"ignored", MemberOf(c, v, p), MemberOf(d, v, p)}
        /\ MemberOf(c, v, p) = MemberOf(d, v, p) /\ MemberOf(c, v, p) # "ignored"
              => MemberOf(s, v, p) = MemberOf(c, v, p)
  <2> SUFFICES ASSUME NEW v \in VIDs, NEW p \in Ports
               PROVE  /\ MemberOf(s, v, p)
                            \in {"ignored", MemberOf(c, v, p), MemberOf(d, v, p)}
                      /\ MemberOf(c, v, p) = MemberOf(d, v, p)
                         /\ MemberOf(c, v, p) # "ignored"
                           => MemberOf(s, v, p) = MemberOf(c, v, p)
    OBVIOUS
  <2>1. MemberOf(s, v, p) = Expected(c, d, o, v, p)
    BY DEF Replayed
  <2>2. CASE v \in DOMAIN c.vlans /\ v \in DOMAIN d.vlans
    <3>1. c.vlans[v][p] \in Membership /\ d.vlans[v][p] \in Membership
      BY <2>2, VLANStatesType DEF PortMap
    <3> QED
      BY <2>1, <2>2, <3>1, MergeIsMember DEF Expected, MemberOf
  <2>3. CASE v \notin DOMAIN c.vlans \/ v \notin DOMAIN d.vlans
    BY <2>1, <2>3 DEF Expected, MemberOf
  <2> QED
    BY <2>2, <2>3
<1>2. ASSUME NEW l \in LinksOf(s) PROVE l \in LinksOf(c) \cup LinksOf(d)
  BY <1>1 DEF LinksOf
<1>3. ASSUME NEW l \in LinksOf(c) \cap LinksOf(d) PROVE l \in LinksOf(s)
  BY <1>1 DEF LinksOf
<1> QED
  BY <1>2, <1>3

LEMMA StepIsHitless ==
    ASSUME IInv, IInv', [Next]_vars
    PROVE  [Hitless!Next]_<<LinksOf(switch), switch.pvids, LinksOf(current), Goal, Phase>>
<1>1. config' = config /\ Desired' = Desired /\ Goal' = Goal
  <2>1. config' = config
    BY WritesOnTrack
    DEF Next, Progress, Outcomes, Begin, CheckRemovals, DriverPlan, ReadFails, Verify,
        Perform, Intrude, inputs, vars
  <2> QED
    BY <2>1 DEF Desired, Goal, Validate
<1>2. switch \in VLANStates /\ current \in VLANStates /\ switch' \in VLANStates
  BY DEF IInv, TypeOK
<1>3. status \in {"running", "verify"} =>
        /\ Validate(Desired) /\ Desired \in VLANStates /\ Goal = LinksOf(Desired)
        /\ Replayed(switch, current, Desired, ops)
  BY ValidDesired DEF IInv, TypeOK, Working, Goal
<1>4. ASSUME UNCHANGED <<switch, current>>, Phase = Phase'
      PROVE  UNCHANGED <<LinksOf(switch), switch.pvids, LinksOf(current), Goal, Phase>>
  BY <1>1, <1>4
<1>5. ASSUME UNCHANGED <<switch, current>>, Phase = "done", Phase' = "rest"
      PROVE  Hitless!Next
  BY <1>1, <1>5 DEF Hitless!Next, Hitless!Forget
<1>6. CASE Begin
  <2>1. UNCHANGED <<switch, current>> /\ Phase' = "rest" /\ Phase \in {"rest", "done"}
    BY <1>6 DEF Begin, Resting, Phase
  <2> QED
    BY <1>4, <1>5, <2>1
<1>7. CASE CheckRemovals
  <2>1. UNCHANGED <<switch, current>> /\ Phase' = "rest" /\ Phase = "rest"
    BY <1>7 DEF CheckRemovals, Phase
  <2> QED
    BY <1>4, <2>1
<1>8. CASE DriverPlan
  <2>1. /\ switch' = switch /\ current' = switch
        /\ Phase = "rest" /\ Phase' = "moving"
    BY <1>8 DEF DriverPlan, Phase
  <2> QED
    BY <1>1, <2>1 DEF Hitless!Next, Hitless!Start
<1>9. ASSUME Phase = "moving", Phase' \in {"moving", "rest"}, current' = current,
             LinksOf(switch') \subseteq LinksOf(current) \cup Goal,
             LinksOf(current) \cap Goal \subseteq LinksOf(switch')
      PROVE  Hitless!Next
  <2>1. switch'.pvids \in [Ports -> VIDs]
    BY <1>2, VLANStatesType
  <2>2. Hitless!Served(LinksOf(switch'), switch'.pvids)
    BY <1>2, BackedIsServed DEF IInv, PVIDsBacked
  <2> QED
    BY <1>1, <1>9, <2>1, <2>2 DEF Hitless!Next, Hitless!Move
<1>10. CASE Verify
  <2>1. UNCHANGED <<switch, current>> /\ status = "verify" /\ Phase = "moving"
    BY <1>10 DEF Verify, Phase
  <2>2. CASE Equal(switch, Desired) /\ status' = "applied"
    <3>1. LinksOf(switch) = Goal /\ Phase' = "done"
      BY <1>2, <1>3, <2>1, <2>2, EqualIsSame DEF Phase
    <3> QED
      BY <1>1, <2>1, <3>1 DEF Hitless!Next, Hitless!Finish
  <2>3. CASE status' = "failed"
    <3>1. Phase' = "rest"
      BY <2>3 DEF Phase
    <3> QED
      BY <1>2, <1>3, <1>9, <2>1, <3>1, ReplayedLinks
  <2> QED
    BY <1>10, <2>2, <2>3 DEF Verify
<1>11. CASE ReadFails
  <2>1. UNCHANGED <<switch, current>> /\ Phase' = "rest"
        /\ status \in {"guard", "planning", "verify"}
    BY <1>11 DEF ReadFails, Phase
  <2>2. CASE status = "verify"
    <3>1. Phase = "moving"
      BY <2>2 DEF Phase
    <3> QED
      BY <1>2, <1>3, <1>9, <2>1, <2>2, <3>1, ReplayedLinks
  <2>3. CASE status # "verify"
    <3>1. Phase = "rest"
      BY <2>1, <2>3 DEF Phase
    <3> QED
      BY <1>4, <2>1, <3>1
  <2> QED
    BY <2>2, <2>3
<1>12. ASSUME NEW outcome \in Outcomes, Write(outcome) PROVE Hitless!Next
  <2>1. PICK after, rest : OnTrack(after, rest) /\ Perform(outcome, after, rest)
    BY <1>12, WritesOnTrack
  <2>2. /\ status = "running" /\ Phase = "moving" /\ Phase' \in {"moving", "rest"}
        /\ current' = current /\ switch' \in {switch, after}
    BY <2>1 DEF Perform, Phase
  <2>3. /\ LinksOf(switch') \subseteq LinksOf(current) \cup Goal
        /\ LinksOf(current) \cap Goal \subseteq LinksOf(switch')
    BY <1>2, <1>3, <2>1, <2>2, ReplayedLinks DEF OnTrack
  <2> QED
    BY <1>9, <2>2, <2>3
<1>13. ASSUME NEW v \in VIDs, Intrude(v)
       PROVE  UNCHANGED <<LinksOf(switch), switch.pvids, LinksOf(current), Goal, Phase>>
  <2>1. LinksOf(switch') = LinksOf(switch) /\ switch'.pvids = switch.pvids
    BY <1>13, IntrusionKeeps DEF IInv, LinksOf
  <2>2. UNCHANGED <<current, status>>
    BY <1>13 DEF Intrude
  <2>3. Phase' = Phase /\ LinksOf(current') = LinksOf(current)
    BY <2>2 DEF Phase
  <2> QED
    BY <1>1, <2>1, <2>3
<1>14. CASE UNCHANGED vars
  <2>1. UNCHANGED <<switch, current>> /\ Phase' = Phase
    BY <1>14 DEF vars, Phase
  <2> QED
    BY <1>4, <2>1
<1> QED
  BY <1>6, <1>7, <1>8, <1>10, <1>11, <1>12, <1>13, <1>14 DEF Next, Progress, Outcomes

\* Every behaviour of an apply, failures and retries included, is a hitless
\* update of the links the switch serves.
THEOREM ApplyIsHitless == Spec => HitlessSpec
<1>1. Init => Hitless!Init
  <2> SUFFICES ASSUME Init PROVE Hitless!Init
    OBVIOUS
  <2>1. IInv
    BY InitIInv
  <2>2. switch \in VLANStates /\ Backed(switch) /\ current = switch /\ Phase = "rest"
    BY <2>1 DEF IInv, TypeOK, PVIDsBacked, Init, Phase
  <2>3. Hitless!Served(LinksOf(switch), switch.pvids) /\ switch.pvids \in [Ports -> VIDs]
    BY <2>2, BackedIsServed, VLANStatesType
  <2>4. LinksOf(switch) \subseteq Hitless!Link /\ Goal \subseteq Hitless!Link
    BY LinksAre DEF Goal, Hitless!Link
  <2> QED
    BY <2>2, <2>3, <2>4 DEF Hitless!Init
<1>2. IInv /\ IInv' /\ [Next]_vars =>
        [Hitless!Next]_<<LinksOf(switch), switch.pvids, LinksOf(current), Goal, Phase>>
  BY StepIsHitless
<1> QED
  BY <1>1, <1>2, Invariant, PTL DEF Spec, HitlessSpec, Hitless!Spec
=============================================================================
