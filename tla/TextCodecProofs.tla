---------------------------- MODULE TextCodecProofs ----------------------------
(***************************************************************************)
(* Lemmas about the codec of TextCodec, for any number of ports and any    *)
(* VLAN ids: what a rendered file reads as, whatever the switch made of it *)
(* and whatever was written into the other namespace since.                *)
(***************************************************************************)
EXTENDS TextCodec, TLAPS

USE PortCountAssumption, CodecVIDsAssumption DEF DefaultPVID

-----------------------------------------------------------------------------
(* Types *)

LEMMA VIDsPositive == \A v \in VIDs : v > 0
<1> TAKE v \in VIDs
<1>1. v \in Nat /\ v # 0
  OBVIOUS
<1> QED
  BY <1>1

LEMMA FileType ==
    \A f : f \in File <=>
        /\ f = [declared |-> f.declared, members |-> f.members, pvids |-> f.pvids,
                disabled |-> f.disabled, unparsed |-> f.unparsed,
                sections |-> f.sections, rest |-> f.rest]
        /\ f.declared \in SUBSET VIDs
        /\ f.members \in [VIDs -> [Ports -> Lines]]
        /\ f.pvids \in PVIDLines
        /\ f.disabled \in SUBSET Ports
        /\ f.unparsed \in BOOLEAN
        /\ f.sections \in SUBSET Ports
        /\ f.rest \in BOOLEAN
  BY DEF File

\* A union of function sets is easier to use as a type and a bound on the domain.
LEMMA PVIDLinesType ==
    \A g : g \in PVIDLines <=> DOMAIN g \subseteq Ports /\ g \in [DOMAIN g -> VIDs]
  BY DEF PVIDLines

LEMMA VLANStatesType ==
    \A s : s \in VLANStates <=>
        /\ s = [vlans |-> s.vlans, pvids |-> s.pvids]
        /\ DOMAIN s.vlans \subseteq VIDs
        /\ s.vlans \in [DOMAIN s.vlans -> [Ports -> Membership]]
        /\ s.pvids \in [Ports -> VIDs]
  BY DEF VLANStates

LEMMA MemberOfType ==
    ASSUME NEW s \in VLANStates, NEW v, NEW p \in Ports
    PROVE  MemberOf(s, v, p) \in Membership
<1>1. s.vlans \in [DOMAIN s.vlans -> [Ports -> Membership]]
  BY VLANStatesType
<1> QED
  BY <1>1 DEF MemberOf, Membership

\* Two states are the same when they have the same VLANs, memberships and PVIDs.
LEMMA SameState ==
    ASSUME NEW s \in VLANStates, NEW t \in VLANStates,
           DOMAIN s.vlans = DOMAIN t.vlans,
           \A v \in VIDs, p \in Ports : MemberOf(s, v, p) = MemberOf(t, v, p),
           \A p \in Ports : s.pvids[p] = t.pvids[p]
    PROVE  s = t
<1>1. /\ s = [vlans |-> s.vlans, pvids |-> s.pvids]
      /\ t = [vlans |-> t.vlans, pvids |-> t.pvids]
      /\ DOMAIN s.vlans \subseteq VIDs
      /\ s.vlans \in [DOMAIN s.vlans -> [Ports -> Membership]]
      /\ t.vlans \in [DOMAIN s.vlans -> [Ports -> Membership]]
      /\ s.pvids \in [Ports -> VIDs] /\ t.pvids \in [Ports -> VIDs]
  BY VLANStatesType
<1>2. \A v \in DOMAIN s.vlans, p \in Ports : s.vlans[v][p] = t.vlans[v][p]
  BY <1>1 DEF MemberOf
<1>3. \A v \in DOMAIN s.vlans : s.vlans[v] = t.vlans[v]
  BY <1>1, <1>2
<1>4. s.vlans = t.vlans
  BY <1>1, <1>3
<1>5. s.pvids = t.pvids
  BY <1>1
<1> QED
  BY <1>1, <1>4, <1>5

LEMMA LineType ==
    ASSUME NEW f \in File, NEW v \in VIDs, NEW p \in Ports
    PROVE  Line(f, v, p) \in Lines
<1>1. f.members \in [VIDs -> [Ports -> Lines]]
  BY FileType
<1> QED
  BY <1>1 DEF Line, Lines

LEMMA PVIDOfType ==
    ASSUME NEW f \in File, NEW p \in Ports
    PROVE  PVIDOf(f, p) \in VIDs
<1>1. f.pvids \in [DOMAIN f.pvids -> VIDs]
  BY FileType, PVIDLinesType
<1> QED
  BY <1>1 DEF PVIDOf

LEMMA DecodeVLANsType ==
    ASSUME NEW f \in File
    PROVE  DecodeVLANs(f) \in VLANStates
<1> DEFINE d == DecodeVLANs(f)
<1>1. InferVLAN1(f) \in [Ports -> Membership]
  BY LineType DEF InferVLAN1, Lines, Membership
<1>2. \A v \in VIDs : AccessMembership(f, v) \in [Ports -> Membership]
  BY LineType DEF AccessMembership, Lines, Membership
<1>3. Declared(f) \subseteq VIDs
  BY FileType DEF Declared
<1>4. d.pvids \in [Ports -> VIDs]
  BY PVIDOfType DEF DecodeVLANs
<1>5. DOMAIN d.vlans \subseteq VIDs
  BY <1>3 DEF DecodeVLANs
<1>6. d.vlans \in [DOMAIN d.vlans -> [Ports -> Membership]]
  BY <1>1, <1>2, <1>3 DEF DecodeVLANs
<1>7. d = [vlans |-> d.vlans, pvids |-> d.pvids]
  BY DEF DecodeVLANs
<1> HIDE DEF d
<1> QED
  BY <1>4, <1>5, <1>6, <1>7, VLANStatesType DEF d

LEMMA DecodePortsType ==
    ASSUME NEW f
    PROVE  DecodePorts(f) \in [Ports -> BOOLEAN]
  BY DEF DecodePorts

LEMMA VLANLineType ==
    ASSUME NEW s \in VLANStates, NEW v, NEW p \in Ports
    PROVE  VLANLine(s, v, p) \in Lines
  BY MemberOfType DEF VLANLine, Lines, Membership

LEMMA RenderVLANsType ==
    ASSUME NEW f \in File, NEW s \in VLANStates
    PROVE  /\ RenderVLANs(f, s) \in File
           /\ RenderVLANs(f, s).disabled = f.disabled
           /\ RenderVLANs(f, s).sections = f.sections
<1> DEFINE m == [v \in VIDs |-> [p \in Ports |-> VLANLine(s, v, p)]]
           w == [p \in PVIDsToWrite(s) |-> s.pvids[p]]
           g == RenderVLANs(f, s)
<1>1. m \in [VIDs -> [Ports -> Lines]]
  BY VLANLineType
<1>2. w \in PVIDLines
  BY VLANStatesType, PVIDLinesType DEF PVIDsToWrite
<1>3. DOMAIN s.vlans \ {1} \in SUBSET VIDs
  BY VLANStatesType
<1>4. g = [f EXCEPT !.declared = DOMAIN s.vlans \ {1}, !.members = m, !.pvids = w,
                    !.unparsed = FALSE]
  BY DEF RenderVLANs
<1> HIDE DEF m, w, g
<1>5. g = [declared |-> DOMAIN s.vlans \ {1}, members |-> m, pvids |-> w,
           disabled |-> f.disabled, unparsed |-> FALSE,
           sections |-> f.sections, rest |-> f.rest]
  BY <1>4 DEF File
<1>6. g \in File
  BY <1>1, <1>2, <1>3, <1>5 DEF File
<1> QED
  BY <1>5, <1>6 DEF g

LEMMA RenderPortsType ==
    ASSUME NEW f \in File, NEW e
    PROVE  /\ RenderPorts(f, e) \in File
           /\ RenderPorts(f, e).declared = f.declared
           /\ RenderPorts(f, e).members = f.members
           /\ RenderPorts(f, e).pvids = f.pvids
           /\ RenderPorts(f, e).unparsed = f.unparsed
           /\ RenderPorts(f, e).sections = f.sections
           /\ RenderPorts(f, e).disabled = {p \in f.sections : ~e[p]}
  BY FileType DEF RenderPorts

LEMMA CutBeforeType ==
    ASSUME NEW f \in File, NEW n
    PROVE  CutBefore(f, n) \in File
<1> DEFINE kept == {p \in f.sections : p < n}
           w == [p \in DOMAIN f.pvids \cap kept |-> f.pvids[p]]
<1>1. /\ kept \in SUBSET Ports
      /\ f.disabled \cap kept \in SUBSET Ports
  BY FileType
<1>2. w \in PVIDLines
  BY FileType, PVIDLinesType
<1> HIDE DEF kept, w
<1>3. CutBefore(f, n) = [f EXCEPT !.sections = kept, !.disabled = f.disabled \cap kept,
                                  !.rest = FALSE, !.pvids = w]
  BY DEF CutBefore, kept, w
<1>4. CutBefore(f, n) = [declared |-> f.declared, members |-> f.members, pvids |-> w,
                         disabled |-> f.disabled \cap kept, unparsed |-> f.unparsed,
                         sections |-> kept, rest |-> FALSE]
  <2>1. f = [declared |-> f.declared, members |-> f.members, pvids |-> f.pvids,
             disabled |-> f.disabled, unparsed |-> f.unparsed,
             sections |-> f.sections, rest |-> f.rest]
    BY FileType
  <2>2. QED
    BY <1>3, <2>1
<1> QED
  BY <1>1, <1>2, <1>4, FileType DEF File

LEMMA WithoutAccessLinesType ==
    ASSUME NEW f \in File
    PROVE  /\ WithoutAccessLines(f) \in File
           /\ WithoutAccessLines(f).declared = f.declared
           /\ WithoutAccessLines(f).pvids = f.pvids
           /\ WithoutAccessLines(f).unparsed = f.unparsed
           /\ WithoutAccessLines(f).disabled = f.disabled
           /\ WithoutAccessLines(f).sections = f.sections
           /\ \A v \in VIDs, p \in Ports :
                 WithoutAccessLines(f).members[v][p] =
                     IF PVIDOf(f, p) = v /\ v # 1 /\ f.members[v][p] = "untagged"
                       THEN "none" ELSE f.members[v][p]
<1> DEFINE m == [v \in VIDs |-> [p \in Ports |->
            IF PVIDOf(f, p) = v /\ v # DefaultPVID /\ f.members[v][p] = "untagged"
              THEN "none" ELSE f.members[v][p]]]
<1>1. m \in [VIDs -> [Ports -> Lines]]
  BY FileType DEF Lines
<1>2. \A v \in VIDs, p \in Ports :
          m[v][p] = IF PVIDOf(f, p) = v /\ v # 1 /\ f.members[v][p] = "untagged"
                      THEN "none" ELSE f.members[v][p]
  OBVIOUS
<1>3. WithoutAccessLines(f) = [f EXCEPT !.members = m]
  BY DEF WithoutAccessLines
<1> HIDE DEF m
<1> QED
  BY <1>1, <1>2, <1>3, FileType

LEMMA DeclaringType ==
    ASSUME NEW f \in File
    PROVE  /\ Declaring(f) \in File
           /\ Declaring(f).declared = f.declared \cup {1}
           /\ Declaring(f).members = f.members
           /\ Declaring(f).pvids = f.pvids
           /\ Declaring(f).unparsed = f.unparsed
           /\ Declaring(f).disabled = f.disabled
           /\ Declaring(f).sections = f.sections
  BY FileType DEF Declaring

\* Whatever the switch makes of a file keeps the port settings.
LEMMA ReserialisedType ==
    ASSUME NEW f \in File, NEW g \in Reserialised(f)
    PROVE  g \in File /\ g.disabled = f.disabled /\ g.sections = f.sections
<1>1. WithoutAccessLines(f) \in File
  BY WithoutAccessLinesType
<1> QED
  BY <1>1, WithoutAccessLinesType, DeclaringType DEF Reserialised

-----------------------------------------------------------------------------
(***************************************************************************)
(* A file that stands for a VLAN state: what RenderVLANs writes, up to a   *)
(* declaration of VLAN 1 and to untagged lines that the PVIDs say again.   *)
(***************************************************************************)
Implied(s, v, p) == VLANLine(s, v, p) = "untagged" /\ s.pvids[p] = v

StandsFor(f, s) ==
    /\ f \in File /\ ~f.unparsed
    /\ f.declared \ {1} = DOMAIN s.vlans \ {1}
    /\ \A p \in Ports : PVIDOf(f, p) = s.pvids[p]
    /\ \A v \in VIDs, p \in Ports :
          \/ f.members[v][p] = VLANLine(s, v, p)
          \/ f.members[v][p] = "none" /\ Implied(s, v, p)

LEMMA RenderedStands ==
    ASSUME NEW f \in File, NEW s \in VLANStates
    PROVE  StandsFor(RenderVLANs(f, s), s)
<1> DEFINE g == RenderVLANs(f, s)
<1>1. g \in File
  BY RenderVLANsType
<1>2. /\ g.declared = DOMAIN s.vlans \ {1} /\ ~g.unparsed
      /\ g.members = [v \in VIDs |-> [p \in Ports |-> VLANLine(s, v, p)]]
      /\ g.pvids = [p \in PVIDsToWrite(s) |-> s.pvids[p]]
  BY DEF RenderVLANs
<1>3. \A p \in Ports : PVIDOf(g, p) = s.pvids[p]
  BY <1>2 DEF PVIDOf, PVIDsToWrite
<1>4. \A v \in VIDs, p \in Ports : g.members[v][p] = VLANLine(s, v, p)
  BY <1>2
<1> HIDE DEF g
<1> QED
  BY <1>1, <1>2, <1>3, <1>4 DEF StandsFor, g

\* Rendering the port settings leaves the VLANs alone.
LEMMA PortsPassThrough ==
    ASSUME NEW f, NEW s, StandsFor(f, s), NEW e
    PROVE  StandsFor(RenderPorts(f, e), s)
  BY RenderPortsType DEF StandsFor, PVIDOf

LEMMA WithoutAccessLinesStands ==
    ASSUME NEW f, NEW s, StandsFor(f, s)
    PROVE  StandsFor(WithoutAccessLines(f), s)
<1> DEFINE g == WithoutAccessLines(f)
<1>1. f \in File
  BY DEF StandsFor
<1>2. /\ g \in File /\ g.declared = f.declared /\ g.pvids = f.pvids
      /\ g.unparsed = f.unparsed
  BY <1>1, WithoutAccessLinesType
<1>3. \A v \in VIDs, p \in Ports :
          \/ g.members[v][p] = f.members[v][p]
          \/ /\ g.members[v][p] = "none" /\ PVIDOf(f, p) = v
             /\ f.members[v][p] = "untagged"
  BY <1>1, WithoutAccessLinesType
<1>4. \A p \in Ports : PVIDOf(g, p) = PVIDOf(f, p)
  BY <1>2 DEF PVIDOf
<1> HIDE DEF g
<1>5. \A v \in VIDs, p \in Ports :
          \/ g.members[v][p] = VLANLine(s, v, p)
          \/ g.members[v][p] = "none" /\ Implied(s, v, p)
  BY <1>3 DEF StandsFor, Implied
<1> QED
  BY <1>2, <1>4, <1>5 DEF StandsFor, g

LEMMA DeclaringStands ==
    ASSUME NEW f, NEW s, StandsFor(f, s)
    PROVE  StandsFor(Declaring(f), s)
  BY DeclaringType DEF StandsFor, PVIDOf

\* Whatever the switch makes of the file keeps the VLANs.
LEMMA ReserialisedStands ==
    ASSUME NEW f, NEW s, StandsFor(f, s), NEW g \in Reserialised(f)
    PROVE  StandsFor(g, s)
  BY WithoutAccessLinesStands, DeclaringStands DEF Reserialised

-----------------------------------------------------------------------------
(* What such a file reads as *)

\* The lines as the codec sees them, in a file with a VLAN line.
LEMMA LinesSeen ==
    ASSUME NEW s \in VLANStates, NEW f, StandsFor(f, s), SawVLANLine(f),
           NEW v \in VIDs, NEW p \in Ports
    PROVE  /\ Line(f, v, p) # "none" => Line(f, v, p) = VLANLine(s, v, p)
           /\ Line(f, v, p) = "none" /\ VLANLine(s, v, p) # "none" => Implied(s, v, p)
  BY DEF StandsFor, Line

\* In a renderable state every port is untagged in the VLAN of its PVID and
\* in no other.
LEMMA UntaggedInPVID ==
    ASSUME NEW s \in VLANStates, Renderable(s), NEW p \in Ports, NEW v
    PROVE  MemberOf(s, v, p) = "untagged" <=> v = s.pvids[p]
<1>1. MemberOf(s, s.pvids[p], p) = "untagged" /\ AtMostOneUntagged(s, p)
  BY DEF Renderable
<1>2. \A w : MemberOf(s, w, p) = "untagged" =>
             w \in DOMAIN s.vlans /\ s.vlans[w][p] = "untagged"
  BY DEF MemberOf
<1> QED
  BY <1>1, <1>2 DEF AtMostOneUntagged

\* Without a VLAN line the file can only stand for VLAN 1 with every port in it.
LEMMA NoLineMeansVLAN1 ==
    ASSUME NEW s \in VLANStates, Renderable(s), NEW f, StandsFor(f, s), ~SawVLANLine(f)
    PROVE  /\ DOMAIN s.vlans = {1}
           /\ \A p \in Ports : s.pvids[p] = 1 /\ s.vlans[1][p] = "untagged"
<1>1. DOMAIN s.vlans \subseteq {1}
  BY DEF StandsFor, SawVLANLine
<1>2. \A p \in Ports : s.pvids[p] \in DOMAIN s.vlans /\ s.vlans[s.pvids[p]][p] = "untagged"
  BY UntaggedInPVID DEF MemberOf
<1>3. 1 \in Ports
  BY DEF Ports
<1> QED
  BY <1>1, <1>2, <1>3

\* The untagged VLAN of a port as the lines say it is the one of its PVID.
LEMMA UntaggedLine ==
    ASSUME NEW s \in VLANStates, Renderable(s), NEW f, StandsFor(f, s),
           NEW v \in VIDs, NEW p \in Ports, Line(f, v, p) = "untagged"
    PROVE  v = PVIDOf(f, p)
<1>1. CASE SawVLANLine(f)
  <2>1. VLANLine(s, v, p) = "untagged"
    BY <1>1, LinesSeen
  <2>2. MemberOf(s, v, p) = "untagged"
    BY <2>1 DEF VLANLine
  <2> QED
    BY <2>2, UntaggedInPVID DEF StandsFor
<1>2. CASE ~SawVLANLine(f)
  BY <1>2, NoLineMeansVLAN1 DEF Line, StandsFor
<1> QED
  BY <1>1, <1>2

\* VLAN 1 as it is inferred.
LEMMA VLAN1Read ==
    ASSUME NEW s \in VLANStates, Renderable(s), NEW f, StandsFor(f, s),
           NEW p \in Ports
    PROVE  InferVLAN1(f)[p] = MemberOf(s, 1, p)
<1>1. MemberOf(s, 1, p) \in Membership
  BY MemberOfType
<1>2. PVIDOf(f, p) = s.pvids[p]
  BY DEF StandsFor
<1>3. UntaggedElsewhere(f, p) => PVIDOf(f, p) # 1
  BY UntaggedLine DEF UntaggedElsewhere
<1>4. MemberOf(s, 1, p) = "untagged" <=> PVIDOf(f, p) = 1
  BY <1>2, UntaggedInPVID
<1>5. CASE ~SawVLANLine(f)
  <2>1. Line(f, 1, p) = "untagged"
    BY <1>5 DEF Line
  <2> QED
    BY <1>5, <2>1, NoLineMeansVLAN1 DEF InferVLAN1, MemberOf
<1>6. CASE SawVLANLine(f) /\ Line(f, 1, p) # "none"
  <2>1. Line(f, 1, p) = VLANLine(s, 1, p)
    BY <1>6, LinesSeen
  <2>2. VLANLine(s, 1, p) = MemberOf(s, 1, p)
    BY <1>6, <2>1 DEF VLANLine
  <2> QED
    BY <1>6, <2>1, <2>2 DEF InferVLAN1
<1>7. CASE SawVLANLine(f) /\ Line(f, 1, p) = "none"
  <2>1. MemberOf(s, 1, p) # "tagged"
    <3>1. ~Implied(s, 1, p)
      BY DEF Implied, VLANLine
    <3>2. VLANLine(s, 1, p) = "none"
      BY <1>7, <3>1, LinesSeen
    <3> QED
      BY <3>2 DEF VLANLine
  <2>2. InferVLAN1(f)[p] = IF PVIDOf(f, p) = 1 THEN "untagged" ELSE "ignored"
    BY <1>7, <1>3 DEF InferVLAN1
  <2> QED
    BY <2>1, <2>2, <1>1, <1>4 DEF Membership
<1> QED
  BY <1>5, <1>6, <1>7

\* Any other VLAN as it is read.
LEMMA AccessRead ==
    ASSUME NEW s \in VLANStates, Renderable(s), NEW f, StandsFor(f, s),
           NEW v \in VIDs \ {1}, NEW p \in Ports
    PROVE  AccessMembership(f, v)[p] = MemberOf(s, v, p)
<1>1. MemberOf(s, v, p) \in Membership
  BY MemberOfType
<1>2. PVIDOf(f, p) = s.pvids[p]
  BY DEF StandsFor
<1>3. MemberOf(s, v, p) = "untagged" <=> PVIDOf(f, p) = v
  BY <1>2, UntaggedInPVID
<1>4. CASE Line(f, v, p) # "none"
  <2>1. SawVLANLine(f)
    BY <1>4 DEF Line
  <2>2. Line(f, v, p) = VLANLine(s, v, p)
    BY <1>4, <2>1, LinesSeen
  <2>3. VLANLine(s, v, p) = MemberOf(s, v, p)
    BY <1>4, <2>2 DEF VLANLine
  <2> QED
    BY <1>4, <2>2, <2>3 DEF AccessMembership
<1>5. CASE Line(f, v, p) = "none"
  <2>1. AccessMembership(f, v)[p] = IF PVIDOf(f, p) = v THEN "untagged" ELSE "ignored"
    BY <1>5 DEF AccessMembership
  <2>2. MemberOf(s, v, p) # "tagged"
    <3>1. CASE SawVLANLine(f)
      <4>1. VLANLine(s, v, p) \in {"none", "untagged"}
        BY <1>5, <3>1, LinesSeen DEF Implied
      <4> QED
        BY <4>1 DEF VLANLine
    <3>2. CASE ~SawVLANLine(f)
      BY <3>2, NoLineMeansVLAN1 DEF MemberOf
    <3> QED
      BY <3>1, <3>2
  <2> QED
    BY <2>1, <2>2, <1>1, <1>3 DEF Membership
<1> QED
  BY <1>4, <1>5

\* Which VLANs are read.
LEMMA VLANsRead ==
    ASSUME NEW s \in VLANStates, Renderable(s), NEW f, StandsFor(f, s)
    PROVE  /\ Declared(f) \ {1} = DOMAIN s.vlans \ {1}
           /\ KeepVLAN1(f) <=>
                 1 \in Declared(f) \/ \E p \in Ports : MemberOf(s, 1, p) = "untagged"
<1>1. Declared(f) \ {1} = DOMAIN s.vlans \ {1}
  <2>1. CASE SawVLANLine(f)
    BY <2>1 DEF Declared, StandsFor
  <2>2. CASE ~SawVLANLine(f)
    BY <2>2, NoLineMeansVLAN1 DEF Declared
  <2> QED
    BY <2>1, <2>2
<1> QED
  BY <1>1, VLAN1Read DEF KeepVLAN1

(***************************************************************************)
(* A file that stands for a state is read as that state, up to a VLAN 1    *)
(* that carries no port.                                                   *)
(***************************************************************************)
LEMMA ReadsAs ==
    ASSUME NEW s \in VLANStates, Renderable(s), NEW f, StandsFor(f, s), ~DecodeFails(f)
    PROVE  /\ \A v \in VIDs, p \in Ports : MemberOf(DecodeVLANs(f), v, p) = MemberOf(s, v, p)
           /\ \A p \in Ports : DecodeVLANs(f).pvids[p] = s.pvids[p]
           /\ DOMAIN DecodeVLANs(f).vlans \ {1} = DOMAIN s.vlans \ {1}
<1> DEFINE d == DecodeVLANs(f)
<1>1. DOMAIN d.vlans = (Declared(f) \ {1}) \cup (IF KeepVLAN1(f) THEN {1} ELSE {})
  BY DEF DecodeVLANs
<1>2. \A v \in DOMAIN d.vlans :
          d.vlans[v] = IF v = 1 THEN InferVLAN1(f) ELSE AccessMembership(f, v)
  BY DEF DecodeVLANs
<1>3. \A p \in Ports : d.pvids[p] = s.pvids[p]
  BY DEF DecodeVLANs, StandsFor
<1> HIDE DEF d
<1>4. ASSUME NEW v \in VIDs, NEW p \in Ports
      PROVE  MemberOf(d, v, p) = MemberOf(s, v, p)
  <2>1. CASE v # 1
    BY <2>1, <1>1, <1>2, AccessRead, VLANsRead DEF MemberOf
  <2>2. CASE v = 1 /\ KeepVLAN1(f)
    BY <2>2, <1>1, <1>2, VLAN1Read DEF MemberOf
  <2>3. CASE v = 1 /\ ~KeepVLAN1(f)
    <3>1. MemberOf(d, v, p) = "ignored"
      BY <2>3, <1>1 DEF MemberOf
    <3>2. 1 \notin Declared(f) /\ MemberOf(s, 1, p) # "untagged"
      BY <2>3, VLANsRead
    <3>3. Line(f, 1, p) = "none"
      BY <3>2 DEF DecodeFails, Undeclared
    <3>4. SawVLANLine(f)
      BY <3>2 DEF Declared
    <3>5. MemberOf(s, 1, p) # "tagged"
      BY <3>3, <3>4, LinesSeen DEF VLANLine, Implied
    <3> QED
      BY <2>3, <3>1, <3>2, <3>5, MemberOfType DEF Membership
  <2> QED
    BY <2>1, <2>2, <2>3
<1> QED
  BY <1>1, <1>3, <1>4, VLANsRead DEF d

\* ... and is therefore one that could be staged again.
LEMMA ReadRenderable ==
    ASSUME NEW s \in VLANStates, Renderable(s), NEW f, StandsFor(f, s), ~DecodeFails(f)
    PROVE  Renderable(DecodeVLANs(f))
<1> DEFINE d == DecodeVLANs(f)
<1>1. f \in File
  BY DEF StandsFor
<1>2. d \in VLANStates
  BY <1>1, DecodeVLANsType
<1>3. /\ \A v \in VIDs, p \in Ports : MemberOf(d, v, p) = MemberOf(s, v, p)
      /\ \A p \in Ports : d.pvids[p] = s.pvids[p]
  BY ReadsAs
<1> HIDE DEF d
<1>4. /\ DOMAIN d.vlans \subseteq VIDs
      /\ d.vlans \in [DOMAIN d.vlans -> [Ports -> Membership]]
      /\ d.pvids \in [Ports -> VIDs]
  BY <1>2, VLANStatesType
<1>5. \A p \in Ports : MemberOf(d, d.pvids[p], p) = "untagged"
  <2>1. ASSUME NEW p \in Ports PROVE MemberOf(d, d.pvids[p], p) = "untagged"
    <3>1. d.pvids[p] = s.pvids[p] /\ d.pvids[p] \in VIDs
      BY <1>3, <1>4
    <3>2. MemberOf(s, s.pvids[p], p) = "untagged"
      BY UntaggedInPVID
    <3>3. QED
      BY <1>3, <3>1, <3>2
  <2>2. QED
    BY <2>1
<1>6. ASSUME NEW p \in Ports PROVE AtMostOneUntagged(d, p)
  <2>1. ASSUME NEW v \in DOMAIN d.vlans, d.vlans[v][p] = "untagged"
        PROVE  v = s.pvids[p]
    <3>1. MemberOf(d, v, p) = "untagged"
      BY <2>1 DEF MemberOf
    <3>2. v \in VIDs
      BY <1>4
    <3> QED
      BY <1>3, <3>1, <3>2, UntaggedInPVID
  <2> QED
    BY <2>1 DEF AtMostOneUntagged
<1>7. Validate(d)
  <2>1. Cardinality(DOMAIN d.pvids) = PortCount
    <3>1. DOMAIN d.pvids = DOMAIN s.pvids
      BY <1>4, VLANStatesType
    <3> QED
      BY <3>1 DEF Renderable, Validate
  <2>2. \A v \in DOMAIN d.vlans :
          /\ v > 0
          /\ \A p \in DOMAIN d.vlans[v] : p \in Ports /\ d.vlans[v][p] \in Membership
    <3> TAKE v \in DOMAIN d.vlans
    <3>1. v \in VIDs /\ DOMAIN d.vlans[v] = Ports
      BY <1>4
    <3>2. \A p \in Ports : d.vlans[v][p] \in Membership
      BY <1>4
    <3>3. v > 0
      BY <3>1, VIDsPositive
    <3> QED
      BY <3>1, <3>2, <3>3
  <2>3. \A p \in Ports : PVIDIsLive(d, p)
    BY <1>4, <1>5 DEF PVIDIsLive, MemberOf
  <2> QED
    BY <2>1, <2>2, <2>3 DEF Validate
<1> QED
  BY <1>5, <1>6, <1>7 DEF Renderable, d

\* A plain state is read as it is.
LEMMA PlainReads ==
    ASSUME NEW s \in VLANStates, Renderable(s), Plain(s), NEW f, StandsFor(f, s)
    PROVE  ~DecodeFails(f) /\ DecodeVLANs(f) = s
<1>1. ~DecodeFails(f)
  <2> SUFFICES ASSUME NEW v \in VIDs \ Declared(f), NEW p \in Ports, Line(f, v, p) # "none"
               PROVE  FALSE
    BY DEF DecodeFails, Undeclared, StandsFor
  <2>1. SawVLANLine(f)
    BY DEF Line, Declared
  <2>2. Line(f, v, p) = VLANLine(s, v, p)
    BY <2>1, LinesSeen
  <2>3. CASE v = 1
    <3>1. MemberOf(s, 1, p) \in Membership /\ MemberOf(s, 1, p) # "tagged"
      BY MemberOfType DEF Plain, MemberOf
    <3> QED
      BY <2>2, <2>3, <3>1 DEF VLANLine, Membership
  <2>4. CASE v # 1
    BY <2>2, <2>4, VLANsRead DEF VLANLine, MemberOf
  <2> QED
    BY <2>3, <2>4
<1>2. f \in File
  BY DEF StandsFor
<1>3. DecodeVLANs(f) \in VLANStates
  BY <1>2, DecodeVLANsType
<1>4. 1 \in DOMAIN s.vlans /\ 1 \in DOMAIN DecodeVLANs(f).vlans
  <2>1. KeepVLAN1(f)
    BY VLANsRead DEF Plain, MemberOf
  <2> QED
    BY <2>1 DEF DecodeVLANs, Plain
<1>5. DOMAIN DecodeVLANs(f).vlans = DOMAIN s.vlans
  BY <1>1, <1>4, ReadsAs
<1>6. \A v \in VIDs, p \in Ports : MemberOf(DecodeVLANs(f), v, p) = MemberOf(s, v, p)
  BY <1>1, ReadsAs
<1>7. \A p \in Ports : DecodeVLANs(f).pvids[p] = s.pvids[p]
  BY <1>1, ReadsAs
<1> QED
  BY <1>1, <1>3, <1>5, <1>6, <1>7, SameState

\* What is rendered of a plain state reads as that state, also when the switch
\* has declared VLAN 1 in the file and dropped the lines that the PVIDs imply
\* (renderVLANState against decodeTextConfig).
THEOREM RenderedReadsBack ==
    ASSUME NEW s \in VLANStates, Renderable(s), Plain(s), NEW f \in File,
           NEW g \in Reserialised(RenderVLANs(f, s))
    PROVE  ~DecodeFails(g) /\ DecodeVLANs(g) = s
  BY RenderedStands, ReserialisedStands, PlainReads

\* decode(render(x)) = x (codec.go:296-297) holds of exactly the states that have
\* no VLAN 1, or one with an untagged port and no tagged one: a VLAN 1 with a
\* tagged port is refused, and one without a port is lost, in every such state
\* that validateRenderable accepts.
THEOREM RoundTripExactly ==
    ASSUME NEW s \in VLANStates, Renderable(s), NEW f \in File
    PROVE  /\ ~DecodeFails(RenderVLANs(f, s))
           /\ DecodeVLANs(RenderVLANs(f, s)) = s
           <=> (DefaultPVID \in DOMAIN s.vlans => Plain(s))
<1> DEFINE g == RenderVLANs(f, s)
<1>1. StandsFor(g, s) /\ g \in Reserialised(g)
  BY RenderedStands DEF Reserialised
<1>2. /\ g \in File /\ ~g.unparsed /\ g.declared = DOMAIN s.vlans \ {1}
      /\ \A v \in VIDs, p \in Ports : g.members[v][p] = VLANLine(s, v, p)
  <2>1. /\ g.declared = DOMAIN s.vlans \ {1} /\ ~g.unparsed
        /\ g.members = [v \in VIDs |-> [p \in Ports |-> VLANLine(s, v, p)]]
    BY DEF RenderVLANs
  <2> HIDE DEF g
  <2> QED
    BY <1>1, <2>1 DEF StandsFor
<1>3. DOMAIN s.vlans \subseteq VIDs
  BY VLANStatesType
<1> HIDE DEF g
<1>4. CASE 1 \notin DOMAIN s.vlans
  <2>1. \A p \in Ports : MemberOf(s, 1, p) = "ignored"
    BY <1>4 DEF MemberOf
  <2>2. SawVLANLine(g)
    <3>1. 1 \in Ports
      BY DEF Ports
    <3>2. s.pvids[1] \in DOMAIN s.vlans
      BY <3>1, UntaggedInPVID DEF MemberOf
    <3> QED
      BY <1>2, <1>4, <3>2 DEF SawVLANLine
  <2>3. ~DecodeFails(g)
    <3> SUFFICES ASSUME NEW v \in VIDs \ Declared(g), NEW p \in Ports, Line(g, v, p) # "none"
                 PROVE  FALSE
      BY <1>2 DEF DecodeFails, Undeclared
    <3>1. v \notin DOMAIN s.vlans \ {1} /\ VLANLine(s, v, p) # "none"
      BY <1>2, <2>2 DEF Declared, Line
    <3>2. MemberOf(s, v, p) = "ignored"
      BY <1>4, <3>1 DEF MemberOf
    <3> QED
      BY <3>1, <3>2 DEF VLANLine
  <2>4. DecodeVLANs(g) \in VLANStates
    BY <1>2, DecodeVLANsType
  <2>5. ~KeepVLAN1(g)
    BY <1>1, <1>2, <2>1, <2>2, VLANsRead DEF Declared
  <2>6. DOMAIN DecodeVLANs(g).vlans = DOMAIN s.vlans
    <3>1. 1 \notin DOMAIN DecodeVLANs(g).vlans
      BY <2>5 DEF DecodeVLANs
    <3> QED
      BY <1>1, <1>4, <2>3, <3>1, ReadsAs
  <2>7. /\ \A v \in VIDs, p \in Ports : MemberOf(DecodeVLANs(g), v, p) = MemberOf(s, v, p)
        /\ \A p \in Ports : DecodeVLANs(g).pvids[p] = s.pvids[p]
    BY <1>1, <2>3, ReadsAs
  <2>8. DecodeVLANs(g) = s
    BY <2>4, <2>6, <2>7, SameState
  <2> QED
    BY <1>4, <2>3, <2>8 DEF g
<1>5. CASE Plain(s)
  BY <1>1, <1>5, PlainReads DEF g
<1>6. CASE 1 \in DOMAIN s.vlans /\ ~Plain(s)
  <2>1. \A p \in Ports : MemberOf(s, s.pvids[p], p) = "untagged"
    BY UntaggedInPVID
  <2>2. CASE \E p \in Ports : s.vlans[1][p] = "tagged"
    <3>1. PICK p \in Ports : s.vlans[1][p] = "tagged"
      BY <2>2
    <3>2. g.members[1][p] = "tagged"
      BY <1>2, <1>6, <3>1 DEF VLANLine, MemberOf
    <3>3. SawVLANLine(g) /\ 1 \notin Declared(g) /\ Line(g, 1, p) # "none"
      BY <1>2, <3>2 DEF SawVLANLine, Declared, Line
    <3>4. DecodeFails(g)
      BY <3>3 DEF DecodeFails, Undeclared
    <3> QED
      BY <1>6, <3>4 DEF g
  <2>3. CASE ~ (\E p \in Ports : s.vlans[1][p] = "untagged")
    <3>1. \A p \in Ports : MemberOf(s, 1, p) # "untagged"
      BY <2>3 DEF MemberOf
    <3>2. SawVLANLine(g)
      BY <1>1, <3>1, NoLineMeansVLAN1, <2>3 DEF Ports
    <3>3. ~KeepVLAN1(g)
      BY <1>1, <1>2, <3>1, <3>2, VLANsRead DEF Declared
    <3>4. 1 \notin DOMAIN DecodeVLANs(g).vlans
      BY <3>3 DEF DecodeVLANs
    <3> QED
      BY <1>6, <3>4 DEF g
  <2> QED
    BY <1>6, <2>1, <2>2, <2>3 DEF Plain
<1> QED
  BY <1>4, <1>5, <1>6

\* With every interface section the port settings are read as they are.
LEMMA PortsRead ==
    ASSUME NEW f, f.sections = Ports, NEW e \in [Ports -> BOOLEAN],
           f.disabled = {p \in f.sections : ~e[p]}
    PROVE  DecodePorts(f) = e
<1>1. \A p \in Ports : DecodePorts(f)[p] = e[p]
  BY DEF DecodePorts
<1> QED
  BY <1>1, DecodePortsType

-----------------------------------------------------------------------------
(* A file read as a plain state is read as that state however the switch   *)
(* writes it.                                                              *)

\* The PVIDs of such a file without a VLAN line.
LEMMA PlainWithoutLines ==
    ASSUME NEW h \in File, Plain(DecodeVLANs(h)), ~SawVLANLine(h), NEW p \in Ports
    PROVE  PVIDOf(h, p) = 1
<1> DEFINE d == DecodeVLANs(h)
<1>1. MemberOf(d, d.pvids[p], p) = "untagged"
  BY DEF Plain
<1>2. DOMAIN d.vlans \subseteq {1}
  BY DEF DecodeVLANs, Declared
<1>3. d.pvids[p] = PVIDOf(h, p)
  BY DEF DecodeVLANs
<1> HIDE DEF d
<1> QED
  BY <1>1, <1>2, <1>3 DEF MemberOf

LEMMA DroppedLines ==
    ASSUME NEW h \in File, ~DecodeFails(h)
    PROVE  /\ ~DecodeFails(WithoutAccessLines(h))
           /\ DecodeVLANs(WithoutAccessLines(h)) = DecodeVLANs(h)
<1> DEFINE g == WithoutAccessLines(h)
<1>1. /\ g \in File /\ g.declared = h.declared /\ g.pvids = h.pvids
      /\ g.unparsed = h.unparsed
      /\ \A v \in VIDs, p \in Ports :
            g.members[v][p] = IF PVIDOf(h, p) = v /\ v # 1 /\ h.members[v][p] = "untagged"
                                THEN "none" ELSE h.members[v][p]
  BY WithoutAccessLinesType
<1>2. \A p : PVIDOf(g, p) = PVIDOf(h, p)
  BY <1>1 DEF PVIDOf
<1> HIDE DEF g
<1>3. SawVLANLine(h) => h.declared # {}
  BY DEF DecodeFails, Undeclared, Line, Declared, SawVLANLine
<1>4. SawVLANLine(g) <=> SawVLANLine(h)
  BY <1>1, <1>3 DEF SawVLANLine
<1>5. Declared(g) = Declared(h)
  BY <1>1, <1>4 DEF Declared
<1>6. \A v \in VIDs, p \in Ports :
          \/ Line(g, v, p) = Line(h, v, p)
          \/ /\ Line(g, v, p) = "none" /\ Line(h, v, p) = "untagged"
             /\ v # 1 /\ PVIDOf(h, p) = v
  BY <1>1, <1>4 DEF Line
<1>7. ~DecodeFails(g)
  BY <1>1, <1>5, <1>6 DEF DecodeFails, Undeclared
<1>8. \A p \in Ports : InferVLAN1(g)[p] = InferVLAN1(h)[p]
  <2> TAKE p \in Ports
  <2>1. Line(g, 1, p) = Line(h, 1, p)
    BY <1>6
  <2>2. PVIDOf(h, p) = 1 => (UntaggedElsewhere(g, p) <=> UntaggedElsewhere(h, p))
    BY <1>6 DEF UntaggedElsewhere
  <2> QED
    BY <1>2, <2>1, <2>2 DEF InferVLAN1
<1>9. InferVLAN1(g) = InferVLAN1(h)
  BY <1>8 DEF InferVLAN1
<1>10. KeepVLAN1(g) <=> KeepVLAN1(h)
  BY <1>5, <1>9 DEF KeepVLAN1
<1>11. \A v \in VIDs \ {1} : AccessMembership(g, v) = AccessMembership(h, v)
  <2> TAKE v \in VIDs \ {1}
  <2>1. \A p \in Ports : AccessMembership(g, v)[p] = AccessMembership(h, v)[p]
    BY <1>2, <1>6 DEF AccessMembership
  <2> QED
    BY <2>1 DEF AccessMembership
<1>12. Declared(h) \subseteq VIDs
  BY FileType DEF Declared
<1>13. DecodeVLANs(g) = DecodeVLANs(h)
  BY <1>2, <1>5, <1>9, <1>10, <1>11, <1>12 DEF DecodeVLANs
<1> QED
  BY <1>7, <1>13 DEF g

LEMMA VLAN1Declared ==
    ASSUME NEW h \in File, ~DecodeFails(h), Plain(DecodeVLANs(h))
    PROVE  /\ ~DecodeFails(Declaring(h))
           /\ DecodeVLANs(Declaring(h)) = DecodeVLANs(h)
<1> DEFINE g == Declaring(h)
<1>1. /\ g \in File /\ g.declared = h.declared \cup {1} /\ g.pvids = h.pvids
      /\ g.unparsed = h.unparsed /\ g.members = h.members
  BY DeclaringType
<1>2. \A p : PVIDOf(g, p) = PVIDOf(h, p)
  BY <1>1 DEF PVIDOf
<1> HIDE DEF g
<1>3. SawVLANLine(g)
  BY <1>1 DEF SawVLANLine
<1>4. Declared(g) = Declared(h) \cup {1}
  BY <1>1, <1>3 DEF Declared, SawVLANLine
<1>5. \A v \in VIDs, p \in Ports : Line(g, v, p) = h.members[v][p]
  BY <1>1, <1>3 DEF Line
<1>6. \A v \in VIDs \ {1}, p \in Ports : Line(g, v, p) = Line(h, v, p)
  <2>1. CASE SawVLANLine(h)
    BY <1>5, <2>1 DEF Line
  <2>2. CASE ~SawVLANLine(h)
    <3>1. \A v \in VIDs, p \in Ports : h.members[v][p] = "none"
      BY <2>2 DEF SawVLANLine
    <3>2. QED
      BY <1>5, <2>2, <3>1 DEF Line, DefaultPVID
  <2>3. QED
    BY <2>1, <2>2
<1>7. ~DecodeFails(g)
  BY <1>1, <1>4, <1>6 DEF DecodeFails, Undeclared
<1>8. \A p \in Ports : InferVLAN1(g)[p] = InferVLAN1(h)[p]
  <2> TAKE p \in Ports
  <2>1. CASE SawVLANLine(h)
    BY <2>1, <1>2, <1>5, <1>6 DEF InferVLAN1, UntaggedElsewhere, Line
  <2>2. CASE ~SawVLANLine(h)
    <3>1. PVIDOf(h, p) = 1
      BY <2>2, PlainWithoutLines
    <3>2. /\ Line(g, 1, p) = "none" /\ Line(h, 1, p) = "untagged"
          /\ ~UntaggedElsewhere(g, p)
      BY <2>2, <1>5 DEF SawVLANLine, Line, UntaggedElsewhere
    <3> QED
      BY <1>2, <3>1, <3>2 DEF InferVLAN1
  <2> QED
    BY <2>1, <2>2
<1>9. InferVLAN1(g) = InferVLAN1(h)
  BY <1>8 DEF InferVLAN1
<1>10. KeepVLAN1(h) /\ KeepVLAN1(g)
  <2>1. KeepVLAN1(h)
    BY DEF Plain, DecodeVLANs
  <2> QED
    BY <2>1, <1>4 DEF KeepVLAN1
<1>11. \A v \in VIDs \ {1} : AccessMembership(g, v) = AccessMembership(h, v)
  <2> TAKE v \in VIDs \ {1}
  <2>1. \A p \in Ports : AccessMembership(g, v)[p] = AccessMembership(h, v)[p]
    BY <1>2, <1>6 DEF AccessMembership
  <2> QED
    BY <2>1 DEF AccessMembership
<1>12. Declared(h) \subseteq VIDs
  BY FileType DEF Declared
<1>13. DecodeVLANs(g) = DecodeVLANs(h)
  <2>1. (Declared(g) \ {1}) \cup {1} = (Declared(h) \ {1}) \cup {1}
    BY <1>4
  <2> QED
    BY <1>2, <1>9, <1>10, <1>11, <1>12, <2>1 DEF DecodeVLANs
<1> QED
  BY <1>7, <1>13 DEF g

LEMMA ReserialisedReads ==
    ASSUME NEW h \in File, ~DecodeFails(h), Plain(DecodeVLANs(h)), NEW g \in Reserialised(h)
    PROVE  ~DecodeFails(g) /\ DecodeVLANs(g) = DecodeVLANs(h)
<1>1. WithoutAccessLines(h) \in File
  BY WithoutAccessLinesType
<1> QED
  BY <1>1, DroppedLines, VLAN1Declared DEF Reserialised

\* The VLANs are read from the VLAN lines alone.
LEMMA SameVLANLines ==
    ASSUME NEW f, NEW g, g.declared = f.declared, g.members = f.members,
           g.pvids = f.pvids, g.unparsed = f.unparsed
    PROVE  /\ DecodeFails(g) <=> DecodeFails(f)
           /\ DecodeVLANs(g) = DecodeVLANs(f)
<1>1. /\ SawVLANLine(g) <=> SawVLANLine(f)
      /\ \A p : PVIDOf(g, p) = PVIDOf(f, p)
  BY DEF SawVLANLine, PVIDOf
<1>2. /\ Declared(g) = Declared(f)
      /\ \A v, p : Line(g, v, p) = Line(f, v, p)
  BY <1>1 DEF Declared, Line
<1>3. InferVLAN1(g) = InferVLAN1(f)
  BY <1>1, <1>2 DEF InferVLAN1, UntaggedElsewhere
<1>4. KeepVLAN1(g) <=> KeepVLAN1(f)
  BY <1>2, <1>3 DEF KeepVLAN1
<1>5. \A v : AccessMembership(g, v) = AccessMembership(f, v)
  BY <1>1, <1>2 DEF AccessMembership
<1> QED
  BY <1>1, <1>2, <1>3, <1>4, <1>5 DEF DecodeFails, Undeclared, DecodeVLANs
===============================================================================
