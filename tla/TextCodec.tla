------------------------------ MODULE TextCodec ------------------------------
(***************************************************************************)
(* The startup-config file of a gs108tv2 and the codec that reads VLANs    *)
(* and port settings out of it and writes them into it                     *)
(* (internal/client/gs108tv2/codec.go, portcodec.go).                      *)
(*                                                                         *)
(* Of the file the model keeps the lines the codec knows:                  *)
(*   declared   VLANs of the "vlan <id>" lines of the vlan database        *)
(*   members    the "vlan <id> port 0/<p> ..." lines, "none" where missing *)
(*   pvids      the "vlan pvid <id>" lines of the interface sections       *)
(*   disabled   the interface sections with a "shutdown" line              *)
(*   unparsed   some other line starts with "vlan "                        *)
(*   sections   the interface sections the file has                        *)
(*   rest       whether everything else is still in the file               *)
(***************************************************************************)
EXTENDS VlanState

CONSTANT VIDs           \* the VLAN ids that occur

ASSUME CodecVIDsAssumption == VIDs \subseteq Nat \ {0} /\ 1 \in VIDs

DefaultPVID == 1

Lines == {"none", "untagged", "tagged"}

\* A normalized VLAN state.
VLANStates ==
    [vlans : UNION {[D -> [Ports -> Membership]] : D \in SUBSET VIDs},
     pvids : [Ports -> VIDs]]

\* Functions from a subset of the ports.
PVIDLines == UNION {[D -> VIDs] : D \in SUBSET Ports}

File == [declared : SUBSET VIDs, members : [VIDs -> [Ports -> Lines]],
         pvids : PVIDLines, disabled : SUBSET Ports, unparsed : BOOLEAN,
         sections : SUBSET Ports, rest : BOOLEAN]

\* The file of a switch fresh from the factory: no VLAN line, no port line.
FactoryFile ==
    [declared |-> {}, members |-> [v \in VIDs |-> [p \in Ports |-> "none"]],
     pvids |-> [p \in {} |-> DefaultPVID], disabled |-> {}, unparsed |-> FALSE,
     sections |-> Ports, rest |-> TRUE]

-----------------------------------------------------------------------------
(* decodeTextConfig *)

PVIDOf(f, p) == IF p \in DOMAIN f.pvids THEN f.pvids[p] ELSE DefaultPVID

SawVLANLine(f) ==
    f.declared # {} \/ \E v \in VIDs, p \in Ports : f.members[v][p] # "none"

\* Without any VLAN line the file stands for VLAN 1 with every port in it.
Declared(f) == IF SawVLANLine(f) THEN f.declared ELSE {DefaultPVID}

Line(f, v, p) ==
    IF SawVLANLine(f) THEN f.members[v][p]
    ELSE IF v = DefaultPVID THEN "untagged" ELSE "none"

UntaggedElsewhere(f, p) ==
    \E v \in VIDs \ {DefaultPVID} : Line(f, v, p) = "untagged"

\* A slip: the PVID of the port is not looked at.
InferVLAN1FromLines(f) ==
    [p \in Ports |->
        IF Line(f, DefaultPVID, p) # "none" THEN Line(f, DefaultPVID, p)
        ELSE IF ~UntaggedElsewhere(f, p) THEN "untagged" ELSE "ignored"]

(***************************************************************************)
(* VLAN 1 need not be written down: a port without a line is in it when    *)
(* its PVID is 1 and no other VLAN has it untagged.                        *)
(***************************************************************************)
InferVLAN1(f) ==
    [p \in Ports |->
        IF Line(f, DefaultPVID, p) # "none" THEN Line(f, DefaultPVID, p)
        ELSE IF PVIDOf(f, p) = DefaultPVID /\ ~UntaggedElsewhere(f, p)
               THEN "untagged" ELSE "ignored"]

KeepVLAN1(f) ==
    \/ DefaultPVID \in Declared(f)
    \/ \E p \in Ports : InferVLAN1(f)[p] = "untagged"

\* A slip: only what the lines say, whatever the PVIDs.
ExplicitMembership(f, v) ==
    [p \in Ports |-> IF Line(f, v, p) # "none" THEN Line(f, v, p) ELSE "ignored"]

\* inferAccessVLANMembershipFromPVID: a PVID counts as an untagged membership.
AccessMembership(f, v) ==
    [p \in Ports |->
        IF Line(f, v, p) # "none" THEN Line(f, v, p)
        ELSE IF PVIDOf(f, p) = v THEN "untagged" ELSE "ignored"]

DecodeVLANs(f) ==
    [vlans |-> [v \in (Declared(f) \ {DefaultPVID})
                      \cup (IF KeepVLAN1(f) THEN {DefaultPVID} ELSE {}) |->
                   IF v = DefaultPVID THEN InferVLAN1(f) ELSE AccessMembership(f, v)],
     pvids |-> [p \in Ports |-> PVIDOf(f, p)]]

\* Which ports are enabled: those without a "shutdown" line.
DecodePorts(f) == [p \in Ports |-> p \notin f.disabled]

\* A membership line of a VLAN no line declares.
Undeclared(f) ==
    \E v \in VIDs \ Declared(f), p \in Ports : Line(f, v, p) # "none"

DecodeFails(f) == f.unparsed \/ Undeclared(f)

-----------------------------------------------------------------------------
(* Rendering: each namespace is written anew, the other is passed through. *)

AtMostOneUntagged(s, p) ==
    \A v, w \in DOMAIN s.vlans :
        s.vlans[v][p] = "untagged" /\ s.vlans[w][p] = "untagged" => v = w

\* validateRenderable, for a normalized state.
Renderable(s) ==
    /\ Validate(s)
    /\ \A p \in Ports :
          AtMostOneUntagged(s, p) /\ MemberOf(s, s.pvids[p], p) = "untagged"

\* generateVlanDatabaseBody: VLAN 1 is never declared and only its tagged
\* ports are listed.
VLANLine(s, v, p) ==
    IF MemberOf(s, v, p) = "ignored" \/ (v = DefaultPVID /\ MemberOf(s, v, p) = "untagged")
      THEN "none" ELSE MemberOf(s, v, p)

PVIDsToWrite(s) == {p \in Ports : s.pvids[p] # DefaultPVID}

RenderVLANs(f, s) ==
    [f EXCEPT !.declared = DOMAIN s.vlans \ {DefaultPVID},
              !.members = [v \in VIDs |-> [p \in Ports |-> VLANLine(s, v, p)]],
              !.pvids = [p \in PVIDsToWrite(s) |-> s.pvids[p]],
              !.unparsed = FALSE]

\* The VLANs can only be spliced into a file with every interface section.
CanRenderVLANs(f) == f.sections = Ports

RenderPorts(f, enabled) ==
    [f EXCEPT !.disabled = {p \in f.sections : ~enabled[p]}]

\* A state that reads the same whatever the switch makes of its file: VLAN 1
\* has an untagged port and no tagged one, and every port is untagged in the
\* VLAN of its PVID.
Plain(s) ==
    /\ DefaultPVID \in DOMAIN s.vlans
    /\ \A p \in Ports : s.vlans[DefaultPVID][p] # "tagged"
    /\ \E p \in Ports : s.vlans[DefaultPVID][p] = "untagged"
    /\ \A p \in Ports : MemberOf(s, s.pvids[p], p) = "untagged"

-----------------------------------------------------------------------------
(* What the switch makes of an uploaded file (apply.go:20-26, codec.go:263-285):
   it may add a declaration of VLAN 1, and it drops the membership line of a
   port untagged in the VLAN of its PVID. *)

WithoutAccessLines(f) ==
    [f EXCEPT !.members =
        [v \in VIDs |-> [p \in Ports |->
            IF PVIDOf(f, p) = v /\ v # DefaultPVID /\ f.members[v][p] = "untagged"
              THEN "none" ELSE f.members[v][p]]]]

Declaring(f) == [f EXCEPT !.declared = @ \cup {DefaultPVID}]

Reserialised(f) ==
    {f, Declaring(f), WithoutAccessLines(f), Declaring(WithoutAccessLines(f))}

(***************************************************************************)
(* A download cut short after the sections of ports below n: the web       *)
(* session drops the error of the broken body and nothing checks the end.  *)
(***************************************************************************)
CutBefore(f, n) ==
    LET kept == {p \in f.sections : p < n}
    IN [f EXCEPT !.sections = kept, !.disabled = @ \cap kept, !.rest = FALSE,
                 !.pvids = [p \in DOMAIN f.pvids \cap kept |-> f.pvids[p]]]
=============================================================================
