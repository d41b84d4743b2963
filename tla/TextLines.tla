------------------------------ MODULE TextLines ------------------------------
(***************************************************************************)
(* The startup-config of a gs108tv2 line by line: the parser and the line  *)
(* editor of internal/fastpath (textcfg.go, textedit.go) and the codec on  *)
(* top of them (codec.go, portcodec.go). TextCodec states what these do to *)
(* a file as a whole; here is how they find the lines.                     *)
(*                                                                         *)
(* A line is a tuple that starts with its keyword. The switch writes a     *)
(* file double-spaced: a blank line follows every other one.               *)
(***************************************************************************)
EXTENDS TextCodec, Sequences
LOCAL INSTANCE SequencesExt

Blank == <<"">>
Exit == <<"exit">>
Database == <<"vlan database">>
Interface(p) == <<"interface", p>>

\* The file of the switch that the model knows as f: two commands of the
\* `configure` block look like sections and have no exit. A file cut short
\* (rest is FALSE) has neither the rest of the interfaces nor the last exit.
MemberLines(f, v) ==
    LET listed == {p \in Ports : f.members[v][p] # "none"}
        sorted == SetToSortSeq(listed, <)
    IN [i \in DOMAIN sorted |-> <<"vlan", v, sorted[i], f.members[v][sorted[i]]>>]

DatabaseLines(f) ==
    LET sorted == SetToSortSeq(VIDs, <)
    IN (IF f.unparsed THEN <<<<"vlan", 0>>>> ELSE <<>>)
       \o FlattenSeq([i \in DOMAIN sorted |->
            (IF sorted[i] \in f.declared THEN <<<<"vlan", sorted[i]>>>> ELSE <<>>)
            \o MemberLines(f, sorted[i])])

InterfaceLines(f, p) ==
    <<Interface(p), <<"description", p>>>>
    \o (IF p \in f.disabled THEN <<<<"shutdown">>>> ELSE <<>>)
    \o (IF p \in DOMAIN f.pvids THEN <<<<"vlan pvid", f.pvids[p]>>>> ELSE <<>>)
    \o <<Exit>>

DoubleSpaced(lines) == FlattenSeq([i \in DOMAIN lines |-> <<lines[i], Blank>>])

Written(f) ==
    DoubleSpaced(
        <<<<"0x4e47">>, <<"!">>, Database>> \o DatabaseLines(f)
        \o <<Exit, <<"configure">>, <<"!">>, <<"sntp">>, <<"lineconfig">>, Exit, <<"voip">>>>
        \o FlattenSeq([p \in Ports |->
              IF p \in f.sections THEN InterfaceLines(f, p) ELSE <<>>])
        \o (IF f.rest THEN <<Interface(PortCount + 1), <<"lacp">>, Exit, Exit>> ELSE <<>>))

-----------------------------------------------------------------------------
(* ParseTextConfig *)

Skipped(line) == line \in {Blank, <<"!">>}

BlockSectionLabel(line) ==
    line[1] \in {"vlan database", "configure", "lineconfig", "interface"}

SectionStarts(line) == BlockSectionLabel(line) \/ line[1] \in {"sntp", "voip"}

\* A slip: the oldest open block is closed first.
PairedInOrder(lines) ==
    FoldLeftDomain(LAMBDA acc, i :
        IF lines[i] = Exit
          THEN IF acc.open = <<>> THEN acc
               ELSE [open |-> Tail(acc.open), pairs |-> acc.pairs \cup {<<Head(acc.open), i>>}]
        ELSE IF BlockSectionLabel(lines[i]) THEN [acc EXCEPT !.open = Append(@, i)]
        ELSE acc,
        [open |-> <<>>, pairs |-> {}], lines).pairs

\* pairSectionExits: each exit closes the block opened last.
PairSectionExits(lines) ==
    FoldLeftDomain(LAMBDA acc, i :
        IF lines[i] = Exit
          THEN IF acc.open = <<>> THEN acc
               ELSE [open |-> Front(acc.open), pairs |-> acc.pairs \cup {<<Last(acc.open), i>>}]
        ELSE IF BlockSectionLabel(lines[i]) THEN [acc EXCEPT !.open = Append(@, i)]
        ELSE acc,
        [open |-> <<>>, pairs |-> {}], lines).pairs

Least(S) == CHOOSE i \in S : \A j \in S : i <= j

(***************************************************************************)
(* computeSectionSpans: the last line of the body under label line i. A    *)
(* block ends before its exit, or before the first interface inside it; a  *)
(* command without an exit ends before the next label.                     *)
(***************************************************************************)
BodyEnd(lines, i) ==
    LET exits == {pair[2] : pair \in {q \in PairSectionExits(lines) : q[1] = i}}
        limits == IF exits # {}
                    THEN {j \in (i + 1) .. (Least(exits) - 1) : lines[j][1] = "interface"} \cup exits
                    ELSE {j \in (i + 1) .. Len(lines) : SectionStarts(lines[j])}
    IN Least(limits \cup {Len(lines) + 1}) - 1

HasSection(lines, label) == \E i \in DOMAIN lines : lines[i] = label

Section(lines, label) == Least({i \in DOMAIN lines : lines[i] = label})

\* SectionBody, empty where there is no such section.
SectionBody(lines, label) ==
    IF ~HasSection(lines, label) THEN <<>>
    ELSE LET at == Section(lines, label)
         IN SelectSeq(SubSeq(lines, at + 1, BodyEnd(lines, at)),
                      LAMBDA l : ~Skipped(l) /\ l # Exit)

-----------------------------------------------------------------------------
(* TextConfigEditor *)

\* A blank line behind the label and behind every line of the body.
DoubleSpacedBody(body) == <<Blank>> \o DoubleSpaced(body)

ReplaceSectionBody(lines, label, body) ==
    LET at == Section(lines, label)
    IN SubSeq(lines, 1, at) \o DoubleSpacedBody(body)
       \o SubSeq(lines, BodyEnd(lines, at) + 1, Len(lines))

-----------------------------------------------------------------------------
(* The codec on lines. *)

VLANNamespace(line) == line[1] \in {"vlan", "vlan pvid"}
PortNamespace(line) == line[1] = "shutdown"

\* decodeTextConfig, as far as the file of the model.
Read(lines) ==
    LET db == ToSet(SectionBody(lines, Database))
        body == [p \in Ports |-> ToSet(SectionBody(lines, Interface(p)))]
        known == {<<"vlan", v>> : v \in VIDs}
                 \cup {<<"vlan", v, p, m>> : v \in VIDs, p \in Ports, m \in {"untagged", "tagged"}}
    IN [declared |-> {v \in VIDs : <<"vlan", v>> \in db},
        members |-> [v \in VIDs |-> [p \in Ports |->
            CASE <<"vlan", v, p, "untagged">> \in db -> "untagged"
              [] <<"vlan", v, p, "tagged">> \in db -> "tagged"
              [] OTHER -> "none"]],
        pvids |-> [p \in {q \in Ports : \E l \in body[q] : l[1] = "vlan pvid"} |->
            (CHOOSE l \in body[p] : l[1] = "vlan pvid")[2]],
        disabled |-> {p \in Ports : <<"shutdown">> \in body[p]},
        unparsed |-> \E l \in db : l[1] = "vlan" /\ l \notin known,
        sections |-> {p \in Ports : HasSection(lines, Interface(p))},
        rest |-> HasSection(lines, Interface(PortCount + 1)) /\ Last(SelectSeq(lines, LAMBDA l : ~Skipped(l))) = Exit]

\* The lines of a body that the other codec, or nobody, manages.
CaptureForeign(lines, label) ==
    SelectSeq(SectionBody(lines, label), LAMBDA l : ~VLANNamespace(l))

PortPass(lines, label) ==
    SelectSeq(SectionBody(lines, label), LAMBDA l : ~PortNamespace(l))

GenerateVlanDatabaseBody(s) ==
    DatabaseLines(RenderVLANs(FactoryFile, s))

\* The interface sections the file has get their bodies in turn.
ReplaceInterfaces(lines, bodies) ==
    FoldLeft(LAMBDA acc, p : ReplaceSectionBody(acc, Interface(p), bodies[p]), lines,
             SelectSeq([p \in Ports |-> p], LAMBDA p : HasSection(lines, Interface(p))))

RenderVLANLines(lines, s) ==
    ReplaceInterfaces(
        ReplaceSectionBody(lines, Database,
            CaptureForeign(lines, Database) \o GenerateVlanDatabaseBody(s)),
        [p \in Ports |-> CaptureForeign(lines, Interface(p))
            \o (IF s.pvids[p] # DefaultPVID THEN <<<<"vlan pvid", s.pvids[p]>>>> ELSE <<>>)])

RenderPortLines(lines, enabled) ==
    ReplaceInterfaces(lines,
        [p \in Ports |-> PortPass(lines, Interface(p))
            \o (IF enabled[p] THEN <<>> ELSE <<<<"shutdown">>>>)])

\* What neither codec manages, in its order.
Elsewhere(lines) ==
    SelectSeq(lines, LAMBDA l : ~Skipped(l) /\ ~VLANNamespace(l) /\ ~PortNamespace(l))

\* Every line has its blank line.
IsDoubleSpaced(lines) == \A i \in DOMAIN lines : lines[i] = Blank <=> i % 2 = 0
=============================================================================
