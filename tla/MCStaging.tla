----------------------------- MODULE MCStaging -------------------------------
(***************************************************************************)
(* Two ports and VLANs 1, 2 and 3: every VLAN state in which port 2 is in  *)
(* one VLAN only, asked for on top of every file staged before.            *)
(***************************************************************************)
EXTENDS Splicing, TLC

MCVIDs == {1, 2, 3}

MCWantedVLANs ==
    {s \in [vlans : UNION {[D -> [Ports -> Membership]] : D \in SUBSET MCVIDs},
            pvids : [Ports -> MCVIDs]] :
        Renderable(s) /\ \A v \in DOMAIN s.vlans : s.vlans[v][2] # "tagged"}

MCWantedPorts == {<<TRUE, TRUE>>, <<TRUE, FALSE>>}

\* A line the codec does not know, and a port with VLAN lines of its own.
Garbled == [FactoryFile EXCEPT !.unparsed = TRUE]

MCStartFiles == {FactoryFile, [FactoryFile EXCEPT !.disabled = {1}]}

\* VLAN 1 alone, and a state with lines of every kind.
MCSplicedVLANs ==
    {[vlans |-> 1 :> <<"untagged", "untagged">>, pvids |-> <<1, 1>>],
     [vlans |-> 1 :> <<"tagged", "ignored">> @@ 2 :> <<"untagged", "tagged">>
                @@ 3 :> <<"tagged", "untagged">>, pvids |-> <<2, 3>>]}

MCForeignFiles == {Garbled, CutBefore(FactoryFile, 2)}
=============================================================================
