----------------------------- MODULE MCVlanApply -----------------------------
(***************************************************************************)
(* Two ports. The switch starts with VLANs out of 1 and 2, a configuration *)
(* asks for VLANs out of 1 and 3: between them every combination of a PVID *)
(* moved or kept, a VLAN added, kept and removed, and a membership widened *)
(* or narrowed. Port 2 is in a VLAN untagged or not at all, and enters     *)
(* VLAN 1 at the start.                                                    *)
(***************************************************************************)
EXTENDS VlanApplyProps, TLC

MCVIDs == {1, 2, 3}

PortMaps == {<<a, b>> : a \in Membership, b \in {"untagged", "ignored"}}

StateSet(ids) ==
    {s \in [vlans : UNION {[D -> PortMaps] : D \in SUBSET ids}, pvids : [Ports -> ids]] :
        Backed(s)}

MCStartStates == {s \in StateSet({1, 2}) : s.pvids[2] = 1}

\* Configurations as written. A port left out means ignored, port 3 is a
\* typo, VLAN 0 does not exist, and a PVID may name a VLAN that is missing or
\* does not carry the port, or be left out.
Broken == {
    [vlans |-> (1 :> (1 :> "untagged")), pvids |-> <<1, 1>>],
    [vlans |-> (1 :> <<"untagged", "untagged">>), pvids |-> <<1, 2>>],
    [vlans |-> (0 :> <<"untagged", "untagged">> @@ 1 :> <<"untagged", "untagged">>),
     pvids |-> <<1, 1>>],
    [vlans |-> (1 :> <<"untagged", "untagged">>), pvids |-> (1 :> 1)]}

Sparse == {
    [vlans |-> (1 :> (2 :> "untagged") @@ 3 :> (1 :> "tagged")), pvids |-> <<3, 1>>],
    [vlans |-> (1 :> <<"untagged", "tagged", "tagged">>), pvids |-> <<1, 1>>]}

MCConfigs == StateSet({1, 3}) \cup Broken \cup Sparse
=============================================================================
