--------------------------- MODULE MCStagedApply -----------------------------
(***************************************************************************)
(* Two ports, VLANs 1 and 2, and a switch fresh from the factory. A        *)
(* configuration moves port 2 to VLAN 2, leaves VLAN 1 tagged there, or    *)
(* asks for what the driver refuses; it disables port 2.                   *)
(* Another manager moves port 1 to VLAN 2 and enables port 2, or leaves a  *)
(* line the codec does not know.                                           *)
(***************************************************************************)
EXTENDS StagedApply, TLC

MCVIDs == {1, 2}

Split == [vlans |-> 1 :> <<"untagged", "ignored">> @@ 2 :> <<"tagged", "untagged">>,
          pvids |-> <<1, 2>>]

Trunk == [vlans |-> 1 :> <<"untagged", "tagged">> @@ 2 :> <<"tagged", "untagged">>,
          pvids |-> <<1, 2>>]

Swapped == [vlans |-> 1 :> <<"ignored", "untagged">> @@ 2 :> <<"untagged", "ignored">>,
            pvids |-> <<2, 1>>]

Refused == [vlans |-> 1 :> <<"untagged", "tagged">>, pvids |-> <<1, 1>>]

MCConfigurations ==
    [vlan : {Split, Trunk}, port : {<<TRUE, FALSE>>}, deletions : {TRUE}]
    \cup [vlan : {Refused}, port : {<<TRUE, FALSE>>}, deletions : {FALSE}]

MCStartFiles == {FactoryFile}

MCForeignFiles == {RenderVLANs(FactoryFile, Swapped),
                   [FactoryFile EXCEPT !.unparsed = TRUE]}

Both == {TRUE, FALSE}

Always == {TRUE}
=============================================================================
