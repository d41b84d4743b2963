---------------------------- MODULE HitlessUpdate ----------------------------
(***************************************************************************)
(* What a convergence plan promises ("without passing through an invalid   *)
(* intermediate state", CONTEXT.md), said of the traffic a switch carries  *)
(* rather than of the writes that change it.                               *)
(*                                                                         *)
(* A link is a triple <<vlan, port, membership>> the switch serves. An     *)
(* update moves the links from one set to another. While it runs, and      *)
(* wherever it stops, the switch serves every link both sets share and no  *)
(* link that neither has, and each port's untagged traffic enters a VLAN   *)
(* that carries the port. An update reported done has reached its goal.    *)
(***************************************************************************)
CONSTANTS VLANs, PortSet

VARIABLES
    links,      \* links served now
    ingress,    \* per port, the VLAN of its untagged traffic
    from, to,   \* the links before the update, and its goal
    phase       \* "rest", "moving" or "done"

Link == VLANs \X PortSet \X {"untagged", "tagged"}

Served(l, i) ==
    \A p \in PortSet : \E m \in {"untagged", "tagged"} : <<i[p], p, m>> \in l

Init ==
    /\ links \subseteq Link
    /\ ingress \in [PortSet -> VLANs]
    /\ Served(links, ingress)
    /\ from = links
    /\ to \subseteq Link
    /\ phase = "rest"

Start ==
    /\ phase # "moving"
    /\ from' = links
    /\ phase' = "moving"
    /\ UNCHANGED <<links, ingress, to>>

Move ==
    /\ phase = "moving"
    /\ links' \subseteq from \cup to
    /\ from \cap to \subseteq links'
    /\ ingress' \in [PortSet -> VLANs]
    /\ Served(links', ingress')
    /\ phase' \in {"moving", "rest"}
    /\ UNCHANGED <<from, to>>

Finish ==
    /\ phase = "moving"
    /\ links = to
    /\ phase' = "done"
    /\ UNCHANGED <<links, ingress, from, to>>

Forget ==
    /\ phase = "done"
    /\ phase' = "rest"
    /\ UNCHANGED <<links, ingress, from, to>>

Next == Start \/ Move \/ Finish \/ Forget

Spec == Init /\ [][Next]_<<links, ingress, from, to, phase>>
=============================================================================
