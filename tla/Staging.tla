------------------------------- MODULE Staging -------------------------------
(***************************************************************************)
(* What managing a gs108tv2 through its startup-config promises: each      *)
(* resource writes its own namespace of the staged file in one step and    *)
(* passes the other through.                                               *)
(*                                                                         *)
(* The promise holds for a resource that has the file to itself and reads  *)
(* all of it. While `clean` is FALSE it does not.                          *)
(***************************************************************************)
EXTENDS StagedFile

CONSTANTS
    StartFiles,         \* the files a switch starts with
    WantedVLANs,        \* the VLAN states that configurations ask for
    WantedPorts,        \* the port settings that configurations ask for
    ForeignFiles        \* what a disturbed file may come to

ASSUME StagingAssumption ==
    /\ StartFiles \subseteq File /\ ForeignFiles \subseteq File
    /\ WantedVLANs \subseteq VLANStates
    /\ WantedPorts \subseteq [Ports -> BOOLEAN]

vars == <<startup, vlansAsked, portsAsked, clean>>

Init ==
    /\ startup \in StartFiles
    /\ vlansAsked = {} /\ portsAsked = {}
    /\ clean = TRUE

\* ApplyVLANState over an undisturbed channel.
StageVLANs(s) ==
    /\ clean /\ Renderable(s) /\ CanRenderVLANs(startup)
    /\ startup' \in Reserialised(RenderVLANs(startup, s))
    /\ vlansAsked' = {s}
    /\ UNCHANGED <<portsAsked, clean>>

\* ApplyPortSettings over an undisturbed channel.
StagePorts(enabled) ==
    /\ clean
    /\ startup' \in Reserialised(RenderPorts(startup, enabled))
    /\ portsAsked' = {enabled}
    /\ UNCHANGED <<vlansAsked, clean>>

\* Another manager writes the file, or a write of ours is based on a copy
\* that is not the file any more, or not all of it.
Disturb ==
    /\ clean' = FALSE
    /\ startup' \in ForeignFiles
    /\ vlansAsked' = {} /\ portsAsked' = {}

\* The next operation starts over.
StartOver ==
    /\ clean' = TRUE
    /\ UNCHANGED <<startup, vlansAsked, portsAsked>>

Next ==
    \/ \E s \in WantedVLANs : StageVLANs(s)
    \/ \E e \in WantedPorts : StagePorts(e)
    \/ Disturb
    \/ StartOver

Spec == Init /\ [][Next]_vars

-----------------------------------------------------------------------------
\* decode(render(x)) = x for every state the driver accepts (codec.go:296-297).
RoundTrip ==
    \A s \in vlansAsked :
        startup = RenderVLANs(startup, s) =>
            ~DecodeFails(startup) /\ DecodeVLANs(startup) = s
=============================================================================
