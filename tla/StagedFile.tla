----------------------------- MODULE StagedFile ------------------------------
(***************************************************************************)
(* The startup-config of a gs108tv2 and what was staged in it last: the    *)
(* state that the promise (Staging) and the applies (StagedApply) share,   *)
(* and what a practitioner may rely on in either.                          *)
(***************************************************************************)
EXTENDS TextCodec

VARIABLES
    startup,            \* the startup-config
    vlansAsked,         \* the VLAN state staged last, {} at first
    portsAsked,         \* the port settings staged last, {} at first
    clean               \* no other writer and no broken download so far

-----------------------------------------------------------------------------
\* What was staged last in either namespace reads back as it was asked for,
\* however often the other one was staged since: the VLANs as long as they
\* are plain (renderVLANState, renderPortSettings, decodeTextConfig).
ReadsBack ==
    /\ \A s \in vlansAsked :
          Plain(s) => ~DecodeFails(startup) /\ DecodeVLANs(startup) = s
    /\ \A e \in portsAsked :
          startup.sections = Ports => DecodePorts(startup) = e

\* Whatever the provider reads of what it staged it would stage again: an
\* imported state is a valid configuration (validateRenderable against
\* decodeTextConfig; the workflow of docs/resources/vlan_state.md).
ReadIsRenderable ==
    vlansAsked # {} /\ ~DecodeFails(startup) => Renderable(DecodeVLANs(startup))
=============================================================================
