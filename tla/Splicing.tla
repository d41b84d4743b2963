------------------------------ MODULE Splicing -------------------------------
(***************************************************************************)
(* The line editor does to the lines of a startup-config what TextCodec    *)
(* says the codecs do to the file, whatever was staged before.             *)
(***************************************************************************)
EXTENDS Staging, TextLines

CONSTANTS
    SplicedVLANs,       \* the states rendered over every file
    SplicedPorts        \* the port settings rendered over every file

\* Rendering `after` of the lines `before` reads as file f, leaves every other
\* line where it was and keeps the file double-spaced.
SplicedAs(before, after, f) ==
    /\ Read(after) = f
    /\ Elsewhere(after) = Elsewhere(before)
    /\ IsDoubleSpaced(after)

\* Either codec finds its lines, replaces them and touches no other, in every
\* file that can be staged, the one cut short included (the claim of
\* textedit.go:12-17; renderVLANState, renderPortSettings, SectionBody).
Splices ==
    LET lines == Written(startup)
    IN /\ Read(lines) = startup
       /\ \A s \in SplicedVLANs : CanRenderVLANs(startup) =>
             SplicedAs(lines, RenderVLANLines(lines, s), RenderVLANs(startup, s))
       /\ \A e \in SplicedPorts :
             SplicedAs(lines, RenderPortLines(lines, e), RenderPorts(startup, e))
=============================================================================
