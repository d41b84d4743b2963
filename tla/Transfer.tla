------------------------------ MODULE Transfer ------------------------------
(***************************************************************************)
(* What a TFTP transfer of one file promises, whoever sends and whoever    *)
(* retransmits: the receiver only ever holds a prefix of the file, block   *)
(* after block; it is content only with all of it; the sender is told that *)
(* all is well only after that.  Either side may give up, each on its own. *)
(***************************************************************************)
EXTENDS Naturals, Sequences

VARIABLES
    file,       \* the blocks to transfer
    have,       \* the blocks the receiver has taken
    sender,     \* "busy", "ok" or "failed"
    receiver    \* likewise

tvars == <<file, have, sender, receiver>>

Init ==
    /\ have = <<>>
    /\ sender = "busy"
    /\ receiver = "busy"

\* The receiver takes the next block, and is done with the last.
Take ==
    /\ receiver = "busy"
    /\ Len(have) < Len(file)
    /\ have' = Append(have, file[Len(have) + 1])
    /\ receiver' = IF have' = file THEN "ok" ELSE "busy"
    /\ UNCHANGED <<file, sender>>

Confirm ==
    /\ sender = "busy"
    /\ receiver = "ok"
    /\ sender' = "ok"
    /\ UNCHANGED <<file, have, receiver>>

SenderGivesUp ==
    /\ sender = "busy"
    /\ sender' = "failed"
    /\ UNCHANGED <<file, have, receiver>>

ReceiverGivesUp ==
    /\ receiver = "busy"
    /\ receiver' = "failed"
    /\ UNCHANGED <<file, have, sender>>

Next == Take \/ Confirm \/ SenderGivesUp \/ ReceiverGivesUp

Spec == Init /\ [][Next]_tvars
=============================================================================
