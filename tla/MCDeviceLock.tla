----------------------------- MODULE MCDeviceLock -----------------------------
(***************************************************************************)
(* One gs108tv2 with three blocks (by MAC, by MAC and host, by host) and a *)
(* gs108ev3 with one; two operations at a time, again and again. The       *)
(* blocks of one switch differ in their spacing.                           *)
(***************************************************************************)
EXTENDS DeviceLock

MCBlocks == {"mac", "both", "host", "web"}

MCKeys == {"", "m", "h", "w"}

MCMAC == [b \in MCBlocks |-> IF b \in {"mac", "both"} THEN "m" ELSE ""]

MCHost == [b \in MCBlocks |-> CASE b = "mac" -> "" [] b = "web" -> "w" [] OTHER -> "h"]

MCModels == [b \in MCBlocks |-> IF b = "web" THEN "gs108ev3" ELSE "gs108tv2"]

MCSpacing == [b \in MCBlocks |-> IF b = "both" THEN 2 ELSE 1]
=============================================================================
