------------------------------- MODULE Nsdpctl -------------------------------
(***************************************************************************)
(* The verbs of tools/nsdpctl that are one SET: the writes, <<register,    *)
(* value>>, that a command line leads to.  There is none when an argument  *)
(* is refused.  Its two verbs that read before they write, status and      *)
(* flowcontrol, are actions of SettingsApply.                              *)
(***************************************************************************)
EXTENDS NsdpWire

\* A comma-separated list: some ports, each of them 1 to 8.
parsePortList(ports) == ports # {} /\ ports \subseteq 1 .. 8

LimitNames == <<"512K", "1M", "2M", "4M", "8M", "16M", "32M", "64M", "128M", "256M", "512M">>

\* A number is taken as it is, cut to a byte, known or not; a name that is
\* none of the known ones lifts the limit.
mapBandwidthLimit(named, limit) ==
    IF ~named THEN limit % 256
    ELSE IF \E n \in DOMAIN LimitNames : LimitNames[n] = limit
         THEN CHOOSE n \in DOMAIN LimitNames : LimitNames[n] = limit
         ELSE 0

Priorities == <<"high", "middle", "normal", "low">>

cmdPVID(port, id) == {<<<<"pvid", port>>, id>>}

cmdQoS(port, priority) ==
    {<<<<"qos", port>>, n>> : n \in {i \in DOMAIN Priorities : Priorities[i] = priority}}

\* Any direction that is not one of the two others is ingress.
cmdBandwidth(direction, port, limit) ==
    {<<<<IF direction \in {"egress", "storm"} THEN direction ELSE "ingress", port>>, limit>>}

cmdStorm(port, limit) == {<<<<"storm", port>>, limit>>}

cmdVLANPortBased(id, ports) ==
    IF parsePortList(ports) THEN {<<<<"vlan", id>>, ports>>} ELSE {}

\* Neither list may be empty.
cmdVLAN8021Q(id, tagged, untagged) ==
    IF parsePortList(tagged) /\ parsePortList(untagged)
    THEN {<<<<"8021q", id>>, <<tagged, untagged>>>>} ELSE {}

\* The sources may be left out, with or without a destination.
cmdMirror(destination, sources) ==
    IF sources = {} \/ parsePortList(sources)
    THEN {<<<<"mirror", 0>>, <<destination, sources>>>>} ELSE {}

cmdQoSMode(mode) ==
    CASE mode = "port-based" -> {<<<<"qosMode", 0>>, 1>>}
      [] mode = "802.1p" -> {<<<<"qosMode", 0>>, 2>>}
      [] OTHER -> {}

cmdMulticast(state) ==
    IF state \in {"on", "off"} THEN {<<<<"mcast", 0>>, state = "on">>} ELSE {}
=============================================================================
