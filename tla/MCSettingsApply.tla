--------------------------- MODULE MCSettingsApply ---------------------------
(* Two ports, at the ends of the bitmaps; a few configurations of each      *)
(* resource, some of them invalid; other managers that write values within  *)
(* and beyond what a configuration can say.                                 *)
EXTENDS SettingsApply, Nsdpctl

Block(p, config, qos, rate) ==
    [number |-> p, config |-> config, qos |-> qos, ingress |-> rate, egress |-> 0]
Factory1 == Block(1, <<TRUE, FALSE>>, 4, 0)
Shut8 == Block(8, <<FALSE, TRUE>>, 4, 11)

Row(id, ports) == [number |-> id, ports |-> ports]

MCConfigs(res) ==
    CASE res = "ports" -> {<<Factory1, Shut8>>, <<Factory1, Factory1>>, <<Shut8>>}
      [] res = "settings" ->
           {[qosMode |-> 1, mcast |-> TRUE, mirror |-> <<0, {}>>],
            [qosMode |-> 2, mcast |-> FALSE, mirror |-> <<8, {1}>>],
            [qosMode |-> 2, mcast |-> TRUE, mirror |-> <<8, {1, 8}>>]}
      [] res = "table" ->
           {<<Row(1, {1})>>, <<Row(300, {1, 8}), Row(1, {8})>>,
            <<Row(1, {1}), Row(1, {8})>>, <<Row(1, {})>>}
      [] OTHER -> {}

\* nsdpctl, the vendor's tools (engine mode, a mirror of more ports) and the
\* writes of a vlan_state plan.
MCManaged(res) ==
    CASE res = "ports" ->
           cmdQoS(1, "middle") \cup cmdQoS(9, "high") \cup cmdStorm(1, mapBandwidthLimit(TRUE, "2M"))
             \cup cmdBandwidth("in", 8, mapBandwidthLimit(FALSE, 12))
             \cup cmdBandwidth("egress", 8, mapBandwidthLimit(TRUE, "fast"))
      [] res = "settings" ->
           cmdMirror(0, {1}) \cup cmdMirror(1, {8}) \cup cmdMirror(9, {1}) \cup cmdMulticast("on")
             \cup cmdQoSMode("802.1p")
      [] res = "table" -> cmdVLANPortBased(300, {8}) \cup {<<<<"engine", 0>>, 3>>}
      [] OTHER ->
           cmdVLAN8021Q(300, {1}, {1, 8}) \cup {<<<<"8021q", 1>>, <<{8}, {}>>>>}
             \cup cmdPVID(8, 300) \cup {<<<<"engine", 0>>, 2>>}
=============================================================================
