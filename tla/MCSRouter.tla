------------------------------ MODULE MCSRouter ------------------------------
EXTENDS SRouter
Dyn == [address |-> None, tcp |-> FALSE]
MCRouters == {"a", "b", "c"}
MCHome == [r \in MCRouters |-> r]
MCPool == [r \in MCRouters |-> IF r = "b" THEN {"b", "b2"} ELSE {r}]
MCConfig ==
  [a |-> [b |-> Dyn, c |-> Dyn],
   b |-> [a |-> [address |-> Udp("a"), tcp |-> FALSE]],
   c |-> [a |-> [address |-> Udp("a"), tcp |-> TRUE]]]
Hosts == {"ha", "hb", "hb2", "hc"}
MCLanOf == [a |-> "a", ha |-> "a", hb |-> "b", hb2 |-> "b", hc |-> "c", b |-> "b", c |-> "c"]
To(dst, targets) ==
  [src |-> DOMAIN MCLanOf, dst |-> dst, kinds |-> {"udp"}, ports |-> {"app"} \cup Hosts,
   targets |-> targets, break |-> TRUE]
\* Each router has a last route for every host that the ones before it do not name.
MCRoutes ==
  [a |-> << To({All}, {"b", "c", Device}), To({"b", "hb", "hb2"}, {"b"}), To({"c", "hc"}, {"c"}),
            To(DOMAIN MCLanOf, {Device}) >>,
   b |-> << To({All}, {"a", Device}), To({"b", "hb", "hb2"}, {Device}),
            To(DOMAIN MCLanOf, {"a"}) >>,
   c |-> << To({All}, {"a", Device}), To({"c", "hc"}, {Device}),
            To(DOMAIN MCLanOf, {"a"}) >>]
P(src, dst, port, part) ==
  [src |-> src, dst |-> dst, kind |-> "udp", port |-> port, part |-> part]
MCPackets ==
  {P("hb", "ha", "app", 1), P("hb", "ha", "app", 2), P("ha", "a", "hb", 0), P("ha", "a", "hb", 2),
   P("ha", All, "app", 0), P("hb", All, "app", 1), P("hb", All, "app", 2),
   P("hb2", "hb", "app", 0)}
MCLimits ==
  {[sent |-> 3, events |-> 0, net |-> 1], [sent |-> 1, events |-> 1, net |-> 2],
   [sent |-> 0, events |-> 2, net |-> 2]}
ASSUME Star("a") /\ DeviceRoutesAreOwn
==============================================================================
