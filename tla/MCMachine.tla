----------------------------- MODULE MCMachine -----------------------------
EXTENDS Machine, MCVma

MCFrames == {[type |-> "IP"],
             [type |-> "ARP", op |-> "request", ip |-> "ip1", mac |-> "m1"],
             [type |-> "ARP", op |-> "reply", ip |-> "ip1", mac |-> "m2"],
             [type |-> "ARP", op |-> "reply", ip |-> "ip2", mac |-> "m1"],
             [type |-> "ARP", op |-> "bad", ip |-> "lo", mac |-> "m2"]}

Seg(proto, sport, flags, len) == [proto |-> proto, dport |-> 7, sport |-> sport, flags |-> flags, len |-> len]
MCSegments == {Seg("TCP", 0, {"SYN"}, 0), Seg("TCP", 9, {"PSH"}, 1), Seg("TCP", 9, {"PSH", "FIN"}, 2),
               Seg("TCP", 0, {"RST", "PSH"}, 1), Seg("UDP", 0, {}, 2), Seg("UDP", 0, {}, LenWords - 2),
               Seg("TCP", 9, {"PSH"}, LenWords - 1)}
MCBinds == {<<0, 7>>}
MCPeers == {<<0, 9>>}
MCNets == {{}, {1}, {1, 2}, {2}, {1, 2, 3}}
MCMasks == {{}, {1}, {1, 2}, {2, 3}, {1, 2, 3}}

\* Two keys collide, and the third one has the next place.
MCHashOf == [k \in HashKeys |-> IF k = "k3" THEN 1 ELSE 0]
=============================================================================
