----------------------------- MODULE MCDiscovery -----------------------------
(* Every hub model with its service in every spelling, with and without     *)
(* other services, and data that goes on behind the model's byte; things    *)
(* that are not hubs, some with the byte of one.                            *)
EXTENDS Discovery

Spelled(u) == [id : {u.id}, dashes : BOOLEAN, capitals : BOOLEAN]
Other == Uuid("BATTERY_SERVICE")
Around(ss) == {{s} : s \in ss} \cup {{s, Other} : s \in ss} \cup {ss}
Data(id) == {<<151, 3, 0, id>>, <<151, 3, 64, id, 65, 0>>}

MCPeers ==
  UNION {[model : {m}, services : Around(Spelled(Lpf2Service)), data : Data(ManufacturerId[m])] :
           m \in DOMAIN ManufacturerId}
    \cup [model : {"WeDo2SmartHub"}, services : Around(Spelled(Wedo2Service)), data : {<<>>, <<151, 3, 0, 64>>}]
    \cup [model : {NoHub}, services : {{}, {Other}, {Lpf2All}}, data : Data(64)]
    \cup [model : {NoHub}, services : Around(Spelled(Lpf2Service)), data : Data(70) \cup {<<64, 64, 64>>}]

MCServices == {"WEDO2_SERVICE", "LPF2_SERVICE", "LPF2_ALL", "BATTERY_SERVICE"}
MCBytes == {0, 1, 2, 5, 34, 255}
MCNames == {<<>>, [k \in 1..14 |-> <<k>>], [k \in 1..15 |-> <<195, k>>]}
=============================================================================
