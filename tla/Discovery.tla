------------------------------ MODULE Discovery ------------------------------
(***************************************************************************)
(* Finding a hub: the advertisement of a peer arrives in parts (a service  *)
(* list, scan responses, manufacturer data that is cut short), the caller  *)
(* has the scanner look at what was heard so far (scanner.rs), and turns   *)
(* a match into a handle.  With the handle of a WeDo 2.0 hub it uses the   *)
(* WeDo codec and the encoder of the buzzer.                               *)
(***************************************************************************)
EXTENDS Scanner, Wedo2, Lights

CONSTANTS
  Peers,     (* what is in the air: its model, its services, its data      *)
  Services,  (* what the UUIDs in the air stand for                        *)
  Bytes,     (* bound: bytes of WeDo 2.0 messages                          *)
  Names      (* bound: names, each a sequence of characters                *)

(***************************************************************************)
(* What LEGO's hubs put in their advertisements, as the comments on        *)
(* from_advertisement have it (external): a WeDo 2.0 hub has a service of  *)
(* its own, the others share one and are told by the fourth byte of their  *)
(* manufacturer data, and nothing else advertises that.                    *)
(***************************************************************************)
Advertises(p, id) == \E s \in p.services : s.id = id

Genuine(p) ==
  /\ p.model = "WeDo2SmartHub" <=> Advertises(p, "WEDO2_SERVICE")
  /\ \A m \in DOMAIN ManufacturerId :
       p.model = m <=> /\ Advertises(p, "LPF2_SERVICE")
                       /\ Len(p.data) >= 4 /\ p.data[4] = ManufacturerId[m]

ASSUME DiscoveryAssumption ==
  /\ \A p \in Peers : /\ p.model \in HubTypes \cup {NoHub}
                       /\ p.services \subseteq [id : Services, dashes : BOOLEAN, capitals : BOOLEAN]
                       /\ p.data \in Seq(Byte)
                       /\ Genuine(p)
  /\ {"WEDO2_SERVICE", "LPF2_SERVICE"} \subseteq Services
  /\ Bytes \subseteq Byte
  /\ Names \subseteq Seq(Seq(Byte))

VARIABLES
  peer,    (* one peripheral in the air                                    *)
  heard,   (* its services and manufacturer data, as far as they came      *)
  adv,     (* what from_advertisement says of that                         *)
  hub      (* the handle, once into_hub made it                            *)

vars == <<peer, heard, adv, hub>>

NoHandle == [type |-> NoHub, ports |-> NoPorts, char |-> Lpf2All]

Init ==
  /\ peer \in Peers
  /\ heard = [services |-> {}, data |-> <<>>]
  /\ adv = NoHub /\ hub = NoHandle

\* AdvertisedHub::from_advertisement.
Look(news) ==
  /\ heard' = news
  /\ adv' = FromAdvertisement(news.services, news.data)
  /\ UNCHANGED <<peer, hub>>

HearService == \E s \in peer.services \ heard.services :
  Look([heard EXCEPT !.services = @ \cup {s}])

HearData == \E n \in Len(heard.data) + 1 .. Len(peer.data) :
  Look([heard EXCEPT !.data = SubSeq(peer.data, 1, n)])

Take ==
  /\ adv # NoHub /\ hub = NoHandle
  /\ hub' = IntoHub(adv)
  /\ UNCHANGED <<peer, heard, adv>>

Next == HearService \/ HearData \/ Take

\* A peer repeats its advertisement until all of it is heard.
Spec == Init /\ [][Next]_vars /\ WF_vars(HearService) /\ WF_vars(HearData) /\ WF_vars(Take)

-----------------------------------------------------------------------------
(***************************************************************************)
(* The peer of a WeDo 2.0 handle: how it puts what happened into a         *)
(* message, and what it takes the bytes of the host for.                   *)
(***************************************************************************)
PortEvents   == {Attached(p, t) : p, t \in Bytes} \cup {Detached(p) : p \in Bytes}
SensorEvents == {Button(b) : b \in BOOLEAN}
                  \cup {PortData(p, d) : p \in Bytes, d \in {<<>>} \cup {<<b>> : b \in Bytes}}

SentPortEvent(e) == IF e.kind = "Attached" THEN <<e.port, 1, 0, e.type, 0>> ELSE <<e.port, 0>>

\* The first byte of a value is one the codec does not look at.
SentSensorEvent(e, first) ==
  IF e.kind = "Button" THEN <<IF e.pressed THEN 1 ELSE 0>> ELSE <<first, e.port>> \o e.data

InputFormat(b) == [port |-> b[3], type |-> b[4], mode |-> b[5], on |-> b[11] = 1]

-----------------------------------------------------------------------------
(***************************************************************************)
(* Properties.                                                             *)
(***************************************************************************)

\* Every variable has its type; the scanner does not say Unknown.
TypeOK ==
  /\ peer \in Peers
  /\ heard.services \subseteq peer.services /\ heard.data \in Seq(Byte)
  /\ adv \in (HubTypes \ {"Unknown"}) \cup {NoHub}
  /\ hub.type \in HubTypes \cup {NoHub}
  /\ \A n \in DOMAIN hub.ports : hub.ports[n] \in Byte

(***************************************************************************)
(* However its UUIDs are spelled, and however little was heard of it, a    *)
(* peer is never taken for a model it is not, nor anything else for a hub; *)
(* and the handle made of it is one for that model.                        *)
(***************************************************************************)
NeverMistaken ==
  /\ adv # NoHub => adv = peer.model
  /\ hub # NoHandle => hub.type = peer.model

\* A hub that is heard long enough is found.
Found == <>(hub.type = peer.model)

(***************************************************************************)
(* The three tables that number the ports of a WeDo 2.0 hub agree: the     *)
(* port map, the messages of the codec (1 is A, 2 is B), and the constant  *)
(* in the tone of the buzzer.                                              *)
(***************************************************************************)
Wedo2PortsAgree ==
  hub.type = "WeDo2SmartHub" =>
    /\ PortId(hub, "A") = {1} /\ PortId(hub, "B") = {2}
    /\ \A f, t \in Bytes : PortId(hub, "PIEZO_BUZZER") = {EncodePlayTone(f, t)[1]}

(***************************************************************************)
(* What a WeDo 2.0 hub says is what the host understands, a value without  *)
(* bytes and a first byte that looks like a button included, and the other *)
(* way round.  A name arrives cut to 14 characters, which are 14 bytes     *)
(* only as long as each of them is one.                                    *)
(***************************************************************************)
Wedo2Understood ==
  hub.type = "WeDo2SmartHub" =>
    /\ \A e \in PortEvents : ParsePortMessage(SentPortEvent(e)) = e
    /\ \A e \in SensorEvents, b \in Bytes : ParseSensorMessage(SentSensorEvent(e, b)) = e
    /\ \A p, t, m \in Bytes :
         /\ InputFormat(EncodeSubscribe(p, t, m)) = [port |-> p, type |-> t, mode |-> m, on |-> TRUE]
         /\ InputFormat(EncodeUnsubscribe(p, t, m)) = [port |-> p, type |-> t, mode |-> m, on |-> FALSE]
    /\ \A name \in Names :
         LET sent == EncodeSetName(name)
         IN  /\ sent = SubSeq(name, 1, Len(sent))
             /\ Len(sent) = 14 \/ sent = name
=============================================================================
