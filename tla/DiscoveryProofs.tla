--------------------------- MODULE DiscoveryProofs ---------------------------
(***************************************************************************)
(* Proofs about module Discovery.                                          *)
(***************************************************************************)
EXTENDS Discovery, SequenceTheorems, TLAPS

-----------------------------------------------------------------------------
(***************************************************************************)
(* The scanner.                                                            *)
(***************************************************************************)
UuidType == [id : Services, dashes : BOOLEAN, capitals : BOOLEAN]

\* NoDashes takes the dashes off and nothing else.
LEMMA WithoutDashes ==
  ASSUME NEW u \in UuidType
  PROVE  NoDashes(u) \in UuidType /\ NoDashes(u).id = u.id /\ NoDashes(u).dashes = FALSE
BY DEF UuidType, NoDashes

\* EqIgnoreCase looks at everything but the capitals.
LEMMA EqualBut ==
  ASSUME NEW u \in UuidType, NEW v \in UuidType
  PROVE  EqIgnoreCase(u, v) <=> u.id = v.id /\ u.dashes = v.dashes
BY DEF UuidType, EqIgnoreCase

\* Neither dashes nor capitals matter to HasService.
LEMMA AnySpelling ==
  ASSUME NEW services \in SUBSET UuidType, NEW id \in Services
  PROVE  HasService(services, Uuid(id)) <=> \E s \in services : s.id = id
<1>1. Uuid(id) \in UuidType /\ Uuid(id).id = id
  BY DEF Uuid, UuidType
<1>2. ASSUME NEW s \in services
      PROVE  EqIgnoreCase(NoDashes(s), NoDashes(Uuid(id))) <=> s.id = id
  <2>1. s \in UuidType
    OBVIOUS
  <2>2. NoDashes(s) \in UuidType /\ NoDashes(s).id = s.id /\ NoDashes(s).dashes = FALSE
    BY <2>1, WithoutDashes
  <2>3. /\ NoDashes(Uuid(id)) \in UuidType /\ NoDashes(Uuid(id)).id = id
        /\ NoDashes(Uuid(id)).dashes = FALSE
    BY <1>1, WithoutDashes
  <2>4. EqIgnoreCase(NoDashes(s), NoDashes(Uuid(id)))
          <=> /\ NoDashes(s).id = NoDashes(Uuid(id)).id
              /\ NoDashes(s).dashes = NoDashes(Uuid(id)).dashes
    BY <2>2, <2>3, EqualBut
  <2> QED BY <2>2, <2>3, <2>4, Zenon
<1> QED BY <1>2 DEF HasService

\* The models of protocol/consts.rs with a byte of their own.
LEMMA ModelNames ==
  DOMAIN ManufacturerId = {"DuploTrainBase", "MoveHub", "Hub", "RemoteControl", "Mario",
                           "Luigi", "Peach", "TechnicMediumHub", "TechnicSmallHub"}
BY DEF ManufacturerId

\* No two models share a byte.
LEMMA BytesDiffer ==
  ASSUME NEW m \in DOMAIN ManufacturerId, NEW n \in DOMAIN ManufacturerId,
         ManufacturerId[m] = ManufacturerId[n]
  PROVE  m = n
BY ModelNames DEF ManufacturerId

\* Models(data) has at most one element.
LEMMA OneModel ==
  ASSUME NEW data, NEW m \in Models(data)
  PROVE  (CHOOSE n \in Models(data) : TRUE) = m
<1>1. \A n \in Models(data) : n = m
  BY BytesDiffer DEF Models, IdByte
<1> QED BY <1>1
-----------------------------------------------------------------------------
(***************************************************************************)
(* What was heard of a peer, however little, tells no lie about it.        *)
(***************************************************************************)
Known == DOMAIN ManufacturerId \cup {"WeDo2SmartHub"}

\* heard is a part of what peer p advertises.
PartOf(services, data, p) ==
  /\ services \subseteq p.services
  /\ Len(data) <= Len(p.data) /\ \A i \in 1..Len(data) : data[i] = p.data[i]

\* A part of an advertisement is taken for the peer's model or for nothing.
LEMMA Recognized ==
  ASSUME NEW p \in Peers, NEW services, NEW data \in Seq(Byte), PartOf(services, data, p),
         FromAdvertisement(services, data) # NoHub
  PROVE  FromAdvertisement(services, data) = p.model /\ p.model \in Known
<1>1. /\ services \in SUBSET UuidType
      /\ Genuine(p) /\ p.data \in Seq(Byte)
  BY DiscoveryAssumption DEF PartOf, UuidType
<1>2. "WEDO2_SERVICE" \in Services /\ "LPF2_SERVICE" \in Services
  BY DiscoveryAssumption
<1>3. /\ HasService(services, Wedo2Service) => Advertises(p, "WEDO2_SERVICE")
      /\ HasService(services, Lpf2Service) => Advertises(p, "LPF2_SERVICE")
  BY <1>1, <1>2, AnySpelling DEF Wedo2Service, Lpf2Service, Advertises, PartOf
<1>4. CASE HasService(services, Wedo2Service)
  BY <1>1, <1>3, <1>4 DEF FromAdvertisement, Genuine, Known
<1>5. CASE ~HasService(services, Wedo2Service)
  <2>1. HasService(services, Lpf2Service) /\ Models(data) # {}
    BY <1>5 DEF FromAdvertisement
  <2>2. PICK m \in Models(data) : TRUE
    BY <2>1
  <2>3. FromAdvertisement(services, data) = m
    BY <1>5, <2>1, <2>2, OneModel DEF FromAdvertisement
  <2>4. m \in DOMAIN ManufacturerId /\ Len(data) >= 4 /\ ManufacturerId[m] = data[4]
    BY <2>2 DEF Models, IdByte
  <2>5. Len(p.data) >= 4 /\ p.data[4] = ManufacturerId[m]
    BY <1>1, <2>4 DEF PartOf
  <2>6. p.model = m
    BY <1>1, <1>3, <2>1, <2>4, <2>5 DEF Genuine
  <2> QED BY <2>3, <2>4, <2>6 DEF Known
<1> QED BY <1>4, <1>5

-----------------------------------------------------------------------------
(***************************************************************************)
(* The handles.                                                            *)
(***************************************************************************)
\* The models, by name.
LEMMA KnownNames ==
  Known = {"DuploTrainBase", "MoveHub", "Hub", "RemoteControl", "Mario", "Luigi", "Peach",
           "TechnicMediumHub", "TechnicSmallHub", "WeDo2SmartHub"}
BY ModelNames DEF Known

\* A handle is for the model it was made for.
LEMMA HandleType ==
  ASSUME NEW model \in Known
  PROVE  IntoHub(model).type = model
BY KnownNames DEF IntoHub, Constructed, NewHub

\* Whether the port ids of a map fit a byte.
PortsOK(ports) == \A n \in DOMAIN ports : ports[n] \in Byte

\* Those of every hub do.
LEMMA PortMaps ==
  /\ PortsOK(PoweredUpHubPorts) /\ PortsOK(MoveHubPorts) /\ PortsOK(TechnicMediumHubPorts)
  /\ PortsOK(TechnicSmallHubPorts) /\ PortsOK(RemoteControlPorts) /\ PortsOK(DuploTrainBasePorts)
  /\ PortsOK(Wedo2SmartHubPorts) /\ PortsOK(NoPorts)
<1>1. PortsOK(PoweredUpHubPorts)
  BY DEF PortsOK, PoweredUpHubPorts, Byte
<1>2. PortsOK(MoveHubPorts)
  BY DEF PortsOK, MoveHubPorts, Byte
<1>3. PortsOK(TechnicMediumHubPorts)
  BY DEF PortsOK, TechnicMediumHubPorts, Byte
<1>4. PortsOK(TechnicSmallHubPorts)
  BY DEF PortsOK, TechnicSmallHubPorts, Byte
<1>5. PortsOK(RemoteControlPorts)
  BY DEF PortsOK, RemoteControlPorts, Byte
<1>6. PortsOK(DuploTrainBasePorts)
  BY DEF PortsOK, DuploTrainBasePorts, Byte
<1>7. PortsOK(Wedo2SmartHubPorts)
  BY DEF PortsOK, Wedo2SmartHubPorts, Byte
<1>8. PortsOK(NoPorts)
  BY DEF PortsOK, NoPorts
<1> QED BY <1>1, <1>2, <1>3, <1>4, <1>5, <1>6, <1>7, <1>8

\* So do those of every handle.
LEMMA HandlePorts ==
  ASSUME NEW model \in Known
  PROVE  PortsOK(IntoHub(model).ports)
BY KnownNames, PortMaps DEF IntoHub, Constructed, NewHub
-----------------------------------------------------------------------------
(***************************************************************************)
(* The inductive invariant.                                                *)
(***************************************************************************)
\* What was heard is a part of what the peer advertises.
HeardPart ==
  /\ peer \in Peers
  /\ heard \in [services : SUBSET peer.services, data : Seq(Byte)]
  /\ PartOf(heard.services, heard.data, peer)

\* What was made of it is the peer's model, or nothing yet.
Honest ==
  /\ adv = NoHub \/ (adv = peer.model /\ adv \in Known)
  /\ hub = NoHandle \/ (hub = IntoHub(peer.model) /\ peer.model \in Known)

DInv == HeardPart /\ Honest

\* Nothing is heard and nothing is found at the start.
LEMMA InitDInv == Init => DInv
<1> SUFFICES ASSUME Init PROVE DInv
  OBVIOUS
<1>1. peer \in Peers /\ heard = [services |-> {}, data |-> <<>>] /\ adv = NoHub /\ hub = NoHandle
  BY DEF Init
<1>2. peer.data \in Seq(Byte)
  BY <1>1, DiscoveryAssumption
<1>3. heard.services = {} /\ heard.data = <<>> /\ Len(heard.data) = 0
  BY <1>1
<1>4. heard \in [services : SUBSET peer.services, data : Seq(Byte)]
  BY <1>1
<1>5. PartOf(heard.services, heard.data, peer)
  BY <1>2, <1>3 DEF PartOf
<1> QED BY <1>1, <1>4, <1>5 DEF DInv, HeardPart, Honest

\* Looking at a larger part keeps the invariant.
LEMMA LookKeeps ==
  ASSUME DInv, NEW services, NEW data \in Seq(Byte), PartOf(services, data, peer),
         Look([services |-> services, data |-> data])
  PROVE  DInv'
<1>1. /\ heard' = [services |-> services, data |-> data]
      /\ adv' = FromAdvertisement(services, data)
      /\ peer' = peer /\ hub' = hub
  BY DEF Look
<1>2. services \subseteq peer.services /\ peer \in Peers
  BY DEF DInv, HeardPart, PartOf
<1>3. heard' \in [services : SUBSET peer'.services, data : Seq(Byte)]
  BY <1>1, <1>2
<1>4. PartOf(heard'.services, heard'.data, peer')
  BY <1>1
<1>5. HeardPart'
  BY <1>1, <1>2, <1>3, <1>4 DEF HeardPart
<1>6. Honest'
  <2>1. adv' = NoHub \/ (adv' = peer.model /\ adv' \in Known)
    BY <1>1, <1>2, Recognized
  <2> QED BY <1>1, <2>1 DEF DInv, Honest
<1> QED BY <1>5, <1>6 DEF DInv

\* DInv is inductive.
LEMMA StepDInv == DInv /\ [Next]_vars => DInv'
<1> SUFFICES ASSUME DInv, [Next]_vars PROVE DInv'
  OBVIOUS
<1>1. /\ peer \in Peers /\ peer.data \in Seq(Byte)
      /\ heard \in [services : SUBSET peer.services, data : Seq(Byte)]
      /\ PartOf(heard.services, heard.data, peer)
  BY DiscoveryAssumption DEF DInv, HeardPart
<1>2. CASE UNCHANGED vars
  BY <1>2 DEF vars, DInv, HeardPart, Honest, PartOf
<1>3. CASE HearService
  <2>1. PICK s \in peer.services \ heard.services : Look([heard EXCEPT !.services = @ \cup {s}])
    BY <1>3 DEF HearService
  <2> DEFINE ss == heard.services \cup {s}
  <2>2. ss \in SUBSET peer.services
    BY <1>1, <2>1
  <2>3. Look([heard EXCEPT !.services = ss])
    BY <2>1
  <2> HIDE DEF ss
  <2>4. [heard EXCEPT !.services = ss] = [services |-> ss, data |-> heard.data]
    BY <1>1
  <2>5. PartOf(ss, heard.data, peer)
    BY <1>1, <2>2 DEF PartOf
  <2>6. Look([services |-> ss, data |-> heard.data])
    BY <2>3, <2>4
  <2> QED BY <1>1, <2>5, <2>6, LookKeeps
<1>4. CASE HearData
  <2>1. PICK n \in Len(heard.data) + 1 .. Len(peer.data) :
           Look([heard EXCEPT !.data = SubSeq(peer.data, 1, n)])
    BY <1>4 DEF HearData
  <2> DEFINE d == SubSeq(peer.data, 1, n)
  <2>2. Len(heard.data) \in Nat /\ Len(peer.data) \in Nat /\ n \in 1..Len(peer.data)
    BY <1>1
  <2>3. d \in Seq(Byte) /\ Len(d) = n /\ \A i \in 1..n : d[i] = peer.data[i]
    BY <1>1, <2>2
  <2> HIDE DEF d
  <2>4. [heard EXCEPT !.data = d] = [services |-> heard.services, data |-> d]
    BY <1>1
  <2>5. PartOf(heard.services, d, peer)
    BY <1>1, <2>2, <2>3 DEF PartOf
  <2>6. Look([services |-> heard.services, data |-> d])
    BY <2>1, <2>4 DEF d
  <2> QED BY <2>3, <2>5, <2>6, LookKeeps
<1>5. CASE Take
  <2>1. hub' = IntoHub(adv) /\ adv # NoHub /\ UNCHANGED <<peer, heard, adv>>
    BY <1>5 DEF Take
  <2>2. Honest'
    BY <2>1 DEF DInv, Honest
  <2>3. HeardPart'
    BY <1>1, <2>1 DEF HeardPart, PartOf
  <2> QED BY <2>2, <2>3 DEF DInv
<1> QED BY <1>2, <1>3, <1>4, <1>5 DEF Next

\* What was heard is a part of the advertisement, and what was made of it is
\* the peer's own model: DInv holds in every reachable state.
THEOREM DiscoveryInductive == Spec => []DInv
BY InitDInv, StepDInv, PTL DEF Spec
-----------------------------------------------------------------------------
(***************************************************************************)
(* The theorems.                                                           *)
(***************************************************************************)

\* Every variable of Discovery keeps its type.
THEOREM DiscoveryTypeCorrect == Spec => []TypeOK
<1>1. DInv => TypeOK
  <2> SUFFICES ASSUME DInv PROVE TypeOK
    OBVIOUS
  <2>1. /\ peer \in Peers /\ heard.services \subseteq peer.services /\ heard.data \in Seq(Byte)
    BY DEF DInv, HeardPart
  <2>2. adv \in (HubTypes \ {"Unknown"}) \cup {NoHub}
    BY KnownNames DEF DInv, Honest, HubTypes
  <2>3. CASE hub = NoHandle
    <3>1. hub.type = NoHub /\ PortsOK(hub.ports)
      BY <2>3, PortMaps DEF NoHandle
    <3> QED BY <2>1, <2>2, <3>1 DEF TypeOK, PortsOK
  <2>4. CASE hub # NoHandle
    <3>1. peer.model \in Known /\ hub = IntoHub(peer.model)
      BY <2>4 DEF DInv, Honest
    <3>2. hub.type = peer.model /\ PortsOK(hub.ports)
      BY <3>1, HandleType, HandlePorts
    <3>3. hub.type \in HubTypes
      BY <3>1, <3>2, KnownNames DEF HubTypes
    <3> QED BY <2>1, <2>2, <3>2, <3>3 DEF TypeOK, PortsOK
  <2> QED BY <2>3, <2>4
<1> QED BY <1>1, DiscoveryInductive, PTL

(***************************************************************************)
(* However its UUIDs are spelled, and however little was heard of it, no   *)
(* genuine peer is taken for a model it is not, nor anything else for a    *)
(* hub, and the handle is for its model.                                   *)
(***************************************************************************)
THEOREM NoMistake == Spec => []NeverMistaken
<1>1. DInv => NeverMistaken
  BY HandleType DEF DInv, Honest, NeverMistaken
<1> QED BY <1>1, DiscoveryInductive, PTL

\* A handle that says it is one of a WeDo 2.0 hub has the port map of one.
LEMMA Wedo2Handle ==
  ASSUME DInv, hub.type = "WeDo2SmartHub"
  PROVE  hub.ports = Wedo2SmartHubPorts
<1>1. hub # NoHandle
  BY DEF NoHandle, NoHub
<1>2. peer.model \in Known /\ hub = IntoHub(peer.model)
  BY <1>1 DEF DInv, Honest
<1>3. peer.model = "WeDo2SmartHub"
  BY <1>2, HandleType
<1> QED BY <1>2, <1>3 DEF IntoHub, Constructed, NewHub

\* The three tables that number the ports of a WeDo 2.0 hub agree.
THEOREM Wedo2TablesAgree == Spec => []Wedo2PortsAgree
<1>1. DInv => Wedo2PortsAgree
  <2> SUFFICES ASSUME DInv, hub.type = "WeDo2SmartHub" PROVE Wedo2PortsAgree
    BY DEF Wedo2PortsAgree
  <2>1. hub.ports = Wedo2SmartHubPorts
    BY Wedo2Handle
  <2>2. PortId(hub, "A") = {1} /\ PortId(hub, "B") = {2} /\ PortId(hub, "PIEZO_BUZZER") = {5}
    BY <2>1 DEF PortId, Wedo2SmartHubPorts
  <2>3. ASSUME NEW f \in Bytes, NEW t \in Bytes PROVE EncodePlayTone(f, t)[1] = 5
    <3>1. f \in Int /\ t \in Int /\ U16Bytes(f) \in Seq(Int) /\ U16Bytes(t) \in Seq(Int)
      BY DiscoveryAssumption DEF U16Bytes, Byte
    <3> QED BY <3>1 DEF EncodePlayTone
  <2> QED BY <2>2, <2>3 DEF Wedo2PortsAgree
<1> QED BY <1>1, DiscoveryInductive, PTL

\* What happened at a port of a WeDo 2.0 hub is what the host parses.
LEMMA PortEventsArrive ==
  ASSUME NEW e \in PortEvents
  PROVE  ParsePortMessage(SentPortEvent(e)) = e
<1>1. CASE \E p, t \in Bytes : e = Attached(p, t)
  <2>1. PICK p \in Bytes, t \in Bytes : e = Attached(p, t)
    BY <1>1
  <2>2. SentPortEvent(e) = <<p, 1, 0, t, 0>>
    BY <2>1 DEF SentPortEvent, Attached
  <2> QED BY <2>1, <2>2 DEF ParsePortMessage
<1>2. CASE \E p \in Bytes : e = Detached(p)
  <2>1. PICK p \in Bytes : e = Detached(p)
    BY <1>2
  <2>2. SentPortEvent(e) = <<p, 0>>
    BY <2>1 DEF SentPortEvent, Detached
  <2> QED BY <2>1, <2>2 DEF ParsePortMessage
<1> QED BY <1>1, <1>2 DEF PortEvents

\* So is what a sensor, or the button, of a WeDo 2.0 hub says.
LEMMA SensorEventsArrive ==
  ASSUME NEW e \in SensorEvents, NEW b \in Bytes
  PROVE  ParseSensorMessage(SentSensorEvent(e, b)) = e
<1>1. CASE \E on \in BOOLEAN : e = Button(on)
  <2>1. PICK on \in BOOLEAN : e = Button(on)
    BY <1>1
  <2>2. SentSensorEvent(e, b) = <<IF on THEN 1 ELSE 0>>
    BY <2>1 DEF SentSensorEvent, Button
  <2>3. ParseSensorMessage(SentSensorEvent(e, b)) = Button((IF on THEN 1 ELSE 0) # 0)
    BY <2>2 DEF ParseSensorMessage
  <2>4. ((IF on THEN 1 ELSE 0) # 0) = on
    BY <2>1
  <2> QED BY <2>1, <2>3, <2>4
<1>2. CASE \E p \in Bytes : \E d \in {<<>>} \cup {<<x>> : x \in Bytes} : e = PortData(p, d)
  <2>1. PICK p \in Bytes, d \in {<<>>} \cup {<<x>> : x \in Bytes} : e = PortData(p, d)
    BY <1>2
  <2>2. SentSensorEvent(e, b) = <<b, p>> \o d
    BY <2>1 DEF SentSensorEvent, PortData
  <2>3. d \in Seq(Byte) /\ b \in Byte /\ p \in Byte
    <3>1. CASE d = <<>>
      BY <3>1, DiscoveryAssumption
    <3>2. CASE \E x \in Bytes : d = <<x>>
      BY <3>2, DiscoveryAssumption
    <3> QED BY <2>1, <3>1, <3>2
  <2> DEFINE s == <<b, p>> \o d
  <2>4. s \in Seq(Byte) /\ Len(s) = Len(d) + 2 /\ s[2] = p /\ Len(d) \in Nat
    BY <2>3
  <2>5. SubSeq(s, 3, Len(s)) = d
    <3>1. Len(s) \in Nat /\ 3 \in Nat
      BY <2>4
    <3>2. \A i \in 1..Len(d) : s[2 + i] = d[i]
      BY <2>3
    <3> QED BY <2>3, <2>4, <3>1, <3>2
  <2> HIDE DEF s
  <2>6. ParseSensorMessage(s) = PortData(p, d)
    <3>1. Len(s) # 0 /\ Len(s) # 1
      BY <2>4
    <3>2. ParseSensorMessage(s) = PortData(s[2], SubSeq(s, 3, Len(s)))
      BY <3>1, Zenon DEF ParseSensorMessage
    <3> QED BY <2>4, <2>5, <3>2, Zenon
  <2> QED BY <2>1, <2>2, <2>6 DEF s
<1> QED BY <1>1, <1>2 DEF SensorEvents

\* A name arrives as the first 14 of its characters, or whole.
LEMMA NamesArrive ==
  ASSUME NEW name \in Names
  PROVE  /\ EncodeSetName(name) = SubSeq(name, 1, Len(EncodeSetName(name)))
         /\ Len(EncodeSetName(name)) = 14 \/ EncodeSetName(name) = name
<1>1. name \in Seq(Seq(Byte)) /\ Len(name) \in Nat
  BY DiscoveryAssumption
<1>2. CASE Len(name) > 14
  <2>1. EncodeSetName(name) = SubSeq(name, 1, 14)
    BY <1>2 DEF EncodeSetName
  <2>2. Len(SubSeq(name, 1, 14)) = 14
    BY <1>1, <1>2
  <2> QED BY <2>1, <2>2
<1>3. CASE ~(Len(name) > 14)
  <2>1. EncodeSetName(name) = SubSeq(name, 1, Len(name))
    BY <1>3 DEF EncodeSetName
  <2>2. SubSeq(name, 1, Len(name)) = name
    BY <1>1
  <2> QED BY <2>1, <2>2
<1> QED BY <1>2, <1>3

(***************************************************************************)
(* What a WeDo 2.0 hub says is what the host understands, whatever byte a  *)
(* value begins with, and the other way round.                             *)
(***************************************************************************)
THEOREM Wedo2Speaks == Spec => []Wedo2Understood
<1>1. Wedo2Understood
  <2>1. ASSUME NEW p \in Bytes, NEW t \in Bytes, NEW m \in Bytes
        PROVE  /\ InputFormat(EncodeSubscribe(p, t, m))
                    = [port |-> p, type |-> t, mode |-> m, on |-> TRUE]
               /\ InputFormat(EncodeUnsubscribe(p, t, m))
                    = [port |-> p, type |-> t, mode |-> m, on |-> FALSE]
    <3>1. ASSUME NEW on \in {0, 1}
          PROVE  InputFormat(EncodeInputFormat(p, t, m, on))
                   = [port |-> p, type |-> t, mode |-> m, on |-> on = 1]
      <4> DEFINE b == EncodeInputFormat(p, t, m, on)
      <4>1. b[3] = p /\ b[4] = t /\ b[5] = m /\ b[11] = on
        BY DEF EncodeInputFormat
      <4> HIDE DEF b
      <4>2. InputFormat(b) = [port |-> p, type |-> t, mode |-> m, on |-> on = 1]
        BY <4>1, Zenon DEF InputFormat
      <4> QED BY <4>2 DEF b
    <3>2. (1 = 1) = TRUE /\ (0 = 1) = FALSE
      OBVIOUS
    <3>3. InputFormat(EncodeInputFormat(p, t, m, 1)) = [port |-> p, type |-> t, mode |-> m, on |-> TRUE]
      BY <3>1, <3>2, Zenon
    <3>4. InputFormat(EncodeInputFormat(p, t, m, 0)) = [port |-> p, type |-> t, mode |-> m, on |-> FALSE]
      BY <3>1, <3>2, Zenon
    <3> QED BY <3>3, <3>4 DEF EncodeSubscribe, EncodeUnsubscribe
  <2> QED BY <2>1, PortEventsArrive, SensorEventsArrive, NamesArrive DEF Wedo2Understood
<1> QED BY <1>1, PTL
=============================================================================
