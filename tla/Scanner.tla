------------------------------- MODULE Scanner -------------------------------
(***************************************************************************)
(* From a BLE advertisement to a hub handle: scanner.rs,                   *)
(* HubType::from_advertisement, the constructors of Hub and their port     *)
(* maps.                                                                   *)
(*                                                                         *)
(* A UUID is a record: which one, whether written with dashes, and whether *)
(* in capitals.  A port map is a record from port names to port ids.       *)
(***************************************************************************)
EXTENDS Naturals, Sequences

HubTypes == {"Hub", "MoveHub", "TechnicMediumHub", "TechnicSmallHub", "RemoteControl",
             "DuploTrainBase", "WeDo2SmartHub", "Mario", "Luigi", "Peach", "Unknown"}
NoHub == "none"

\* BleManufacturerId.
ManufacturerId ==
  [DuploTrainBase |-> 32, MoveHub |-> 64, Hub |-> 65, RemoteControl |-> 66, Mario |-> 67,
   Luigi |-> 68, Peach |-> 69, TechnicMediumHub |-> 128, TechnicSmallHub |-> 131]

\* ble_uuid: as they are written in the source.
Uuid(id) == [id |-> id, dashes |-> TRUE, capitals |-> FALSE]
Wedo2Service == Uuid("WEDO2_SERVICE")
Lpf2Service  == Uuid("LPF2_SERVICE")
Lpf2All      == Uuid("LPF2_ALL")

-----------------------------------------------------------------------------
NoDashes(u) == [u EXCEPT !.dashes = FALSE]
EqIgnoreCase(u, v) == [u EXCEPT !.capitals = FALSE] = [v EXCEPT !.capitals = FALSE]

\* A mutant of HasService: the dashes of an advertised UUID stay.
HasService_dashes(services, uuid) == \E s \in services : EqIgnoreCase(s, NoDashes(uuid))

HasService(services, uuid) == \E s \in services : EqIgnoreCase(NoDashes(s), NoDashes(uuid))

\* A mutant of IdByte: the last byte of the data.
IdByte_last(data) == IF data = <<>> THEN {} ELSE {data[Len(data)]}

\* The byte at index 3, if it is there.
IdByte(data) == IF Len(data) >= 4 THEN {data[4]} ELSE {}

Models(data) == {m \in DOMAIN ManufacturerId : ManufacturerId[m] \in IdByte(data)}

\* A mutant of FromAdvertisement: what has the service is a hub.
FromAdvertisement_lenient(services, data) ==
  IF HasService(services, Wedo2Service) THEN "WeDo2SmartHub"
  ELSE IF ~HasService(services, Lpf2Service) THEN NoHub
  ELSE IF Models(data) = {} THEN "Unknown" ELSE CHOOSE m \in Models(data) : TRUE

\* HubType::from_advertisement: the model, or NoHub.
FromAdvertisement(services, data) ==
  IF HasService(services, Wedo2Service) THEN "WeDo2SmartHub"
  ELSE IF ~HasService(services, Lpf2Service) \/ Models(data) = {} THEN NoHub
  ELSE CHOOSE m \in Models(data) : TRUE

-----------------------------------------------------------------------------
(***************************************************************************)
(* hub/port_maps.rs.                                                       *)
(***************************************************************************)
PoweredUpHubPorts ==
  [A |-> 0, B |-> 1, HUB_LED |-> 50, CURRENT_SENSOR |-> 59, VOLTAGE_SENSOR |-> 60]

MoveHubPorts ==
  [A |-> 0, B |-> 1, C |-> 2, D |-> 3, HUB_LED |-> 50, TILT_SENSOR |-> 58,
   CURRENT_SENSOR |-> 59, VOLTAGE_SENSOR |-> 60]

TechnicMediumHubPorts ==
  [A |-> 0, B |-> 1, C |-> 2, D |-> 3, HUB_LED |-> 50, CURRENT_SENSOR |-> 59,
   VOLTAGE_SENSOR |-> 60, ACCELEROMETER |-> 97, GYRO_SENSOR |-> 98, TILT_SENSOR |-> 99]

TechnicSmallHubPorts ==
  [A |-> 0, B |-> 1, HUB_LED |-> 49, CURRENT_SENSOR |-> 59, VOLTAGE_SENSOR |-> 60,
   ACCELEROMETER |-> 97, GYRO_SENSOR |-> 98, TILT_SENSOR |-> 99]

RemoteControlPorts ==
  [LEFT |-> 0, RIGHT |-> 1, HUB_LED |-> 52, VOLTAGE_SENSOR |-> 59, REMOTE_CONTROL_RSSI |-> 60]

DuploTrainBasePorts == [MOTOR |-> 0, COLOR |-> 18, SPEEDOMETER |-> 19]

\* A mutant of Wedo2SmartHubPorts: sockets counted from 0, as everywhere else.
Wedo2SmartHubPorts_fromZero ==
  [A |-> 0, B |-> 1, CURRENT_SENSOR |-> 3, VOLTAGE_SENSOR |-> 4, PIEZO_BUZZER |-> 5, HUB_LED |-> 6]

Wedo2SmartHubPorts ==
  [A |-> 1, B |-> 2, CURRENT_SENSOR |-> 3, VOLTAGE_SENSOR |-> 4, PIEZO_BUZZER |-> 5, HUB_LED |-> 6]

NoPorts == << >>

-----------------------------------------------------------------------------
\* Hub::new; the characteristic is the same for every model.
NewHub(type, ports) == [type |-> type, ports |-> ports, char |-> Lpf2All]

\* The constructors of Hub<Disconnected>.
Constructed(type) ==
  CASE type = "Hub"              -> NewHub("Hub", PoweredUpHubPorts)
    [] type = "MoveHub"          -> NewHub("MoveHub", MoveHubPorts)
    [] type = "TechnicMediumHub" -> NewHub("TechnicMediumHub", TechnicMediumHubPorts)
    [] type = "TechnicSmallHub"  -> NewHub("TechnicSmallHub", TechnicSmallHubPorts)
    [] type = "RemoteControl"    -> NewHub("RemoteControl", RemoteControlPorts)
    [] type = "DuploTrainBase"   -> NewHub("DuploTrainBase", DuploTrainBasePorts)
    [] type = "WeDo2SmartHub"    -> NewHub("WeDo2SmartHub", Wedo2SmartHubPorts)

\* AdvertisedHub::into_hub.
IntoHub(type) ==
  IF type \in {"Mario", "Luigi", "Peach", "Unknown"} THEN NewHub(type, NoPorts)
  ELSE Constructed(type)

\* Hub::port_id: the set of ids found, at most one.
PortId(hub, name) == {hub.ports[n] : n \in {name} \cap DOMAIN hub.ports}
=============================================================================
