-------------------------- MODULE InstrumentActions --------------------------
(***************************************************************************)
(* instrument_action_impl(): one call at a time of one application thread, *)
(* dispatched to the Bluetooth scanner, the Wi-Fi scanner or the GPS       *)
(* client, with one status and one *output_len.  Calls of several threads  *)
(* share nothing: all the state of a call is on its stack.                 *)
(***************************************************************************)
EXTENDS Integers

CONSTANTS
    Macs, Names, InfoTexts, NoMac, NoName, MaxDevices, MaxLines,
    IeBytes, MaxIeBytes, MaxResults, MaxNetworks,
    Cap, Lengths, MaxReports

ASSUME InstrumentAssumption ==
    /\ NoMac \notin Macs
    /\ NoName \notin Names \cup InfoTexts
    /\ Names \cap InfoTexts = {}
    /\ IeBytes \subseteq Nat
    /\ Lengths \subseteq Nat \ {0, 1}
    /\ Cap \in Nat /\ Cap > 1
    /\ {MaxDevices, MaxNetworks} \subseteq Nat \ {0}
    /\ {MaxLines, MaxIeBytes, MaxResults, MaxReports} \subseteq Nat

VARIABLES
    action,  \* the action in progress, "none" between calls
    pc, status, outLen,
    heard, table, devices,
    dump, networks,
    stream, taken, buffer, position, sawPoll

Bluez == INSTANCE BluezScan
Wifi  == INSTANCE WifiScan
Gps   == INSTANCE GpsPoll

bluezVars == <<heard, table, devices>>
wifiVars  == <<dump, networks>>
gpsVars   == <<stream, taken, buffer, position, sawPoll>>

vars == <<action, pc, status, outLen, bluezVars, wifiVars, gpsVars>>

TypeOK ==
    /\ action \in {"none", "bluetooth", "wifi", "gps"}
    /\ pc \in {"idle", "start", "scan", "known", "enrich", "fetch", "recv", "done"}
    /\ pc = "idle" <=> action = "none"
    /\ status \in {"none", "success", "error", "not_supported"}
    /\ outLen \in Nat
    /\ Bluez!BluezTypeOK /\ Wifi!WifiTypeOK /\ Gps!GpsTypeOK

Init ==
    /\ action = "none" /\ pc = "idle" /\ status = "none" /\ outLen = 0
    /\ Bluez!BluezInit /\ Wifi!WifiInit /\ Gps!GpsInit
-----------------------------------------------------------------------------
(* The length is cleared and the action looked up. *)
Dispatch(a) ==
    /\ pc = "idle"
    /\ action' = a /\ pc' = "start" /\ status' = "none" /\ outLen' = 0
    /\ UNCHANGED <<bluezVars, wifiVars, gpsVars>>

DiscoverBluetooth ==
    /\ action = "bluetooth" /\ Bluez!BluezNext
    /\ UNCHANGED <<action, wifiVars, gpsVars>>

DiscoverWifi ==
    /\ action = "wifi" /\ Wifi!WifiNext
    /\ UNCHANGED <<action, bluezVars, gpsVars>>

GetPosition ==
    /\ action = "gps" /\ Gps!GpsNext
    /\ UNCHANGED <<action, bluezVars, wifiVars>>

(* The call returns, and its locals are gone. *)
Return ==
    /\ pc = "done"
    /\ action' = "none" /\ pc' = "idle" /\ status' = "none" /\ outLen' = 0
    /\ heard' = <<>> /\ table' = <<>> /\ devices' = <<>>
    /\ dump' = <<>> /\ networks' = <<>>
    /\ stream' = <<>> /\ taken' = 0 /\ buffer' = <<>> /\ position' = 0 /\ sawPoll' = FALSE

Next ==
    \/ \E a \in {"bluetooth", "wifi", "gps"} : Dispatch(a)
    \/ DiscoverBluetooth \/ DiscoverWifi \/ GetPosition \/ Return

Spec == Init /\ [][Next]_vars
-----------------------------------------------------------------------------
(* The devices of a Bluetooth scan are those its outputs name, in order of *)
(* appearance up to the limit, with the first name given to each.          *)
BluetoothListed == action = "bluetooth" => Bluez!Listed

(* The networks of a Wi-Fi scan are those the kernel reported, in order up *)
(* to the limit, with the SSID their elements hold.                        *)
WifiListed == action = "wifi" => Wifi!WifiAnswered

(* The position is the one gpsd's complete reports give, however the       *)
(* stream was cut into pieces.                                             *)
PositionFound == action = "gps" => Gps!Answered
=============================================================================
