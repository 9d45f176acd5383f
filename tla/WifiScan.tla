------------------------------ MODULE WifiScan ------------------------------
(***************************************************************************)
(* One call of wifi_discover_devices_nl80211(): trigger a scan, wait, and  *)
(* list the results the kernel has.  A result carries information elements *)
(* as bytes: an id, a length and that many bytes of data, one after the    *)
(* other, the last one perhaps cut off.  Element 0 is the SSID.            *)
(***************************************************************************)
EXTENDS Integers, Sequences, SequencesExt

CONSTANTS
    IeBytes,      \* the values of a byte of an information element
    MaxIeBytes,   \* bound: the bytes of the elements of one result
    MaxResults,   \* bound: the results of one dump
    MaxNetworks   \* WIFI_MAX_DEVICES

VARIABLES
    pc, status, outLen,  \* where the call is, its result, *output_len
    dump,      \* the results the kernel sent (history)
    networks   \* the SSIDs of the networks collected

wifiVars == <<dump, networks>>

(* A result with or without a BSSID. *)
Results == [bssid : {TRUE}, ies : BoundedSeq(IeBytes, MaxIeBytes)]
              \cup {[bssid |-> FALSE, ies |-> <<>>]}

WifiTypeOK ==
    /\ dump \in Seq(Results) /\ Len(dump) <= MaxResults
    /\ networks \in Seq(BoundedSeq(IeBytes \ {0}, MaxIeBytes)) /\ Len(networks) <= Len(dump)

WifiInit == dump = <<>> /\ networks = <<>>
-----------------------------------------------------------------------------
(* The string of these bytes that "%s" prints. *)
CString(bytes) ==
    SubSeq(bytes, 1, Min({i \in DOMAIN bytes : bytes[i] = 0} \cup {Len(bytes) + 1}) - 1)

(* Mutant: an element that ends with the data is taken for cut off. *)
FindSsidEarly(ies) ==
    LET find[pos \in 0 .. Len(ies)] ==
          IF pos + 2 > Len(ies) THEN <<>>
          ELSE LET end == pos + 2 + ies[pos + 2]
               IN  IF end >= Len(ies) THEN <<>>
                   ELSE IF ies[pos + 1] = 0 THEN SubSeq(ies, pos + 3, end) ELSE find[end]
    IN  find[0]

(* find_ssid_ie(): the data of the SSID element, empty if there is none. *)
FindSsid(ies) ==
    LET find[pos \in 0 .. Len(ies)] ==
          IF pos + 2 > Len(ies) THEN <<>>
          ELSE LET end == pos + 2 + ies[pos + 2]
               IN  IF end > Len(ies) THEN <<>>
                   ELSE IF ies[pos + 1] = 0 THEN SubSeq(ies, pos + 3, end) ELSE find[end]
    IN  find[0]
-----------------------------------------------------------------------------
(* No such interface, no nl80211, or the request cannot be made. *)
TriggerFails ==
    /\ pc = "start"
    /\ pc' = "done" /\ status' \in {"error", "not_supported"}
    /\ UNCHANGED <<outLen, wifiVars>>

(* The scan is triggered, or may not be; either way the results that are   *)
(* there are fetched after 200 ms.                                         *)
TriggerScan ==
    /\ pc = "start"
    /\ pc' = "fetch"
    /\ UNCHANGED <<status, outLen, wifiVars>>

(* scan_result_handler(). *)
ScanResult ==
    /\ pc = "fetch" /\ Len(dump) < MaxResults
    /\ \E r \in Results :
         /\ dump' = Append(dump, r)
         /\ networks' = IF r.bssid THEN Append(networks, CString(FindSsid(r.ies))) ELSE networks
    /\ UNCHANGED <<pc, status, outLen>>

FetchFails ==
    /\ pc = "fetch"
    /\ pc' = "done" /\ status' \in {"error", "not_supported"}
    /\ UNCHANGED <<outLen, wifiVars>>

(* The end of the dump: the first MaxNetworks are the output. *)
FetchEnds ==
    /\ pc = "fetch"
    /\ outLen' = Min({Len(networks), MaxNetworks})
    /\ pc' = "done" /\ status' = IF networks = <<>> THEN "not_supported" ELSE "success"
    /\ UNCHANGED wifiVars

WifiNext == TriggerFails \/ TriggerScan \/ ScanResult \/ FetchFails \/ FetchEnds
-----------------------------------------------------------------------------
(* Where elements begin, and the SSID, without a loop.  Elements begin at  *)
(* the first place and after every element that is complete, and nowhere   *)
(* else: these places are in every set that has the first and, with the    *)
(* place of a complete element, the place after it.                        *)
Whole(ies, p) == p + 2 <= Len(ies) /\ p + 2 + ies[p + 2] <= Len(ies)
After(ies, p) == p + 2 + ies[p + 2]

Begins(ies, first) ==
    LET closed == {S \in SUBSET (0 .. Len(ies)) :
                     first \in S /\ \A q \in S : Whole(ies, q) => After(ies, q) \in S}
    IN  {p \in 0 .. Len(ies) : \A S \in closed : p \in S}

SsidPlaces(ies, first) == {p \in Begins(ies, first) : Whole(ies, p) /\ ies[p + 1] = 0}

SsidOf(ies) ==
    LET ssids == SsidPlaces(ies, 0)
    IN  IF ssids = {} THEN <<>>
        ELSE CString(SubSeq(ies, Min(ssids) + 3, After(ies, Min(ssids))))

(* The results with a BSSID, and which of them one is. *)
Kept    == {p \in DOMAIN dump : dump[p].bssid}
Rank(p) == Cardinality({q \in Kept : q <= p})

(* Every network with a BSSID is listed, in the kernel's order up to the   *)
(* limit, with the first SSID element that is complete, be it the last of  *)
(* its elements, and never bytes of another element.  The call succeeds    *)
(* exactly if it lists a network, and an error lists none.                 *)
WifiAnswered ==
    pc = "done" =>
        /\ status = "success" <=> outLen > 0
        /\ status = "success" => outLen = Min({Cardinality(Kept), MaxNetworks})
        /\ \A p \in Kept : Rank(p) <= outLen => networks[Rank(p)] = SsidOf(dump[p].ies)
=============================================================================
