------------------------------ MODULE BluezScan ------------------------------
(***************************************************************************)
(* One call of bluetooth_discover_devices_backend() of the BlueZ backend:  *)
(* the output of a scan and the list of the known devices are merged into  *)
(* a table of at most MaxDevices entries, which is then completed device   *)
(* by device.  What bluetoothctl prints is arbitrary; an output cut off at *)
(* the size of its buffer is one more output that may be read.             *)
(***************************************************************************)
EXTENDS Integers, Sequences

CONSTANTS
    Macs, Names,  \* the addresses and names that may be printed
    InfoTexts,    \* what "info" prints from the value of Name: to its end
    NoMac, NoName,
    MaxDevices,   \* BLUETOOTH_MAX_DEVICES
    MaxLines      \* bound: the lines of the two outputs

VARIABLES
    pc, status, outLen,  \* where the call is, its result, *output_len
    heard,               \* the lines read so far (history)
    table,               \* discovered[0 .. discovered_count)
    devices              \* output_data

bluezVars == <<heard, table, devices>>

(* A line as parse_scan_line() sees it: a device, with a name or with a    *)
(* property that is not one, or something else.                            *)
Lines == [mac : Macs, name : Names \cup {NoName}] \cup {[mac |-> NoMac, name |-> NoName]}

Devices == [mac : Macs, name : Names \cup InfoTexts \cup {NoName}]

BluezTypeOK ==
    /\ heard \in Seq(Lines) /\ Len(heard) <= MaxLines
    /\ table \in Seq([mac : Macs, name : Names \cup {NoName}]) /\ Len(table) <= MaxDevices
    /\ devices \in Seq(Devices) /\ Len(devices) <= Len(table)

BluezInit == heard = <<>> /\ table = <<>> /\ devices = <<>>
-----------------------------------------------------------------------------
(* The entries of the table for this address: at most one. *)
SlotOf(t, line) == {i \in DOMAIN t : t[i].mac = line.mac}

(* The name of the line, if its entry has none. *)
NameSlot(t, line) ==
    [i \in DOMAIN t |-> IF i \in SlotOf(t, line) /\ t[i].name = NoName THEN line ELSE t[i]]

(* Mutant: the table has no limit. *)
AddLineUncapped(t, line) ==
    IF line.mac = NoMac THEN t
    ELSE IF SlotOf(t, line) = {} THEN Append(t, line) ELSE NameSlot(t, line)

(* Mutant: the limit is tested before the device is looked up. *)
AddLineFullFirst(t, line) ==
    IF line.mac = NoMac \/ Len(t) >= MaxDevices THEN t
    ELSE IF SlotOf(t, line) = {} THEN Append(t, line) ELSE NameSlot(t, line)

(* One line of parse_scan_output(): lines of devices new to a full table   *)
(* are passed over.                                                        *)
AddLine(t, line) ==
    IF line.mac = NoMac THEN t
    ELSE IF SlotOf(t, line) # {} THEN NameSlot(t, line)
    ELSE IF Len(t) < MaxDevices THEN Append(t, line) ELSE t

ParseLine ==
    /\ Len(heard) < MaxLines
    /\ \E line \in Lines : heard' = Append(heard, line) /\ table' = AddLine(table, line)
    /\ UNCHANGED <<pc, status, outLen, devices>>
-----------------------------------------------------------------------------
(* popen() fails, or bluetoothctl, its output cut off or not, ends with an *)
(* error.                                                                  *)
ScanFails ==
    /\ pc = "start"
    /\ pc' = "done" /\ status' = "error"
    /\ UNCHANGED <<outLen, bluezVars>>

ScanAnswers ==
    /\ pc = "start"
    /\ pc' = "scan"
    /\ UNCHANGED <<status, outLen, bluezVars>>

(* parse_scan_output() of the scan, line by line ... *)
Scan == pc = "scan" /\ ParseLine

ScanParsed ==
    /\ pc = "scan"
    /\ pc' = "known"
    /\ UNCHANGED <<status, outLen, bluezVars>>

(* ... and append_known_devices(); a command that fails adds nothing, as   *)
(* one that prints nothing.                                                *)
AppendKnown == pc = "known" /\ ParseLine

KnownParsed ==
    /\ pc = "known"
    /\ pc' = "enrich"
    /\ UNCHANGED <<status, outLen, bluezVars>>

(* The next device, its name from "info" if it has none: all that follows  *)
(* Name:, as the copy does not stop at the end of the line.  The class and *)
(* the RSSI go into fields of their own and are left out.                  *)
Enrich ==
    /\ pc = "enrich" /\ Len(devices) < Len(table)
    /\ LET entry == table[Len(devices) + 1]
       IN  \E text \in InfoTexts \cup {NoName} :
             devices' = Append(devices,
                 IF entry.name = NoName THEN [entry EXCEPT !.name = text] ELSE entry)
    /\ UNCHANGED <<pc, status, outLen, heard, table>>

ScanReturns ==
    /\ pc = "enrich" /\ Len(devices) = Len(table)
    /\ pc' = "done" /\ status' = "success" /\ outLen' = Len(table)
    /\ UNCHANGED bluezVars

BluezNext ==
    \/ ScanFails \/ ScanAnswers \/ Scan \/ ScanParsed \/ AppendKnown \/ KnownParsed
    \/ Enrich \/ ScanReturns
-----------------------------------------------------------------------------
(* What the outputs say, without a table: the lines that name a device for *)
(* the first time, and the first name a line gives a device.               *)
FirstLines == {p \in DOMAIN heard :
                 heard[p].mac # NoMac /\ \A q \in 1 .. p - 1 : heard[q].mac # heard[p].mac}
NamesOf(m) == {p \in DOMAIN heard : heard[p].mac = m /\ heard[p].name # NoName}

(* This list holds the devices of the first lines, in their order: before  *)
(* each those, and only those, that were named before it; and all of them  *)
(* unless it is full.                                                      *)
InOrder(list) ==
    /\ \A k \in DOMAIN list : \E p \in FirstLines :
          /\ heard[p].mac = list[k].mac
          /\ \A q \in FirstLines : q < p <=> \E i \in 1 .. k - 1 : list[i].mac = heard[q].mac
    /\ Len(list) < MaxDevices =>
          \A q \in FirstLines : \E k \in DOMAIN list : list[k].mac = heard[q].mac

(* The name is the first that any line gave the device. *)
FirstName(d) ==
    \E k \in NamesOf(d.mac) : d.name = heard[k].name /\ \A j \in NamesOf(d.mac) : k <= j

(* The devices reported are the first MaxDevices that the scan or the list *)
(* of known devices names, once each and in that order, and each has the   *)
(* first name any of its lines gave, also a line read after the table was  *)
(* full; only without any is the name what "info" says.                    *)
Listed ==
    pc = "done" /\ status = "success" =>
        /\ outLen = Len(devices) /\ InOrder(devices)
        /\ \A k \in DOMAIN devices :
              IF NamesOf(devices[k].mac) = {} THEN devices[k].name \in InfoTexts \cup {NoName}
              ELSE FirstName(devices[k])
=============================================================================
