----------------------- MODULE InstrumentActionsProofs -----------------------
(***************************************************************************)
(* Proofs about InstrumentActions: what the scans and the GPS client       *)
(* answer, for outputs, dumps and streams of every length.  Each of the    *)
(* three has an invariant that relates what it has worked out so far to    *)
(* what it has read so far.                                                *)
(***************************************************************************)
EXTENDS InstrumentActions, Sequences, SequenceTheorems, FiniteSetTheorems,
        WellFoundedInduction, NaturalsInduction, TLAPS

(* A call is in one of its own places, and what the other calls keep on    *)
(* their stacks is not there; nothing is answered before the end.          *)
Stages ==
    /\ pc # "done" => status = "none" /\ outLen = 0
    /\ action = "bluetooth" => pc \in {"start", "scan", "known", "enrich", "done"}
    /\ action = "wifi" => pc \in {"start", "fetch", "done"}
    /\ action = "gps" => pc \in {"start", "recv", "done"}
    /\ action # "bluetooth" \/ pc = "start" => Bluez!BluezInit
    /\ action # "wifi" \/ pc = "start" => Wifi!WifiInit
    /\ action # "gps" \/ pc = "start" => Gps!GpsInit

(* A device heard of has a first line; the table has the devices of the    *)
(* first lines in order, with the names heard so far; and the devices      *)
(* reported are those of the table, with names from "info" at most where   *)
(* the table has none.                                                     *)
NameHeard(d) == IF Bluez!NamesOf(d.mac) = {} THEN d.name = NoName ELSE Bluez!FirstName(d)

TableInv ==
    /\ \A j \in DOMAIN heard : heard[j].mac # NoMac =>
          \E p \in Bluez!FirstLines : heard[p].mac = heard[j].mac
    /\ Bluez!InOrder(table)
    /\ \A k \in DOMAIN table : NameHeard(table[k])

Enriched(d, entry) ==
    /\ d.mac = entry.mac
    /\ d.name = entry.name \/ (entry.name = NoName /\ d.name \in InfoTexts \cup {NoName})

DevicesInv ==
    /\ action = "bluetooth" /\ pc \in {"scan", "known"} => devices = <<>>
    /\ \A k \in DOMAIN devices : Enriched(devices[k], table[k])
    /\ action = "bluetooth" /\ pc = "done" /\ status = "success" =>
          outLen = Len(table) /\ Len(devices) = Len(table)

(* A result with a BSSID has its network where its rank says. *)
NetworksInv ==
    /\ Len(networks) = Cardinality(Wifi!Kept)
    /\ \A p \in Wifi!Kept :
          /\ Wifi!Rank(p) \in 1 .. Len(networks)
          /\ networks[Wifi!Rank(p)] = Wifi!CString(Wifi!FindSsid(dump[p].ies))
    /\ action = "wifi" /\ pc = "done" =>
          \/ /\ status = "success" /\ networks # <<>>
             /\ outLen = Wifi!Min({Len(networks), MaxNetworks})
          \/ status \in {"error", "not_supported"} /\ outLen = 0

(* The buffer holds the bytes received after the newline that was received *)
(* last, and the position is from the reports received, none a TPV report. *)
Increasing == \A j, k \in DOMAIN stream : j < k => stream[j].end < stream[k].end

Unfinished ==
    \E c \in 0 .. Len(stream) :
        /\ Gps!EndOf(c) <= taken
        /\ \A k \in c + 1 .. Len(stream) : taken < stream[k].end
        /\ Len(buffer) = taken - Gps!EndOf(c)
        /\ \A i \in DOMAIN buffer : buffer[i] = Gps!EndOf(c) + i

Noted ==
    LET polls == Gps!Answers(Gps!PollKinds)
    IN  /\ Gps!Answers(Gps!TpvKinds) = {}
        /\ sawPoll <=> polls # {}
        /\ polls = {} => position = 0
        /\ polls # {} => position \in polls /\ \A k \in polls : k <= position

GpsInv ==
    /\ Increasing
    /\ action = "gps" /\ pc = "recv" => Unfinished /\ Noted
    /\ action = "gps" /\ pc = "done" /\ outLen = 1 =>
          \/ Noted /\ status = IF sawPoll THEN "success" ELSE "error"
          \/ /\ status = "success"
             /\ position \in Gps!Answers(Gps!TpvKinds)
             /\ \A k \in Gps!Answers(Gps!TpvKinds) : position <= k

IInv == TypeOK /\ Stages /\ TableInv /\ DevicesInv /\ NetworksInv /\ GpsInv
-----------------------------------------------------------------------------
(* One line of the two outputs. *)
LEMMA LineHeard ==
    ASSUME heard \in Seq(Bluez!Lines), NEW line \in Bluez!Lines, heard' = Append(heard, line)
    PROVE  /\ DOMAIN heard = 1 .. Len(heard) /\ DOMAIN heard' = 1 .. Len(heard) + 1
           /\ Len(heard) \in Nat
           /\ \A q \in DOMAIN heard : heard'[q] = heard[q]
           /\ heard'[Len(heard) + 1] = line
           /\ Bluez!FirstLines \subseteq DOMAIN heard
           /\ \A q \in DOMAIN heard' : q \in Bluez!FirstLines' <=>
                 \/ q \in Bluez!FirstLines
                 \/ /\ q = Len(heard) + 1 /\ line.mac # NoMac
                    /\ \A j \in DOMAIN heard : heard[j].mac # line.mac
           /\ \A m, q : q \in Bluez!NamesOf(m)' <=>
                 \/ q \in Bluez!NamesOf(m)
                 \/ q = Len(heard) + 1 /\ line.mac = m /\ line.name # NoName
<1>1. /\ DOMAIN heard = 1 .. Len(heard) /\ DOMAIN heard' = 1 .. Len(heard) + 1
      /\ \A q \in DOMAIN heard : heard'[q] = heard[q]
      /\ heard'[Len(heard) + 1] = line
      /\ Len(heard) \in Nat
  OBVIOUS
<1>2. Bluez!FirstLines \subseteq DOMAIN heard
  BY DEF Bluez!FirstLines
<1>3. ASSUME NEW q \in DOMAIN heard'
      PROVE  q \in Bluez!FirstLines' <=>
                 \/ q \in Bluez!FirstLines
                 \/ /\ q = Len(heard) + 1 /\ line.mac # NoMac
                    /\ \A j \in DOMAIN heard : heard[j].mac # line.mac
  <2>1. CASE q \in DOMAIN heard
    BY <1>1, <2>1 DEF Bluez!FirstLines
  <2>2. CASE q = Len(heard) + 1
    BY <1>1, <2>2 DEF Bluez!FirstLines
  <2>3. QED
    BY <1>1, <1>3, <2>1, <2>2
<1>4. ASSUME NEW m, NEW q
      PROVE  q \in Bluez!NamesOf(m)' <=>
                 \/ q \in Bluez!NamesOf(m)
                 \/ q = Len(heard) + 1 /\ line.mac = m /\ line.name # NoName
  BY <1>1 DEF Bluez!NamesOf
<1>5. QED
  BY <1>1, <1>2, <1>3, <1>4

Entries == [mac : Macs, name : Names \cup {NoName}]

(* What is read of lines and table in a step of parse_scan_output(). *)
LineRead(line) ==
    /\ heard \in Seq(Bluez!Lines) /\ line \in Bluez!Lines /\ heard' = Append(heard, line)
    /\ table \in Seq(Entries) /\ TableInv

LEMMA FirstHeard ==
    ASSUME NEW line, LineRead(line)
    PROVE  \A j \in DOMAIN heard' : heard'[j].mac # NoMac =>
              \E p \in Bluez!FirstLines' : heard'[p].mac = heard'[j].mac
<1> USE DEF LineRead
<1>1. SUFFICES ASSUME NEW j \in DOMAIN heard', heard'[j].mac # NoMac
               PROVE  \E p \in Bluez!FirstLines' : heard'[p].mac = heard'[j].mac
  OBVIOUS
<1>2. CASE j \in DOMAIN heard
  <2>1. PICK p \in Bluez!FirstLines : heard[p].mac = heard[j].mac
    BY <1>1, <1>2, LineHeard DEF TableInv
  <2>2. QED
    BY <1>2, <2>1, LineHeard
<1>3. CASE j = Len(heard) + 1
  <2>1. CASE \E q \in DOMAIN heard : heard[q].mac = line.mac
    <3>1. PICK q \in DOMAIN heard : heard[q].mac = line.mac
      BY <2>1
    <3>2. PICK p \in Bluez!FirstLines : heard[p].mac = heard[q].mac
      BY <1>1, <1>3, <3>1, LineHeard DEF TableInv
    <3>3. QED
      BY <1>3, <3>1, <3>2, LineHeard
  <2>2. CASE \A q \in DOMAIN heard : heard[q].mac # line.mac
    BY <1>1, <1>3, <2>2, LineHeard
  <2>3. QED
    BY <2>1, <2>2
<1>4. j \in DOMAIN heard \/ j = Len(heard) + 1
  BY <1>1, LineHeard
<1>5. QED
  BY <1>1, <1>2, <1>3, <1>4

(* The devices of the table were heard of. *)
LEMMA TableHeard ==
    ASSUME NEW line, LineRead(line), NEW k \in DOMAIN table
    PROVE  /\ table[k].mac \in Macs /\ table[k].mac # NoMac
           /\ \E j \in DOMAIN heard : heard[j].mac = table[k].mac
<1>1. table[k] \in Entries
  BY DEF LineRead
<1>2. PICK p \in Bluez!FirstLines : heard[p].mac = table[k].mac
  BY DEF LineRead, TableInv, Bluez!InOrder
<1>3. QED
  BY <1>1, <1>2, InstrumentAssumption DEF Bluez!FirstLines, Entries

(* A line that brings no new entry leaves the order of the table. *)
LEMMA OrderStays ==
    ASSUME NEW line, LineRead(line), DOMAIN table' = DOMAIN table, Len(table') = Len(table),
           \A k \in DOMAIN table : table'[k].mac = table[k].mac,
           \/ line.mac = NoMac
           \/ \E k \in DOMAIN table : table[k].mac = line.mac
           \/ Len(table) >= MaxDevices
    PROVE  Bluez!InOrder(table)'
<1> USE DEF LineRead
<1>1. ASSUME NEW k \in DOMAIN table
      PROVE  \E p \in Bluez!FirstLines' :
                /\ heard'[p].mac = table'[k].mac
                /\ \A q \in Bluez!FirstLines' :
                      q < p <=> \E i \in 1 .. k - 1 : table'[i].mac = heard'[q].mac
  <2>1. PICK p \in Bluez!FirstLines :
           /\ heard[p].mac = table[k].mac
           /\ \A q \in Bluez!FirstLines :
                 q < p <=> \E i \in 1 .. k - 1 : table[i].mac = heard[q].mac
    BY DEF TableInv, Bluez!InOrder
  <2>2. p \in Bluez!FirstLines' /\ p \in DOMAIN heard /\ heard'[p].mac = table'[k].mac
    BY <2>1, LineHeard
  <2>3. \A i \in 1 .. k - 1 : i \in DOMAIN table /\ table'[i].mac = table[i].mac
    OBVIOUS
  <2>4. ASSUME NEW q \in Bluez!FirstLines'
        PROVE  q < p <=> \E i \in 1 .. k - 1 : table'[i].mac = heard'[q].mac
    <3>1. CASE q \in Bluez!FirstLines
      BY <2>1, <2>3, <3>1, LineHeard
    <3>2. CASE q \notin Bluez!FirstLines
      <4>1. /\ q = Len(heard) + 1 /\ heard'[q] = line
            /\ \A j \in DOMAIN heard : heard[j].mac # line.mac
        <5>1. q \in DOMAIN heard'
          BY DEF Bluez!FirstLines
        <5>2. QED
          BY <3>2, <5>1, LineHeard
      <4>2. ~(q < p)
        BY <2>2, <4>1, LineHeard
      <4>3. \A i \in 1 .. k - 1 : table'[i].mac # line.mac
        BY <2>3, <4>1, TableHeard
      <4>4. QED
        BY <4>1, <4>2, <4>3
    <3>3. QED
      BY <3>1, <3>2
  <2>5. QED
    BY <2>2, <2>4
<1>2. ASSUME Len(table) < MaxDevices, NEW q \in Bluez!FirstLines'
      PROVE  \E k \in DOMAIN table : table'[k].mac = heard'[q].mac
  <2>1. q \in Bluez!FirstLines
    <3>1. q \in DOMAIN heard'
      BY DEF Bluez!FirstLines
    <3>2. line.mac = NoMac \/ \E j \in DOMAIN heard : heard[j].mac = line.mac
      <4>1. MaxDevices \in Nat /\ Len(table) \in Nat
        BY InstrumentAssumption
      <4>2. QED
        BY <1>2, <4>1, TableHeard
    <3>3. QED
      BY <3>1, <3>2, LineHeard
  <2>2. PICK k \in DOMAIN table : table[k].mac = heard[q].mac
    BY <1>2, <2>1 DEF TableInv, Bluez!InOrder
  <2>3. QED
    BY <2>1, <2>2, LineHeard
<1>3. QED
  BY <1>1, <1>2 DEF Bluez!InOrder

(* A line that brings a new entry continues the order. *)
LEMMA OrderGrows ==
    ASSUME NEW line, LineRead(line), table' = Append(table, line), line.mac # NoMac,
           \A k \in DOMAIN table : table[k].mac # line.mac,
           Len(table) < MaxDevices
    PROVE  /\ \A j \in DOMAIN heard : heard[j].mac # line.mac
           /\ Bluez!InOrder(table)'
<1> USE DEF LineRead
<1>1. /\ DOMAIN table' = 1 .. Len(table) + 1 /\ Len(table) \in Nat
      /\ DOMAIN table = 1 .. Len(table)
      /\ \A k \in DOMAIN table : table'[k] = table[k]
      /\ table'[Len(table) + 1] = line
  OBVIOUS
<1>2. ASSUME NEW j \in DOMAIN heard PROVE heard[j].mac # line.mac
  <2>1. SUFFICES ASSUME heard[j].mac = line.mac PROVE FALSE
    OBVIOUS
  <2>2. PICK p \in Bluez!FirstLines : heard[p].mac = line.mac
    BY <2>1 DEF TableInv
  <2>3. QED
    BY <2>2 DEF TableInv, Bluez!InOrder
<1>3. /\ Len(heard) + 1 \in Bluez!FirstLines' /\ heard'[Len(heard) + 1] = line
      /\ \A q \in Bluez!FirstLines' : q \in Bluez!FirstLines \/ q = Len(heard) + 1
      /\ \A q \in Bluez!FirstLines : q \in Bluez!FirstLines' /\ q <= Len(heard)
                                     /\ heard'[q] = heard[q]
      /\ Len(heard) \in Nat /\ Bluez!FirstLines \subseteq Nat
  <2>1. Bluez!FirstLines' \subseteq DOMAIN heard'
    BY DEF Bluez!FirstLines
  <2>2. QED
    BY <1>2, <2>1, LineHeard
<1>4. ASSUME NEW k \in DOMAIN table
      PROVE  \E p \in Bluez!FirstLines' :
                /\ heard'[p].mac = table'[k].mac
                /\ \A q \in Bluez!FirstLines' :
                      q < p <=> \E i \in 1 .. k - 1 : table'[i].mac = heard'[q].mac
  <2>1. PICK p \in Bluez!FirstLines :
           /\ heard[p].mac = table[k].mac
           /\ \A q \in Bluez!FirstLines :
                 q < p <=> \E i \in 1 .. k - 1 : table[i].mac = heard[q].mac
    BY DEF TableInv, Bluez!InOrder
  <2>2. p \in Bluez!FirstLines' /\ heard'[p].mac = table'[k].mac
    BY <1>1, <1>3, <2>1
  <2>3. \A i \in 1 .. k - 1 : i \in DOMAIN table /\ table'[i] = table[i]
    BY <1>1
  <2>4. ASSUME NEW q \in Bluez!FirstLines'
        PROVE  q < p <=> \E i \in 1 .. k - 1 : table'[i].mac = heard'[q].mac
    <3>1. CASE q \in Bluez!FirstLines
      BY <1>3, <2>1, <2>3, <3>1
    <3>2. CASE q = Len(heard) + 1
      BY <1>3, <2>1, <2>3, <3>2
    <3>3. QED
      BY <1>3, <3>1, <3>2
  <2>5. QED
    BY <2>2, <2>4
<1>5. \A q \in Bluez!FirstLines' :
         q < Len(heard) + 1 <=> \E i \in 1 .. Len(table) : table'[i].mac = heard'[q].mac
  <2>1. ASSUME NEW q \in Bluez!FirstLines
        PROVE  \E i \in 1 .. Len(table) : table'[i].mac = heard'[q].mac
    <3>1. PICK i \in DOMAIN table : table[i].mac = heard[q].mac
      BY DEF TableInv, Bluez!InOrder
    <3>2. QED
      BY <1>1, <1>3, <3>1
  <2>2. ASSUME NEW q \in Bluez!FirstLines'
        PROVE  q < Len(heard) + 1 <=> \E i \in 1 .. Len(table) : table'[i].mac = heard'[q].mac
    <3>1. CASE q \in Bluez!FirstLines
      <4>1. q < Len(heard) + 1
        BY <1>3, <3>1
      <4>2. QED
        BY <2>1, <3>1, <4>1
    <3>2. CASE q = Len(heard) + 1
      <4>1. \A i \in 1 .. Len(table) : table'[i].mac # heard'[q].mac
        BY <1>1, <1>3, <3>2
      <4>2. ~(q < Len(heard) + 1)
        BY <1>3, <3>2
      <4>3. QED
        BY <4>1, <4>2
    <3>3. QED
      BY <1>3, <3>1, <3>2
  <2>3. QED
    BY <2>2
<1> HIDE DEF LineRead
<1>6. \A k \in DOMAIN table' : \E p \in Bluez!FirstLines' :
         /\ heard'[p].mac = table'[k].mac
         /\ \A q \in Bluez!FirstLines' :
               q < p <=> \E i \in 1 .. k - 1 : table'[i].mac = heard'[q].mac
  <2> SUFFICES ASSUME NEW k \in DOMAIN table'
               PROVE  \E p \in Bluez!FirstLines' :
                         /\ heard'[p].mac = table'[k].mac
                         /\ \A q \in Bluez!FirstLines' :
                               q < p <=> \E i \in 1 .. k - 1 : table'[i].mac = heard'[q].mac
    OBVIOUS
  <2>1. CASE k \in DOMAIN table
    BY <1>4, <2>1
  <2>2. CASE k = Len(table) + 1
    <3>1. k - 1 = Len(table)
      BY <1>1, <2>2
    <3>2. heard'[Len(heard) + 1].mac = table'[k].mac
      BY <1>1, <1>3, <2>2
    <3>3. QED
      BY <1>3, <1>5, <3>1, <3>2
  <2>3. k \in DOMAIN table \/ k = Len(table) + 1
    BY <1>1
  <2>4. QED
    BY <2>1, <2>2, <2>3
<1>7. \A q \in Bluez!FirstLines' : \E k \in DOMAIN table' : table'[k].mac = heard'[q].mac
  <2>1. \A q \in Bluez!FirstLines : \E k \in DOMAIN table : table[k].mac = heard[q].mac
    BY DEF LineRead, TableInv, Bluez!InOrder
  <2>2. ASSUME NEW q \in Bluez!FirstLines'
        PROVE  \E k \in DOMAIN table' : table'[k].mac = heard'[q].mac
    <3>1. CASE q \in Bluez!FirstLines
      <4>1. PICK k \in DOMAIN table : table[k].mac = heard[q].mac
        BY <2>1, <3>1
      <4>2. k \in DOMAIN table' /\ table'[k].mac = heard'[q].mac
        BY <1>1, <1>3, <3>1, <4>1
      <4>3. QED
        BY <4>2
    <3>2. CASE q = Len(heard) + 1
      <4>1. Len(table) + 1 \in DOMAIN table'
        BY <1>1
      <4>2. QED
        BY <1>1, <1>3, <3>2, <4>1
    <3>3. QED
      BY <1>3, <3>1, <3>2
  <2>3. QED
    BY <2>2
<1>8. QED
  BY <1>2, <1>6, <1>7 DEF Bluez!InOrder

(* A line that names no device without a name leaves the names ... *)
LEMMA NameStays ==
    ASSUME NEW line, LineRead(line), NEW d, NameHeard(d),
           line.mac # d.mac \/ d.name # NoName \/ line.name = NoName
    PROVE  NameHeard(d)'
<1>1. /\ \A q : q \in Bluez!NamesOf(d.mac)' <=>
            \/ q \in Bluez!NamesOf(d.mac)
            \/ q = Len(heard) + 1 /\ line.mac = d.mac /\ line.name # NoName
      /\ \A q \in DOMAIN heard : heard'[q] = heard[q] /\ q < Len(heard) + 1
      /\ Bluez!NamesOf(d.mac) \subseteq DOMAIN heard
  BY LineHeard DEF LineRead, Bluez!NamesOf
<1>2. CASE Bluez!NamesOf(d.mac) = {}
  <2>1. d.name = NoName
    BY <1>2 DEF NameHeard
  <2>2. Bluez!NamesOf(d.mac)' = {}
    BY <1>1, <1>2, <2>1
  <2>3. QED
    BY <2>1, <2>2 DEF NameHeard
<1>3. CASE Bluez!NamesOf(d.mac) # {}
  <2>1. PICK k \in Bluez!NamesOf(d.mac) :
           d.name = heard[k].name /\ \A j \in Bluez!NamesOf(d.mac) : k <= j
    BY <1>3 DEF NameHeard, Bluez!FirstName
  <2>2. k \in Bluez!NamesOf(d.mac)' /\ d.name = heard'[k].name
    BY <1>1, <2>1
  <2>3. \A j \in Bluez!NamesOf(d.mac)' : k <= j
    <3>1. k \in Int /\ Len(heard) \in Int
      BY <2>1, LineHeard DEF LineRead, Bluez!NamesOf
    <3>2. QED
      BY <1>1, <2>1, <3>1
  <2>4. QED
    BY <2>2, <2>3 DEF NameHeard, Bluez!FirstName
<1>4. QED
  BY <1>2, <1>3

(* ... and one for a device without gives it the first. *)
LEMMA NameGiven ==
    ASSUME NEW line, LineRead(line), Bluez!NamesOf(line.mac) = {}
    PROVE  NameHeard(line)'
<1>1. /\ \A q : q \in Bluez!NamesOf(line.mac)' <=> q = Len(heard) + 1 /\ line.name # NoName
      /\ heard'[Len(heard) + 1] = line
      /\ Len(heard) \in Nat
  BY LineHeard DEF LineRead
<1>2. CASE line.name = NoName
  <2>1. Bluez!NamesOf(line.mac)' = {}
    BY <1>1, <1>2
  <2>2. QED
    BY <1>2, <2>1 DEF NameHeard
<1>3. CASE line.name # NoName
  <2> USE <1>1, <1>3
  <2>1. /\ Len(heard) + 1 \in Bluez!NamesOf(line.mac)'
        /\ \A j \in Bluez!NamesOf(line.mac)' : Len(heard) + 1 <= j
    BY <1>1, <1>3
  <2>2. QED
    BY <1>1, <2>1 DEF NameHeard, Bluez!FirstName
<1>4. QED
  BY <1>2, <1>3

(* NameHeard(d)' of an entry d that the table has afterwards. *)
LEMMA NamedEntry ==
    ASSUME NEW k, NEW d, d = table'[k], NameHeard(d)'
    PROVE  NameHeard(table[k])'
BY DEF NameHeard, Bluez!FirstName, Bluez!NamesOf

LEMMA LineParsed ==
    ASSUME NEW line, LineRead(line), Len(table) <= MaxDevices,
           table' = Bluez!AddLine(table, line)
    PROVE  TableInv' /\ table' \in Seq(Entries) /\ Len(table') <= MaxDevices
<1>1. /\ table \in Seq(Entries) /\ Len(table) \in Nat /\ MaxDevices \in Nat
      /\ \A k \in DOMAIN table : NameHeard(table[k])
      /\ \A k \in DOMAIN table : table[k] \in Entries
      /\ DOMAIN table = 1 .. Len(table)
  BY InstrumentAssumption DEF LineRead, TableInv
<1>2. line.mac # NoMac => line \in Entries
  BY DEF LineRead, Bluez!Lines, Entries
<1> DEFINE Kept == /\ Bluez!InOrder(table)' /\ \A k \in DOMAIN table' : NameHeard(table[k])'
                   /\ table' \in Seq(Entries) /\ Len(table') <= MaxDevices
<1>3. SUFFICES Kept
  BY FirstHeard DEF TableInv
<1>4. ASSUME NEW d \in Entries, NEW k \in DOMAIN table, d = table[k], table'[k] = d,
             line.mac # d.mac \/ d.name # NoName \/ line.name = NoName
      PROVE  NameHeard(table[k])'
  <2>1. NameHeard(d)
    BY <1>1, <1>4
  <2>2. NameHeard(d)'
    BY <1>4, <2>1, NameStays
  <2>3. QED
    BY <1>4, <2>2, NamedEntry
<1>5. CASE \/ line.mac = NoMac
           \/ Len(table) >= MaxDevices /\ \A k \in DOMAIN table : table[k].mac # line.mac
  <2>1. table' = table
    <3>1. CASE line.mac = NoMac
      BY <3>1 DEF Bluez!AddLine
    <3>2. CASE Len(table) >= MaxDevices /\ \A k \in DOMAIN table : table[k].mac # line.mac
      <4>1. ~(Len(table) < MaxDevices)
        BY <1>1, <3>2
      <4>2. Bluez!SlotOf(table, line) = {}
        BY <3>2 DEF Bluez!SlotOf
      <4>3. QED
        BY <4>1, <4>2 DEF Bluez!AddLine
    <3>3. QED
      BY <1>5, <3>1, <3>2
  <2>2. Bluez!InOrder(table)'
    BY <1>5, <2>1, OrderStays
  <2>3. \A k \in DOMAIN table : line.mac # table[k].mac
    BY <1>5, TableHeard
  <2>4. \A k \in DOMAIN table' : NameHeard(table[k])'
    BY <1>1, <1>4, <2>1, <2>3
  <2>5. QED
    BY <1>1, <2>1, <2>2, <2>4
<1>6. CASE line.mac # NoMac /\ \E k \in DOMAIN table : table[k].mac = line.mac
  <2>1. table' = Bluez!NameSlot(table, line)
    BY <1>6 DEF Bluez!AddLine, Bluez!SlotOf
  <2>2. /\ DOMAIN table' = DOMAIN table /\ table' \in Seq(Entries) /\ Len(table') = Len(table)
        /\ \A k \in DOMAIN table :
              table'[k] = IF table[k].mac = line.mac /\ table[k].name = NoName
                          THEN line ELSE table[k]
    <3>1. table' = [k \in 1 .. Len(table) |-> IF table[k].mac = line.mac /\ table[k].name = NoName
                          THEN line ELSE table[k]]
      BY <1>1, <2>1 DEF Bluez!NameSlot, Bluez!SlotOf
    <3>2. QED
      BY <1>1, <1>2, <1>6, <3>1
  <2>3. Bluez!InOrder(table)'
    BY <1>6, <2>2, OrderStays
  <2>4. ASSUME NEW k \in DOMAIN table PROVE NameHeard(table[k])'
    <3>1. PICK d \in Entries : d = table[k]
      BY <1>1
    <3>2. CASE d.mac = line.mac /\ d.name = NoName
      <4>1. Bluez!NamesOf(line.mac) = {}
        BY <1>1, <3>1, <3>2 DEF NameHeard, Bluez!FirstName, Bluez!NamesOf
      <4>2. NameHeard(line)'
        BY <4>1, NameGiven
      <4>3. QED
        BY <2>2, <3>1, <3>2, <4>2, NamedEntry
    <3>3. CASE ~(d.mac = line.mac /\ d.name = NoName)
      BY <1>4, <2>2, <3>1, <3>3
    <3>4. QED
      BY <3>2, <3>3
  <2>5. QED
    BY <1>1, <2>2, <2>3, <2>4
<1>7. CASE /\ line.mac # NoMac /\ \A k \in DOMAIN table : table[k].mac # line.mac
           /\ Len(table) < MaxDevices
  <2>1. table' = Append(table, line)
    BY <1>7 DEF Bluez!AddLine, Bluez!SlotOf
  <2>2. /\ DOMAIN table' = 1 .. Len(table) + 1 /\ table' \in Seq(Entries)
        /\ Len(table') = Len(table) + 1 /\ table'[Len(table) + 1] = line
        /\ \A k \in DOMAIN table : table'[k] = table[k]
    BY <1>1, <1>2, <1>7, <2>1
  <2>3. Bluez!InOrder(table)' /\ Bluez!NamesOf(line.mac) = {}
    BY <1>7, <2>1, OrderGrows DEF Bluez!NamesOf
  <2>4. ASSUME NEW k \in DOMAIN table' PROVE NameHeard(table[k])'
    <3>1. CASE k \in DOMAIN table
      BY <1>1, <1>4, <1>7, <2>2, <3>1
    <3>2. CASE k = Len(table) + 1
      <4>1. NameHeard(line)'
        BY <2>3, NameGiven
      <4>2. QED
        BY <2>2, <3>2, <4>1, NamedEntry
    <3>3. QED
      BY <1>1, <2>2, <3>1, <3>2
  <2>5. QED
    BY <1>1, <1>7, <2>2, <2>3, <2>4
<1>8. Len(table) >= MaxDevices \/ Len(table) < MaxDevices
  BY <1>1
<1> HIDE DEF Kept
<1>9. QED
  BY <1>5, <1>6, <1>7, <1>8

(* The lists of variables are always to be seen. *)
USE DEF vars, bluezVars, wifiVars, gpsVars, Bluez!bluezVars, Wifi!wifiVars, Gps!gpsVars

LEMMA SameWifi ==
    ASSUME UNCHANGED wifiVars
    PROVE  /\ Wifi!WifiTypeOK => Wifi!WifiTypeOK'
           /\ Wifi!WifiInit => Wifi!WifiInit'
BY DEF Wifi!WifiTypeOK, Wifi!WifiInit

LEMMA SameGps ==
    ASSUME UNCHANGED gpsVars
    PROVE  /\ Gps!GpsTypeOK => Gps!GpsTypeOK'
           /\ Gps!GpsInit => Gps!GpsInit'
BY DEF Gps!GpsTypeOK, Gps!GpsInit, Gps!EndOf, Gps!Sent

LEMMA SameBluez ==
    ASSUME UNCHANGED bluezVars
    PROVE  /\ Bluez!BluezTypeOK => Bluez!BluezTypeOK'
           /\ Bluez!BluezInit => Bluez!BluezInit'
           /\ TableInv => TableInv'
BY DEF Bluez!BluezTypeOK, Bluez!BluezInit, TableInv, Bluez!InOrder, NameHeard, Bluez!FirstName,
       Bluez!NamesOf, Bluez!FirstLines

(* A step of the Bluetooth scan. *)
LEMMA BluezStages ==
    ASSUME TypeOK, Stages, DiscoverBluetooth
    PROVE  /\ action' = "bluetooth" /\ pc' \in {"scan", "known", "enrich", "done"}
           /\ pc' # "done" => status' = "none" /\ outLen' = 0
           /\ status' \in {"none", "success", "error"}
           /\ pc' = "done" => status' # "none"
           /\ outLen' \in Nat
BY DEF TypeOK, Stages, DiscoverBluetooth, Bluez!BluezNext, Bluez!ScanFails, Bluez!ScanAnswers,
       Bluez!Scan, Bluez!ScanParsed, Bluez!AppendKnown, Bluez!KnownParsed, Bluez!Enrich,
       Bluez!ScanReturns, Bluez!ParseLine, Bluez!BluezTypeOK

LEMMA BluezStep ==
    ASSUME TypeOK, Stages, TableInv, DevicesInv, DiscoverBluetooth
    PROVE  Bluez!BluezTypeOK' /\ TableInv' /\ DevicesInv'
<1> USE DEF DiscoverBluetooth
<1>1. /\ heard \in Seq(Bluez!Lines) /\ Len(heard) <= MaxLines
      /\ table \in Seq(Entries) /\ Len(table) <= MaxDevices
      /\ devices \in Seq(Bluez!Devices) /\ Len(devices) <= Len(table)
      /\ action = "bluetooth"
  BY DEF TypeOK, Bluez!BluezTypeOK, Entries
<1>2. CASE Bluez!ParseLine /\ pc \in {"scan", "known"}
  <2>1. PICK line \in Bluez!Lines : heard' = Append(heard, line)
                                    /\ table' = Bluez!AddLine(table, line)
    BY <1>2 DEF Bluez!ParseLine
  <2>2. TableInv' /\ table' \in Seq(Entries) /\ Len(table') <= MaxDevices
    BY <1>1, <2>1, LineParsed DEF LineRead
  <2>3. heard' \in Seq(Bluez!Lines) /\ Len(heard') <= MaxLines
    BY <1>1, <1>2, <2>1, InstrumentAssumption DEF Bluez!ParseLine
  <2>4. devices = <<>> /\ devices' = devices /\ pc' = pc /\ Len(table') \in Nat
    BY <1>1, <1>2, <2>2 DEF Bluez!ParseLine, DevicesInv
  <2>5. QED
    BY <1>2, <2>2, <2>3, <2>4 DEF Bluez!BluezTypeOK, Entries, DevicesInv
<1>3. CASE Bluez!Enrich
  <2> DEFINE n == Len(devices) + 1
  <2>1. PICK text \in InfoTexts \cup {NoName} :
           devices' = Append(devices, IF table[n].name = NoName
                                      THEN [table[n] EXCEPT !.name = text] ELSE table[n])
    BY <1>3 DEF Bluez!Enrich
  <2>2. n \in DOMAIN table /\ table[n] \in Entries
    BY <1>1, <1>3 DEF Bluez!Enrich
  <2>3. PICK d \in Bluez!Devices : devices' = Append(devices, d) /\ Enriched(d, table[n])
    BY <2>1, <2>2 DEF Enriched, Entries, Bluez!Devices
  <2>4. /\ devices' \in Seq(Bluez!Devices) /\ Len(devices') = n /\ devices'[n] = d
        /\ \A k \in DOMAIN devices : devices'[k] = devices[k]
        /\ DOMAIN devices' = DOMAIN devices \cup {n}
    BY <1>1, <2>3
  <2>5. UNCHANGED <<pc, action, heard, table>> /\ pc = "enrich" /\ Len(devices') <= Len(table')
    BY <1>1, <1>3, <2>4 DEF Bluez!Enrich
  <2>6. \A k \in DOMAIN devices' : Enriched(devices'[k], table[k])
    BY <2>3, <2>4 DEF DevicesInv
  <2>7. TableInv'
    BY <2>5 DEF TableInv, Bluez!InOrder, NameHeard, Bluez!FirstName, Bluez!NamesOf,
                Bluez!FirstLines
  <2>8. Bluez!BluezTypeOK'
    BY <1>1, <2>4, <2>5 DEF Bluez!BluezTypeOK, Entries
  <2>9. \A k \in DOMAIN devices' : Enriched(devices'[k], table'[k])
    BY <2>5, <2>6
  <2>10. QED
    BY <2>5, <2>7, <2>8, <2>9 DEF DevicesInv, Enriched
<1>4. CASE \/ Bluez!ScanFails \/ Bluez!ScanAnswers \/ Bluez!ScanParsed \/ Bluez!KnownParsed
           \/ Bluez!ScanReturns
  <2>1. UNCHANGED bluezVars
    BY <1>4 DEF Bluez!ScanFails, Bluez!ScanAnswers, Bluez!ScanParsed, Bluez!KnownParsed,
                Bluez!ScanReturns
  <2>2. Bluez!BluezTypeOK' /\ TableInv'
    BY <2>1, SameBluez DEF TypeOK
  <2>3. DevicesInv'
    BY <1>4, <2>1
    DEF DevicesInv, Enriched, Stages, Bluez!BluezInit, Bluez!ScanFails, Bluez!ScanAnswers,
        Bluez!ScanParsed, Bluez!KnownParsed, Bluez!ScanReturns
  <2>4. QED
    BY <2>2, <2>3
<1>5. QED
  BY <1>2, <1>3, <1>4 DEF Bluez!BluezNext, Bluez!Scan, Bluez!AppendKnown

(* What the scan answers. *)
LEMMA BluezAnswers ==
    ASSUME TypeOK, TableInv, DevicesInv
    PROVE  BluetoothListed
<1> SUFFICES ASSUME action = "bluetooth", pc = "done", status = "success"
             PROVE  /\ outLen = Len(devices) /\ Bluez!InOrder(devices)
                    /\ \A k \in DOMAIN devices :
                          IF Bluez!NamesOf(devices[k].mac) = {}
                          THEN devices[k].name \in InfoTexts \cup {NoName}
                          ELSE Bluez!FirstName(devices[k])
  BY DEF BluetoothListed, Bluez!Listed
<1>1. /\ outLen = Len(devices) /\ Len(devices) = Len(table) /\ DOMAIN devices = DOMAIN table
      /\ \A k \in DOMAIN table : Enriched(devices[k], table[k])
      /\ DOMAIN table = 1 .. Len(table)
  BY DEF DevicesInv, TypeOK, Bluez!BluezTypeOK
<1>2. \A k \in DOMAIN table : devices[k].mac = table[k].mac
  BY <1>1 DEF Enriched
<1>3. Bluez!InOrder(devices)
  <2>1. Bluez!InOrder(table)
    BY DEF TableInv
  <2>2. ASSUME NEW k \in DOMAIN table
        PROVE  \E p \in Bluez!FirstLines :
                  /\ heard[p].mac = devices[k].mac
                  /\ \A q \in Bluez!FirstLines :
                        q < p <=> \E i \in 1 .. k - 1 : devices[i].mac = heard[q].mac
    <3>1. PICK p \in Bluez!FirstLines :
             /\ heard[p].mac = table[k].mac
             /\ \A q \in Bluez!FirstLines :
                   q < p <=> \E i \in 1 .. k - 1 : table[i].mac = heard[q].mac
      BY <2>1 DEF Bluez!InOrder
    <3>2. \A i \in 1 .. k - 1 : devices[i].mac = table[i].mac
      BY <1>1, <1>2
    <3>3. \A q \in Bluez!FirstLines :
             q < p <=> \E i \in 1 .. k - 1 : devices[i].mac = heard[q].mac
      BY <3>1, <3>2
    <3>4. QED
      BY <1>2, <3>1, <3>3
  <2>3. ASSUME Len(devices) < MaxDevices, NEW q \in Bluez!FirstLines
        PROVE  \E k \in DOMAIN devices : devices[k].mac = heard[q].mac
    BY <1>1, <1>2, <2>1, <2>3 DEF Bluez!InOrder
  <2>4. QED
    BY <1>1, <2>2, <2>3 DEF Bluez!InOrder
<1>4. ASSUME NEW k \in DOMAIN devices
      PROVE  IF Bluez!NamesOf(devices[k].mac) = {}
             THEN devices[k].name \in InfoTexts \cup {NoName}
             ELSE Bluez!FirstName(devices[k])
  <2>1. NameHeard(table[k]) /\ devices[k].mac = table[k].mac
    BY <1>1, <1>2 DEF TableInv
  <2>2. CASE Bluez!NamesOf(devices[k].mac) = {}
    BY <1>1, <2>1, <2>2 DEF NameHeard, Enriched
  <2>3. CASE Bluez!NamesOf(devices[k].mac) # {}
    <3>1. Bluez!FirstName(table[k]) /\ table[k].name # NoName
      BY <2>1, <2>3 DEF NameHeard, Bluez!FirstName, Bluez!NamesOf
    <3>2. devices[k].name = table[k].name
      BY <1>1, <3>1 DEF Enriched
    <3>3. QED
      BY <2>1, <2>3, <3>1, <3>2 DEF Bluez!FirstName
  <2>4. QED
    BY <2>2, <2>3
<1>5. QED
  BY <1>1, <1>3, <1>4
-----------------------------------------------------------------------------
(* A set of natural numbers has a least element. *)
LEMMA LeastIn ==
    ASSUME NEW S \in SUBSET Nat, S # {}
    PROVE  \E x \in S : \A y \in S : x <= y
<1>1. PICK R : IsWellFoundedOn(R, Nat) /\ \A x, y \in Nat : y < x => <<y, x>> \in R
  <2> DEFINE Q == OpToRel(<, Nat)
  <2>1. IsWellFoundedOn(Q, Nat)
    BY NatLessThanWellFounded
  <2>2. \A x, y \in Nat : y < x => <<y, x>> \in Q
    BY DEF OpToRel
  <2> HIDE DEF Q
  <2>3. QED
    BY <2>1, <2>2
<1>2. PICK x \in S : \A y \in S : ~ (<<y, x>> \in R)
  BY <1>1, WFMin
<1>3. ASSUME NEW y \in S
      PROVE  x <= y
  <2>1. x \in Nat /\ y \in Nat
    OBVIOUS
  <2>2. ~(y < x)
    <3>1. ~(<<y, x>> \in R)
      BY <1>2
    <3>2. y < x => <<y, x>> \in R
      BY <1>1, <2>1
    <3>3. QED
      BY <3>1, <3>2
  <2>3. QED
    BY <2>1, <2>2
<1>4. QED
  BY <1>3

LEMMA MinIs ==
    ASSUME NEW S \in SUBSET Int, NEW x \in S, \A y \in S : x <= y
    PROVE  Wifi!Min(S) = x
<1>1. \E m \in S : \A y \in S : m <= y
  OBVIOUS
<1>2. Wifi!Min(S) \in S /\ \A y \in S : Wifi!Min(S) <= y
  BY <1>1 DEF Wifi!Min
<1>3. Wifi!Min(S) <= x /\ x <= Wifi!Min(S)
  BY <1>2
<1>4. Wifi!Min(S) \in Int /\ x \in Int
  BY <1>2
<1>5. QED
  BY <1>3, <1>4

LEMMA MinIn ==
    ASSUME NEW S \in SUBSET Nat, S # {}
    PROVE  Wifi!Min(S) \in S /\ \A y \in S : Wifi!Min(S) <= y
BY LeastIn DEF Wifi!Min

(* The element after a whole one begins further on, and not past the end. *)
LEMMA AfterWhole ==
    ASSUME NEW ies \in Seq(Nat), NEW p \in 0 .. Len(ies), Wifi!Whole(ies, p)
    PROVE  Wifi!After(ies, p) \in p + 2 .. Len(ies)
<1>1. ies[p + 2] \in Nat
  BY DEF Wifi!Whole
<1>2. QED
  BY <1>1 DEF Wifi!Whole, Wifi!After

Closed(ies, S) == \A q \in S : Wifi!Whole(ies, q) => Wifi!After(ies, q) \in S

LEMMA BeginsLeast ==
    ASSUME NEW ies, NEW first, NEW S \in SUBSET (0 .. Len(ies)), first \in S, Closed(ies, S)
    PROVE  Wifi!Begins(ies, first) \subseteq S
BY DEF Wifi!Begins, Closed

LEMMA BeginsClosed ==
    ASSUME NEW ies \in Seq(Nat), NEW first \in 0 .. Len(ies)
    PROVE  /\ Wifi!Begins(ies, first) \in SUBSET (0 .. Len(ies))
           /\ first \in Wifi!Begins(ies, first)
           /\ Closed(ies, Wifi!Begins(ies, first))
<1>1. Wifi!Begins(ies, first) \in SUBSET (0 .. Len(ies)) /\ first \in Wifi!Begins(ies, first)
  BY DEF Wifi!Begins
<1>2. ASSUME NEW q \in Wifi!Begins(ies, first), Wifi!Whole(ies, q)
      PROVE  Wifi!After(ies, q) \in Wifi!Begins(ies, first)
  <2>1. Wifi!After(ies, q) \in 0 .. Len(ies)
    <3>1. q \in 0 .. Len(ies)
      BY <1>1
    <3>2. Wifi!After(ies, q) \in q + 2 .. Len(ies)
      BY <1>2, <3>1, AfterWhole
    <3>3. QED
      BY <3>1, <3>2
  <2>2. QED
    BY <1>2, <2>1 DEF Wifi!Begins
<1>3. QED
  BY <1>1, <1>2 DEF Closed

(* Elements begin at the first place and where they begin after it. *)
LEMMA BeginsUnfold ==
    ASSUME NEW ies \in Seq(Nat), NEW p \in 0 .. Len(ies)
    PROVE  /\ Wifi!Whole(ies, p) => Wifi!Begins(ies, p)
                                      = {p} \cup Wifi!Begins(ies, Wifi!After(ies, p))
           /\ ~Wifi!Whole(ies, p) => Wifi!Begins(ies, p) = {p}
           /\ \A q \in Wifi!Begins(ies, p) : p <= q
<1>1. ASSUME Wifi!Whole(ies, p)
      PROVE  Wifi!Begins(ies, p) = {p} \cup Wifi!Begins(ies, Wifi!After(ies, p))
  <2> DEFINE a == Wifi!After(ies, p)
             S == {p} \cup Wifi!Begins(ies, a)
  <2>1. a \in 0 .. Len(ies)
    BY <1>1, AfterWhole
  <2>2. S \in SUBSET (0 .. Len(ies)) /\ Closed(ies, S)
    BY <2>1, BeginsClosed DEF Closed
  <2>3. Wifi!Begins(ies, p) \subseteq S
    BY <2>2, BeginsLeast
  <2>4. a \in Wifi!Begins(ies, p)
    BY <1>1, BeginsClosed DEF Closed
  <2>5. Wifi!Begins(ies, a) \subseteq Wifi!Begins(ies, p)
    BY <2>4, BeginsClosed, BeginsLeast
  <2>6. p \in Wifi!Begins(ies, p)
    BY BeginsClosed
  <2>7. QED
    BY <2>3, <2>5, <2>6
<1>2. ASSUME ~Wifi!Whole(ies, p) PROVE Wifi!Begins(ies, p) = {p}
  <2>1. Wifi!Begins(ies, p) \subseteq {p}
    <3>1. Closed(ies, {p})
      BY <1>2 DEF Closed
    <3>2. QED
      BY <3>1, BeginsLeast
  <2>2. QED
    BY <1>2, <2>1, BeginsClosed
<1>3. \A q \in Wifi!Begins(ies, p) : p <= q
  <2> DEFINE S == p .. Len(ies)
  <2>1. ASSUME NEW q \in S, Wifi!Whole(ies, q) PROVE Wifi!After(ies, q) \in S
    <3>1. q \in 0 .. Len(ies)
      OBVIOUS
    <3>2. Wifi!After(ies, q) \in q + 2 .. Len(ies)
      BY <2>1, <3>1, AfterWhole
    <3>3. QED
      BY <3>1, <3>2
  <2>2. Wifi!Begins(ies, p) \subseteq S
    <3>1. S \in SUBSET (0 .. Len(ies)) /\ p \in S
      OBVIOUS
    <3>2. Closed(ies, S)
      BY <2>1 DEF Closed
    <3> HIDE DEF S
    <3>3. QED
      BY <3>1, <3>2, BeginsLeast
  <2>3. QED
    BY <2>2
<1>4. QED
  BY <1>1, <1>2, <1>3

(* What the recursive function find of find_ssid_ie() has to be: one turn  *)
(* of the loop.                                                            *)
Walk(ies, f) ==
    [pos \in 0 .. Len(ies) |->
        IF pos + 2 > Len(ies) THEN <<>>
          ELSE LET end == pos + 2 + ies[pos + 2]
               IN  IF end > Len(ies) THEN <<>>
                   ELSE IF ies[pos + 1] = 0 THEN SubSeq(ies, pos + 3, end) ELSE f[end]]

(* The data of the first SSID element at or after a place. *)
SsidAt(ies, first) ==
    LET ssids == Wifi!SsidPlaces(ies, first)
    IN  IF ssids = {} THEN <<>>
        ELSE SubSeq(ies, Wifi!Min(ssids) + 3, Wifi!After(ies, Wifi!Min(ssids)))

LEMMA SsidAtUnfold ==
    ASSUME NEW ies \in Seq(Nat), NEW p \in 0 .. Len(ies)
    PROVE  SsidAt(ies, p) =
              IF ~Wifi!Whole(ies, p) THEN <<>>
              ELSE IF ies[p + 1] = 0 THEN SubSeq(ies, p + 3, Wifi!After(ies, p))
              ELSE SsidAt(ies, Wifi!After(ies, p))
<1>1. CASE ~Wifi!Whole(ies, p)
  <2>1. Wifi!SsidPlaces(ies, p) = {}
    BY <1>1, BeginsUnfold DEF Wifi!SsidPlaces
  <2>2. QED
    BY <1>1, <2>1 DEF SsidAt
<1>2. CASE Wifi!Whole(ies, p) /\ ies[p + 1] = 0
  <2>1. p \in Wifi!SsidPlaces(ies, p)
    BY <1>2, BeginsClosed DEF Wifi!SsidPlaces
  <2>2. Wifi!SsidPlaces(ies, p) \in SUBSET Int
    BY BeginsClosed DEF Wifi!SsidPlaces
  <2>3. \A q \in Wifi!SsidPlaces(ies, p) : p <= q
    BY BeginsUnfold DEF Wifi!SsidPlaces
  <2>4. Wifi!Min(Wifi!SsidPlaces(ies, p)) = p
    BY <2>1, <2>2, <2>3, MinIs
  <2>5. QED
    BY <1>2, <2>1, <2>4 DEF SsidAt
<1>3. CASE Wifi!Whole(ies, p) /\ ies[p + 1] # 0
  <2>1. Wifi!SsidPlaces(ies, p) = Wifi!SsidPlaces(ies, Wifi!After(ies, p))
    BY <1>3, BeginsUnfold DEF Wifi!SsidPlaces
  <2>2. QED
    BY <1>3, <2>1 DEF SsidAt
<1>4. QED
  BY <1>1, <1>2, <1>3

(* The loop has this value: it goes up, so that two functions that satisfy *)
(* its equation cannot differ at a last place.                             *)
LEMMA WalkUnique ==
    ASSUME NEW ies \in Seq(Nat), NEW f, f = Walk(ies, f), NEW g, g = Walk(ies, g)
    PROVE  f = g
<1> DEFINE L == Len(ies)
           Apart == {d \in 0 .. L : f[L - d] # g[L - d]}
<1>1. L \in Nat
  OBVIOUS
<1>2. Apart = {}
  <2>1. SUFFICES ASSUME Apart # {} PROVE FALSE
    OBVIOUS
  <2>2. PICK d \in Apart : \A e \in Apart : d <= e
    <3>1. Apart \in SUBSET Nat
      BY <1>1
    <3> HIDE DEF Apart
    <3>2. QED
      BY <2>1, <3>1, LeastIn
  <2>3. PICK p \in 0 .. L : p = L - d /\ f[p] # g[p]
    BY <1>1, <2>2
  <2>4. Wifi!Whole(ies, p) /\ f[Wifi!After(ies, p)] # g[Wifi!After(ies, p)]
    <3>1. ASSUME NEW h, h = Walk(ies, h)
          PROVE  h[p] = IF ~Wifi!Whole(ies, p) THEN <<>>
                        ELSE IF ies[p + 1] = 0 THEN SubSeq(ies, p + 3, Wifi!After(ies, p))
                        ELSE h[Wifi!After(ies, p)]
      <4>1. h[p] = Walk(ies, h)[p]
        BY <3>1
      <4> DEFINE v == h[p]
      <4>2. v = Walk(ies, h)[p]
        BY <4>1
      <4> HIDE DEF v
      <4>3. v = IF ~Wifi!Whole(ies, p) THEN <<>>
                ELSE IF ies[p + 1] = 0 THEN SubSeq(ies, p + 3, Wifi!After(ies, p))
                ELSE h[Wifi!After(ies, p)]
        <5>1. CASE p + 2 > Len(ies)
          BY <1>1, <2>3, <4>2, <5>1 DEF Walk, Wifi!Whole
        <5>2. CASE p + 2 <= Len(ies)
          <6>1. ies[p + 2] \in Nat
            BY <1>1, <2>3, <5>2
          <6>2. CASE p + 2 + ies[p + 2] > Len(ies)
            BY <1>1, <2>3, <4>2, <5>2, <6>1, <6>2 DEF Walk, Wifi!Whole
          <6>3. CASE p + 2 + ies[p + 2] <= Len(ies)
            BY <1>1, <2>3, <4>2, <5>2, <6>1, <6>3 DEF Walk, Wifi!Whole, Wifi!After
          <6>4. QED
            BY <1>1, <2>3, <6>1, <6>2, <6>3
        <5>3. QED
          BY <1>1, <2>3, <5>1, <5>2
      <4>4. QED
        BY <4>3 DEF v
    <3>2. QED
      BY <2>3, <3>1
  <2>5. Wifi!After(ies, p) \in p + 2 .. L
    BY <2>4, AfterWhole
  <2>6. L - Wifi!After(ies, p) \in Apart
    BY <1>1, <2>4, <2>5
  <2>7. d \in Nat /\ d <= L - Wifi!After(ies, p)
    BY <2>2, <2>6
  <2>8. QED
    BY <1>1, <2>3, <2>5, <2>7
<1>3. \A p \in 0 .. L : f[p] = g[p]
  <2> SUFFICES ASSUME NEW p \in 0 .. L PROVE f[p] = g[p]
    OBVIOUS
  <2>1. L - p \in 0 .. L /\ L - (L - p) = p
    BY <1>1
  <2>2. QED
    BY <1>2, <2>1
<1>4. f = [p \in 0 .. L |-> f[p]] /\ g = [p \in 0 .. L |-> g[p]]
  BY DEF Walk
<1>5. QED
  BY <1>3, <1>4

LEMMA SsidFound ==
    ASSUME NEW ies \in Seq(Nat)
    PROVE  Wifi!FindSsid(ies) = SsidAt(ies, 0)
<1> DEFINE F == [p \in 0 .. Len(ies) |-> SsidAt(ies, p)]
<1>1. F = Walk(ies, F)
  <2>1. ASSUME NEW p \in 0 .. Len(ies)
        PROVE  SsidAt(ies, p) = Walk(ies, F)[p]
    <3>1. CASE ~Wifi!Whole(ies, p)
      BY <3>1, SsidAtUnfold DEF Walk, Wifi!Whole, Wifi!After
    <3>2. CASE Wifi!Whole(ies, p)
      <4>1. Wifi!After(ies, p) \in 0 .. Len(ies)
        BY <3>2, AfterWhole
      <4>2. QED
        BY <3>2, <4>1, SsidAtUnfold DEF Walk, Wifi!Whole, Wifi!After
    <3>3. QED
      BY <3>1, <3>2
  <2>2. QED
    BY <2>1 DEF Walk
<1> HIDE DEF F
<1>2. (CHOOSE f : f = Walk(ies, f)) = F
  <2>1. \E f : f = Walk(ies, f)
    BY <1>1
  <2> DEFINE G == CHOOSE f : f = Walk(ies, f)
  <2>2. G = Walk(ies, G)
    BY <2>1
  <2> HIDE DEF G
  <2>3. G = F
    BY <1>1, <2>2, WalkUnique
  <2>4. QED
    BY <2>3 DEF G
<1>3. Wifi!FindSsid(ies) = (CHOOSE f : f = Walk(ies, f))[0]
  BY DEF Wifi!FindSsid, Walk
<1>4. F[0] = SsidAt(ies, 0)
  <2>1. 0 \in 0 .. Len(ies)
    OBVIOUS
  <2>2. QED
    BY <2>1 DEF F
<1>5. QED
  BY <1>2, <1>3, <1>4

(* Strings of a bounded length. *)
LEMMA Bounded ==
    ASSUME NEW S, NEW n \in Nat, NEW s
    PROVE  s \in Wifi!BoundedSeq(S, n) <=> s \in Seq(S) /\ Len(s) <= n
<1>1. ASSUME s \in Seq(S), Len(s) <= n PROVE s \in Wifi!BoundedSeq(S, n)
  <2>1. s \in [1 .. Len(s) -> S] /\ Len(s) \in 0 .. n
    BY <1>1
  <2>2. QED
    BY <2>1 DEF Wifi!BoundedSeq, Wifi!SeqOf
<1>2. ASSUME s \in Wifi!BoundedSeq(S, n) PROVE s \in Seq(S) /\ Len(s) <= n
  <2>1. PICK m \in 0 .. n : s \in [1 .. m -> S]
    BY <1>2 DEF Wifi!BoundedSeq, Wifi!SeqOf
  <2>2. QED
    BY <2>1
<1>3. QED
  BY <1>1, <1>2

LEMMA CStringType ==
    ASSUME NEW bytes \in Seq(IeBytes)
    PROVE  Wifi!CString(bytes) \in Seq(IeBytes \ {0}) /\ Len(Wifi!CString(bytes)) <= Len(bytes)
<1> DEFINE Z == {i \in DOMAIN bytes : bytes[i] = 0} \cup {Len(bytes) + 1}
           m == Wifi!Min(Z)
<1>1. Z \in SUBSET Nat /\ Z # {} /\ Len(bytes) \in Nat /\ Z \subseteq 1 .. Len(bytes) + 1
  OBVIOUS
<1>2. m \in Z /\ \A y \in Z : m <= y
  <2> HIDE DEF Z
  <2>1. QED
    BY <1>1, MinIn
<1>3. m \in 1 .. Len(bytes) + 1
  BY <1>1, <1>2
<1>4. \A i \in 1 .. m - 1 : bytes[i] \in IeBytes \ {0}
  <2> SUFFICES ASSUME NEW i \in 1 .. m - 1 PROVE bytes[i] \in IeBytes \ {0}
    OBVIOUS
  <2> HIDE DEF m
  <2>1. i \in 1 .. Len(bytes) /\ ~(m <= i)
    BY <1>1, <1>3
  <2>2. QED
    BY <1>2, <2>1
<1>5. Wifi!CString(bytes) = SubSeq(bytes, 1, m - 1)
  BY DEF Wifi!CString
<1> HIDE DEF m, Z
<1>6. SubSeq(bytes, 1, m - 1) = [i \in 1 .. m - 1 |-> bytes[i]]
  BY <1>1, <1>3
<1>7. QED
  BY <1>1, <1>3, <1>4, <1>5, <1>6

LEMMA SsidType ==
    ASSUME NEW ies \in Wifi!BoundedSeq(IeBytes, MaxIeBytes)
    PROVE  /\ ies \in Seq(Nat)
           /\ Wifi!CString(Wifi!FindSsid(ies)) \in Wifi!BoundedSeq(IeBytes \ {0}, MaxIeBytes)
           /\ Wifi!CString(Wifi!FindSsid(ies)) = Wifi!SsidOf(ies)
<1>1. MaxIeBytes \in Nat /\ IeBytes \subseteq Nat
  BY InstrumentAssumption
<1>2. ies \in Seq(IeBytes) /\ Len(ies) <= MaxIeBytes /\ ies \in Seq(Nat) /\ Len(ies) \in Nat
  <2>1. ies \in Seq(IeBytes) /\ Len(ies) <= MaxIeBytes
    BY <1>1, Bounded
  <2>2. Len(ies) \in Nat /\ ies \in [1 .. Len(ies) -> IeBytes]
    BY <2>1
  <2>3. ies \in [1 .. Len(ies) -> Nat]
    BY <1>1, <2>2
  <2>4. QED
    BY <2>1, <2>2, <2>3
<1> DEFINE ssids == Wifi!SsidPlaces(ies, 0)
           p == Wifi!Min(ssids)
<1>3. Wifi!FindSsid(ies) = IF ssids = {} THEN <<>> ELSE SubSeq(ies, p + 3, Wifi!After(ies, p))
  BY <1>2, SsidFound DEF SsidAt
<1>4. CASE ssids = {}
  <2>1. Wifi!FindSsid(ies) = <<>> /\ <<>> \in Seq(IeBytes) /\ Len(<<>>) = 0
    BY <1>3, <1>4
  <2>2. Wifi!CString(<<>>) \in Seq(IeBytes \ {0}) /\ Len(Wifi!CString(<<>>)) <= 0
    BY <2>1, CStringType
  <2>3. Wifi!CString(<<>>) = <<>>
    BY <2>2
  <2>4. Wifi!SsidOf(ies) = <<>>
    BY <1>4 DEF Wifi!SsidOf
  <2>5. <<>> \in Wifi!BoundedSeq(IeBytes \ {0}, MaxIeBytes)
    <3>1. <<>> \in Seq(IeBytes \ {0}) /\ Len(<<>>) <= MaxIeBytes
      BY <1>1
    <3>2. QED
      BY <1>1, <3>1, Bounded
  <2>6. QED
    BY <1>2, <2>1, <2>3, <2>4, <2>5
<1>5. CASE ssids # {}
  <2>1. ssids \in SUBSET (0 .. Len(ies)) /\ \A q \in ssids : Wifi!Whole(ies, q)
    BY <1>2, BeginsClosed DEF Wifi!SsidPlaces
  <2>2. p \in 0 .. Len(ies) /\ Wifi!Whole(ies, p)
    <3> HIDE DEF ssids
    <3>1. p \in ssids
      BY <1>2, <1>5, <2>1, MinIn
    <3>2. QED
      BY <2>1, <3>1
  <2> HIDE DEF p, ssids
  <2>3. Wifi!After(ies, p) \in p + 2 .. Len(ies)
    BY <1>2, <2>2, AfterWhole
  <2> DEFINE data == SubSeq(ies, p + 3, Wifi!After(ies, p))
  <2>4. data \in Seq(IeBytes) /\ Len(data) <= Len(ies)
    BY <1>2, <2>2, <2>3
  <2>5. Wifi!FindSsid(ies) = data
    BY <1>3, <1>5
  <2>6. Wifi!SsidOf(ies) = Wifi!CString(data)
    BY <1>5 DEF Wifi!SsidOf, ssids, p
  <2> HIDE DEF data
  <2>7. Wifi!CString(data) \in Seq(IeBytes \ {0}) /\ Len(Wifi!CString(data)) <= Len(data)
    BY <2>4, CStringType
  <2>8. Len(Wifi!CString(data)) <= MaxIeBytes
    BY <1>1, <1>2, <2>4, <2>7
  <2>9. QED
    BY <1>1, <1>2, <2>5, <2>6, <2>7, <2>8, Bounded
<1>6. QED
  BY <1>4, <1>5

(* Wifi!Cardinality is FiniteSets' operator, as WifiScan sees it. *)
LEMMA SameCardinality == \A S : Wifi!Cardinality(S) = Cardinality(S)
BY DEF Wifi!Cardinality, Cardinality

(* One result of the dump. *)
LEMMA ResultKept ==
    ASSUME dump \in Seq(Wifi!Results), NEW r \in Wifi!Results, dump' = Append(dump, r),
           NEW n, n = Len(dump) + 1,
           Len(networks) = Cardinality(Wifi!Kept)
    PROVE  /\ DOMAIN dump' = 1 .. n /\ n \in Nat /\ dump'[n] = r /\ n \notin Wifi!Kept
           /\ Wifi!Kept \subseteq 1 .. Len(dump)
           /\ \A p \in Wifi!Kept : dump'[p] = dump[p] /\ Wifi!Rank(p)' = Wifi!Rank(p)
           /\ Wifi!Kept' = IF r.bssid THEN Wifi!Kept \cup {n} ELSE Wifi!Kept
           /\ Wifi!Rank(n)' = Cardinality(Wifi!Kept')
           /\ Cardinality(Wifi!Kept') = Cardinality(Wifi!Kept) + IF r.bssid THEN 1 ELSE 0
           /\ Cardinality(Wifi!Kept) \in Nat
<1>1. /\ DOMAIN dump = 1 .. Len(dump) /\ DOMAIN dump' = 1 .. n
      /\ Len(dump) \in Nat /\ dump'[n] = r
      /\ \A p \in DOMAIN dump : dump'[p] = dump[p]
  OBVIOUS
<1>2. Wifi!Kept \subseteq 1 .. Len(dump)
  BY <1>1 DEF Wifi!Kept
<1>3. r.bssid \in BOOLEAN
  <2>1. CASE r \in [bssid : {TRUE}, ies : Wifi!BoundedSeq(IeBytes, MaxIeBytes)]
    BY <2>1
  <2>2. CASE r = [bssid |-> FALSE, ies |-> <<>>]
    BY <2>2
  <2>3. QED
    BY <2>1, <2>2 DEF Wifi!Results
<1>4. IsFiniteSet(Wifi!Kept) /\ Cardinality(Wifi!Kept) \in Nat
  <2>1. IsFiniteSet(1 .. Len(dump))
    BY <1>1, FS_Interval
  <2>2. QED
    BY <1>2, <2>1, FS_Subset, FS_CardinalityType
<1>5. Wifi!Kept' = IF r.bssid THEN Wifi!Kept \cup {n} ELSE Wifi!Kept
  <2>1. \A p : p \in Wifi!Kept' <=> p \in Wifi!Kept \/ (p = n /\ r.bssid)
    BY <1>1 DEF Wifi!Kept
  <2>2. QED
    BY <1>2, <2>1
<1>6. n \notin Wifi!Kept /\ \A p \in Wifi!Kept : p < n
  BY <1>1, <1>2
<1>7. Cardinality(Wifi!Kept') = Cardinality(Wifi!Kept) + IF r.bssid THEN 1 ELSE 0
  <2>1. CASE r.bssid
    BY <1>4, <1>5, <1>6, <2>1, FS_AddElement
  <2>2. CASE ~r.bssid
    BY <1>4, <1>5, <2>2
  <2>3. QED
    BY <2>1, <2>2
<1>8. ASSUME NEW p \in Wifi!Kept PROVE Wifi!Rank(p)' = Wifi!Rank(p)
  <2>1. \A q : q \in Wifi!Kept' /\ q <= p <=> q \in Wifi!Kept /\ q <= p
    BY <1>1, <1>2, <1>5, <1>6
  <2>2. {q \in Wifi!Kept' : q <= p} = {q \in Wifi!Kept : q <= p}
    BY <2>1
  <2>3. QED
    BY <2>2 DEF Wifi!Rank
<1>9. Wifi!Rank(n)' = Cardinality(Wifi!Kept')
  <2>1. \A q \in Wifi!Kept' : q <= n
    BY <1>1, <1>2, <1>5, <1>6
  <2> DEFINE Before == {q \in Wifi!Kept' : q <= n}
  <2>2. Before = Wifi!Kept'
    BY <2>1
  <2>3. Wifi!Rank(n)' = Cardinality(Before)
    BY SameCardinality DEF Wifi!Rank
  <2> HIDE DEF Before
  <2>4. QED
    BY <2>2, <2>3
<1>10. QED
  BY <1>1, <1>2, <1>4, <1>5, <1>7, <1>8, <1>9

(* A step of the Wi-Fi scan. *)
LEMMA WifiStages ==
    ASSUME TypeOK, Stages, DiscoverWifi
    PROVE  /\ action' = "wifi" /\ pc' \in {"fetch", "done"}
           /\ pc' # "done" => status' = "none" /\ outLen' = 0
           /\ status' \in {"none", "success", "error", "not_supported"}
           /\ outLen' \in Nat
<1>1. CASE Wifi!FetchEnds
  <2>1. {Len(networks), MaxNetworks} \in SUBSET Nat
    BY InstrumentAssumption DEF TypeOK, Wifi!WifiTypeOK
  <2>2. Wifi!Min({Len(networks), MaxNetworks}) \in Nat
    BY <2>1, MinIn
  <2>3. QED
    BY <1>1, <2>2 DEF TypeOK, DiscoverWifi, Wifi!FetchEnds
<1>2. CASE Wifi!TriggerFails \/ Wifi!TriggerScan \/ Wifi!ScanResult \/ Wifi!FetchFails
  BY <1>2 DEF TypeOK, Stages, DiscoverWifi, Wifi!TriggerFails, Wifi!TriggerScan,
              Wifi!ScanResult, Wifi!FetchFails
<1>3. QED
  BY <1>1, <1>2 DEF DiscoverWifi, Wifi!WifiNext

LEMMA WifiStep ==
    ASSUME TypeOK, Stages, NetworksInv, DiscoverWifi
    PROVE  Wifi!WifiTypeOK' /\ NetworksInv'
<1> USE DEF DiscoverWifi
<1> DEFINE Ssids == Wifi!BoundedSeq(IeBytes \ {0}, MaxIeBytes)
<1>1. /\ dump \in Seq(Wifi!Results) /\ Len(dump) <= MaxResults
      /\ networks \in Seq(Ssids) /\ Len(networks) <= Len(dump)
      /\ action = "wifi"
  BY DEF TypeOK, Wifi!WifiTypeOK
<1>2. /\ Len(networks) = Cardinality(Wifi!Kept)
      /\ \A p \in Wifi!Kept :
            /\ Wifi!Rank(p) \in 1 .. Len(networks)
            /\ networks[Wifi!Rank(p)] = Wifi!CString(Wifi!FindSsid(dump[p].ies))
  BY DEF NetworksInv
<1>3. CASE Wifi!ScanResult
  <2>1. PICK r \in Wifi!Results :
           /\ dump' = Append(dump, r)
           /\ networks' = IF r.bssid THEN Append(networks, Wifi!CString(Wifi!FindSsid(r.ies)))
                          ELSE networks
    BY <1>3 DEF Wifi!ScanResult
  <2>2. PICK n : n = Len(dump) + 1
    OBVIOUS
  <2>3. /\ DOMAIN dump' = 1 .. n /\ n \in Nat /\ dump'[n] = r /\ n \notin Wifi!Kept
        /\ \A p \in Wifi!Kept : dump'[p] = dump[p] /\ Wifi!Rank(p)' = Wifi!Rank(p)
        /\ Wifi!Kept' = IF r.bssid THEN Wifi!Kept \cup {n} ELSE Wifi!Kept
        /\ Wifi!Rank(n)' = Cardinality(Wifi!Kept')
        /\ Cardinality(Wifi!Kept') = Cardinality(Wifi!Kept) + IF r.bssid THEN 1 ELSE 0
        /\ Cardinality(Wifi!Kept) \in Nat
    BY <1>1, <1>2, <2>1, <2>2, ResultKept
  <2>4. dump' \in Seq(Wifi!Results) /\ Len(dump') = n /\ Len(dump') <= MaxResults
    BY <1>1, <1>3, <2>1, <2>2, InstrumentAssumption DEF Wifi!ScanResult
  <2>5. pc' = "fetch"
    BY <1>3 DEF Wifi!ScanResult
  <2>6. CASE ~r.bssid
    <3>1. networks' = networks /\ Wifi!Kept' = Wifi!Kept
      BY <2>1, <2>3, <2>6
    <3>2. Wifi!WifiTypeOK'
      BY <1>1, <2>2, <2>4, <3>1 DEF Wifi!WifiTypeOK, Wifi!Results
    <3>3. \A p \in Wifi!Kept' :
             /\ Wifi!Rank(p)' \in 1 .. Len(networks')
             /\ networks'[Wifi!Rank(p)'] = Wifi!CString(Wifi!FindSsid(dump'[p].ies))
      BY <1>2, <2>3, <3>1
    <3>4. QED
      BY <1>2, <2>5, <3>1, <3>2, <3>3 DEF NetworksInv
  <2>7. CASE r.bssid
    <3>1. PICK s : s = Wifi!CString(Wifi!FindSsid(r.ies))
      OBVIOUS
    <3>2. s \in Ssids
      <4>1. r \in [bssid : {TRUE}, ies : Wifi!BoundedSeq(IeBytes, MaxIeBytes)]
        <5>1. r # [bssid |-> FALSE, ies |-> <<>>]
          BY <2>7
        <5>2. QED
          BY <5>1 DEF Wifi!Results
      <4>2. r.ies \in Wifi!BoundedSeq(IeBytes, MaxIeBytes)
        BY <4>1
      <4>3. QED
        BY <3>1, <4>2, SsidType
    <3> HIDE DEF Ssids
    <3>3. /\ networks' = Append(networks, s) /\ networks' \in Seq(Ssids)
          /\ Len(networks') = Len(networks) + 1 /\ networks'[Len(networks) + 1] = s
          /\ \A i \in 1 .. Len(networks) : networks'[i] = networks[i]
          /\ Len(networks) \in Nat
      BY <1>1, <2>1, <2>7, <3>1, <3>2
    <3>4. Wifi!Kept' = Wifi!Kept \cup {n} /\ Cardinality(Wifi!Kept') = Len(networks')
      BY <1>2, <2>3, <2>7, <3>3
    <3>5. Wifi!WifiTypeOK'
      <4>1. Len(networks') <= Len(dump')
        BY <1>1, <2>2, <2>4, <3>3
      <4>2. QED
        BY <2>4, <3>3, <4>1 DEF Wifi!WifiTypeOK, Wifi!Results, Ssids
    <3>6. ASSUME NEW p \in Wifi!Kept
          PROVE  /\ Wifi!Rank(p)' \in 1 .. Len(networks')
                 /\ networks'[Wifi!Rank(p)'] = Wifi!CString(Wifi!FindSsid(dump'[p].ies))
      BY <1>2, <2>3, <3>3
    <3>7. /\ Wifi!Rank(n)' \in 1 .. Len(networks')
          /\ networks'[Wifi!Rank(n)'] = Wifi!CString(Wifi!FindSsid(dump'[n].ies))
      BY <2>3, <3>1, <3>3, <3>4
    <3>8. \A p \in Wifi!Kept' :
             /\ Wifi!Rank(p)' \in 1 .. Len(networks')
             /\ networks'[Wifi!Rank(p)'] = Wifi!CString(Wifi!FindSsid(dump'[p].ies))
      BY <3>4, <3>6, <3>7
    <3>9. QED
      BY <2>5, <3>4, <3>5, <3>8 DEF NetworksInv
  <2>8. QED
    BY <2>6, <2>7
<1>4. CASE \/ Wifi!TriggerFails \/ Wifi!TriggerScan \/ Wifi!FetchFails \/ Wifi!FetchEnds
  <2>1. UNCHANGED wifiVars
    BY <1>4 DEF Wifi!TriggerFails, Wifi!TriggerScan, Wifi!FetchFails, Wifi!FetchEnds
  <2>2. Wifi!WifiTypeOK'
    BY <2>1, SameWifi DEF TypeOK
  <2>3. /\ Len(networks') = Cardinality(Wifi!Kept')
        /\ \A p \in Wifi!Kept' :
              /\ Wifi!Rank(p)' \in 1 .. Len(networks')
              /\ networks'[Wifi!Rank(p)'] = Wifi!CString(Wifi!FindSsid(dump'[p].ies))
    BY <1>2, <2>1 DEF Wifi!Kept, Wifi!Rank
  <2>4. pc' = "done" =>
          \/ /\ status' = "success" /\ networks' # <<>>
             /\ outLen' = Wifi!Min({Len(networks'), MaxNetworks})
          \/ status' \in {"error", "not_supported"} /\ outLen' = 0
    <3>1. CASE Wifi!FetchEnds
      <4>1. Wifi!Min({0, MaxNetworks}) = 0
        <5>1. {0, MaxNetworks} \in SUBSET Int /\ \A y \in {0, MaxNetworks} : 0 <= y
          BY InstrumentAssumption
        <5>2. QED
          BY <5>1, MinIs
      <4>2. networks = <<>> => Len(networks) = 0
        OBVIOUS
      <4>3. QED
        BY <2>1, <3>1, <4>1, <4>2 DEF Wifi!FetchEnds
    <3>2. CASE Wifi!TriggerFails \/ Wifi!TriggerScan \/ Wifi!FetchFails
      BY <3>2 DEF Wifi!TriggerFails, Wifi!TriggerScan, Wifi!FetchFails, Stages
    <3>3. QED
      BY <1>4, <3>1, <3>2
  <2>5. QED
    BY <2>2, <2>3, <2>4 DEF NetworksInv
<1>5. QED
  BY <1>3, <1>4 DEF Wifi!WifiNext

(* What the scan answers. *)
LEMMA WifiAnswers ==
    ASSUME TypeOK, NetworksInv
    PROVE  WifiListed
<1> SUFFICES ASSUME action = "wifi", pc = "done"
             PROVE  /\ status = "success" <=> outLen > 0
                    /\ status = "success" =>
                          outLen = Wifi!Min({Wifi!Cardinality(Wifi!Kept), MaxNetworks})
                    /\ \A p \in Wifi!Kept : Wifi!Rank(p) <= outLen =>
                          networks[Wifi!Rank(p)] = Wifi!SsidOf(dump[p].ies)
  BY DEF WifiListed, Wifi!WifiAnswered
<1>1. Len(networks) = Wifi!Cardinality(Wifi!Kept) /\ Len(networks) \in Nat
  BY SameCardinality DEF NetworksInv, TypeOK, Wifi!WifiTypeOK
<1>2. status = "success" => outLen = Wifi!Min({Len(networks), MaxNetworks}) /\ outLen > 0
  <2>1. ASSUME networks # <<>>
        PROVE  Wifi!Min({Len(networks), MaxNetworks}) > 0
    <3>1. {Len(networks), MaxNetworks} \in SUBSET Nat /\ Len(networks) > 0 /\ MaxNetworks > 0
      BY <1>1, <2>1, InstrumentAssumption DEF TypeOK, Wifi!WifiTypeOK
    <3>2. Wifi!Min({Len(networks), MaxNetworks}) \in {Len(networks), MaxNetworks}
      BY <3>1, MinIn
    <3>3. QED
      BY <3>1, <3>2
  <2>2. QED
    BY <2>1 DEF NetworksInv
<1>3. ~(status = "success") => outLen = 0
  BY DEF NetworksInv
<1>4. ASSUME NEW p \in Wifi!Kept
      PROVE  networks[Wifi!Rank(p)] = Wifi!SsidOf(dump[p].ies)
  <2>1. dump[p] \in Wifi!Results /\ dump[p].bssid
    BY DEF Wifi!Kept, TypeOK, Wifi!WifiTypeOK
  <2>2. dump[p] \in [bssid : {TRUE}, ies : Wifi!BoundedSeq(IeBytes, MaxIeBytes)]
    <3>1. dump[p] # [bssid |-> FALSE, ies |-> <<>>]
      BY <2>1
    <3>2. QED
      BY <2>1, <3>1 DEF Wifi!Results
  <2>3. dump[p].ies \in Wifi!BoundedSeq(IeBytes, MaxIeBytes)
    BY <2>2
  <2>4. QED
    BY <2>3, SsidType DEF NetworksInv
<1>5. QED
  BY <1>1, <1>2, <1>3, <1>4
-----------------------------------------------------------------------------
(* Least and greatest elements, as GpsPoll takes them. *)
LEMMA LeastNumber ==
    ASSUME NEW S \in SUBSET Nat, S # {}
    PROVE  Gps!Min(S) \in S /\ \A y \in S : Gps!Min(S) <= y
BY LeastIn DEF Gps!Min

LEMMA GreatestIn ==
    ASSUME NEW n \in Nat, NEW S \in SUBSET (0 .. n), S # {}
    PROVE  \E x \in S : \A y \in S : y <= x
<1> DEFINE T == {d \in 0 .. n : n - d \in S}
<1>1. T \in SUBSET Nat /\ T # {}
  <2>1. PICK x \in S : TRUE
    OBVIOUS
  <2>2. x \in 0 .. n /\ n - x \in 0 .. n /\ n - (n - x) = x
    BY <2>1
  <2>3. n - x \in T
    BY <2>1, <2>2
  <2>4. T \subseteq 0 .. n /\ 0 .. n \subseteq Nat
    OBVIOUS
  <2>5. QED
    BY <2>3, <2>4
<1>2. PICK d \in T : \A e \in T : d <= e
  <2> HIDE DEF T
  <2>1. QED
    BY <1>1, LeastIn
<1>3. ASSUME NEW y \in S PROVE y <= n - d
  <2>1. n - y \in T
    OBVIOUS
  <2>2. d <= n - y
    BY <1>2, <2>1
  <2>3. QED
    BY <1>2, <2>2
<1>4. QED
  BY <1>2, <1>3

LEMMA GreatestNumber ==
    ASSUME NEW n \in Nat, NEW S \in SUBSET (0 .. n), S # {}
    PROVE  Gps!Max(S) \in S /\ \A y \in S : y <= Gps!Max(S)
<1>1. \E x \in S : \A y \in S : x >= y
  <2>1. PICK x \in S : \A y \in S : y <= x
    BY GreatestIn
  <2>2. QED
    BY <2>1
<1>2. Gps!Max(S) \in S /\ \A y \in S : Gps!Max(S) >= y
  BY <1>1 DEF Gps!Max
<1>3. QED
  BY <1>2

LEMMA GreatestIs ==
    ASSUME NEW n \in Nat, NEW S \in SUBSET (0 .. n), NEW x \in S, \A y \in S : y <= x
    PROVE  Gps!Max(S) = x
<1>1. Gps!Max(S) \in S /\ x <= Gps!Max(S) /\ Gps!Max(S) <= x
  BY GreatestNumber
<1>2. S \subseteq Int
  OBVIOUS
<1>3. Gps!Max(S) \in Int /\ x \in Int
  BY <1>1, <1>2
<1>4. QED
  BY <1>1, <1>3

(* Where the lines of the stream end. *)
LEMMA Ends ==
    ASSUME Gps!GpsTypeOK, Increasing
    PROVE  /\ DOMAIN stream = 1 .. Len(stream) /\ Len(stream) \in Nat
           /\ Gps!EndOf(0) = 0
           /\ \A k \in DOMAIN stream : stream[k].end = Gps!EndOf(k)
           /\ \A k \in 0 .. Len(stream) : Gps!EndOf(k) \in Nat
           /\ \A j, k \in 0 .. Len(stream) : j < k => Gps!EndOf(j) < Gps!EndOf(k)
           /\ \A k \in 0 .. Len(stream) : Gps!EndOf(k) <= Gps!Sent
<1>1. DOMAIN stream = 1 .. Len(stream) /\ Len(stream) \in Nat /\ Gps!EndOf(0) = 0
  BY DEF Gps!GpsTypeOK, Gps!EndOf
<1>2. \A k \in DOMAIN stream : stream[k].end = Gps!EndOf(k) /\ stream[k].end \in Nat
  <2> SUFFICES ASSUME NEW k \in DOMAIN stream
               PROVE  stream[k].end = Gps!EndOf(k) /\ stream[k].end \in Nat
    OBVIOUS
  <2>1. stream \in Seq([kind : Gps!Kinds, end : Nat])
    BY DEF Gps!GpsTypeOK
  <2>2. k \in 1 .. Len(stream) /\ k # 0
    BY <1>1
  <2>3. stream[k] \in [kind : Gps!Kinds, end : Nat]
    BY <2>1, <2>2, ElementOfSeq
  <2>4. QED
    BY <2>2, <2>3 DEF Gps!EndOf
<1>3. \A k \in 0 .. Len(stream) : Gps!EndOf(k) \in Nat
  BY <1>1, <1>2
<1>4. ASSUME NEW k \in DOMAIN stream PROVE 0 < stream[k].end
  <2>1. Gps!EndOf(0) = 0 /\ 1 - 1 = 0 /\ 1 \in DOMAIN stream
    BY <1>1
  <2>2. stream[1].end - Gps!EndOf(1 - 1) \in Lengths
    BY <2>1 DEF Gps!GpsTypeOK
  <2>3. 0 < stream[1].end
    BY <1>2, <2>1, <2>2, InstrumentAssumption
  <2>4. k = 1 \/ stream[1].end < stream[k].end
    BY <1>1, <2>1 DEF Increasing
  <2>5. QED
    BY <1>2, <2>1, <2>3, <2>4
<1>5. ASSUME NEW j \in 0 .. Len(stream), NEW k \in 0 .. Len(stream), j < k
      PROVE  Gps!EndOf(j) < Gps!EndOf(k)
  <2>1. k \in DOMAIN stream
    BY <1>1, <1>5
  <2>2. CASE j = 0
    BY <1>1, <1>2, <1>4, <2>1, <2>2
  <2>3. CASE j # 0
    BY <1>1, <1>2, <1>5, <2>1, <2>3 DEF Increasing
  <2>4. QED
    BY <2>2, <2>3
<1>6. ASSUME NEW k \in 0 .. Len(stream) PROVE Gps!EndOf(k) <= Gps!Sent
  <2>1. Len(stream) \in 0 .. Len(stream)
    BY <1>1
  <2>2. k = Len(stream) \/ Gps!EndOf(k) < Gps!EndOf(Len(stream))
    <3>1. Len(stream) \in Nat
      BY <1>1
    <3>2. k = Len(stream) \/ k < Len(stream)
      BY <3>1
    <3>3. QED
      BY <1>5, <2>1, <3>2
  <2>3. QED
    BY <1>3, <2>1, <2>2 DEF Gps!Sent
<1>7. QED
  BY <1>1, <1>2, <1>3, <1>5, <1>6

(* What was received after the end of line c is F, up to byte t; the lines *)
(* that end in it.                                                         *)
Piece(c, t, F) ==
    /\ Gps!GpsTypeOK /\ Increasing
    /\ c \in 0 .. Len(stream) /\ t \in Nat /\ Gps!EndOf(c) <= t
    /\ F \in Seq(Nat) /\ Len(F) = t - Gps!EndOf(c)
    /\ \A i \in 1 .. Len(F) : F[i] = Gps!EndOf(c) + i

Ended(c, t) == {k \in DOMAIN stream : c < k /\ stream[k].end <= t}

LEMMA EndedEnds ==
    ASSUME NEW c, NEW t, NEW F, Piece(c, t, F), NEW k \in Ended(c, t)
    PROVE  /\ k \in 1 .. Len(stream) /\ k \in 0 .. Len(stream) /\ k - 1 \in c .. Len(stream)
           /\ Gps!EndOf(k) \in Nat /\ Gps!EndOf(c) \in Nat /\ t \in Nat
           /\ Gps!EndOf(c) < Gps!EndOf(k) /\ Gps!EndOf(k) <= t
           /\ Gps!EndOf(k) - Gps!EndOf(c) \in 1 .. Len(F)
           /\ F[Gps!EndOf(k) - Gps!EndOf(c)] = Gps!EndOf(k)
<1>1. /\ k \in 1 .. Len(stream) /\ c < k /\ Len(stream) \in Nat /\ c \in 0 .. Len(stream)
      /\ Gps!EndOf(k) <= t
  BY Ends DEF Piece, Ended
<1>2. k \in 0 .. Len(stream) /\ k - 1 \in c .. Len(stream)
  BY <1>1
<1>3. Gps!EndOf(k) \in Nat /\ Gps!EndOf(c) \in Nat /\ Gps!EndOf(c) < Gps!EndOf(k) /\ t \in Nat
  BY <1>1, <1>2, Ends DEF Piece
<1>4. Gps!EndOf(k) - Gps!EndOf(c) \in 1 .. t - Gps!EndOf(c)
  BY <1>1, <1>3
<1>5. Gps!EndOf(k) - Gps!EndOf(c) \in 1 .. Len(F)
  BY <1>4 DEF Piece
<1>6. F[Gps!EndOf(k) - Gps!EndOf(c)] = Gps!EndOf(c) + (Gps!EndOf(k) - Gps!EndOf(c))
  BY <1>5 DEF Piece
<1>7. QED
  BY <1>1, <1>2, <1>3, <1>5, <1>6

LEMMA NewlinesAt ==
    ASSUME NEW c, NEW t, NEW F, Piece(c, t, F)
    PROVE  /\ Gps!Newlines(F) \in SUBSET (1 .. Len(F)) /\ Len(F) \in Nat
           /\ \A k \in Ended(c, t) : Gps!EndOf(k) - Gps!EndOf(c) \in Gps!Newlines(F)
           /\ \A i \in Gps!Newlines(F) : \E k \in Ended(c, t) : i = Gps!EndOf(k) - Gps!EndOf(c)
<1>1. DOMAIN F = 1 .. Len(F) /\ Len(F) \in Nat
  BY DEF Piece
<1>2. ASSUME NEW k \in Ended(c, t)
      PROVE  Gps!EndOf(k) - Gps!EndOf(c) \in Gps!Newlines(F)
  <2>1. Gps!IsNewline(Gps!EndOf(k))
    BY Ends DEF Piece, Ended, Gps!IsNewline
  <2>2. QED
    BY <1>1, <2>1, EndedEnds DEF Gps!Newlines
<1>3. ASSUME NEW i \in Gps!Newlines(F)
      PROVE  \E k \in Ended(c, t) : i = Gps!EndOf(k) - Gps!EndOf(c)
  <2>1. PICK k \in DOMAIN stream : stream[k].end = F[i]
    BY <1>3 DEF Gps!Newlines, Gps!IsNewline
  <2>2. i \in 1 .. Len(F) /\ F[i] = Gps!EndOf(c) + i
    BY <1>1, <1>3 DEF Gps!Newlines, Piece
  <2>3. /\ Gps!EndOf(k) = Gps!EndOf(c) + i /\ k \in 0 .. Len(stream) /\ c \in 0 .. Len(stream)
        /\ Len(stream) \in Nat
    BY <2>1, <2>2, Ends DEF Piece
  <2>4. Gps!EndOf(c) \in Nat /\ Gps!EndOf(k) \in Nat /\ t \in Nat /\ Len(F) = t - Gps!EndOf(c)
    BY <2>3, Ends DEF Piece
  <2>5. Gps!EndOf(k) <= t /\ Gps!EndOf(c) < Gps!EndOf(k)
    BY <2>2, <2>3, <2>4
  <2>6. c < k
    <3>1. ASSUME k <= c PROVE FALSE
      <4>1. k = c \/ k < c
        BY <2>3, <3>1
      <4>2. Gps!EndOf(k) = Gps!EndOf(c) \/ Gps!EndOf(k) < Gps!EndOf(c)
        BY <2>3, <4>1, Ends DEF Piece
      <4>3. QED
        BY <2>4, <2>5, <4>2
    <3>2. k \in Int /\ c \in Int
      BY <2>3
    <3>3. QED
      BY <3>1, <3>2
  <2>7. k \in Ended(c, t)
    BY <2>1, <2>5, <2>6, Ends DEF Ended, Piece
  <2>8. i = Gps!EndOf(k) - Gps!EndOf(c)
    BY <2>2, <2>3, <2>4
  <2>9. QED
    BY <2>7, <2>8
<1>4. QED
  BY <1>1, <1>2, <1>3 DEF Gps!Newlines

LEMMA LineOfEnd ==
    ASSUME Gps!GpsTypeOK, Increasing, NEW k \in DOMAIN stream
    PROVE  Gps!LineOf(Gps!EndOf(k)) = k
<1> DEFINE m == Gps!LineOf(Gps!EndOf(k))
<1>1. m \in DOMAIN stream /\ stream[m].end = stream[k].end
  BY Ends DEF Gps!LineOf
<1> HIDE DEF m
<1>2. m \in Int /\ k \in Int /\ stream[m].end \in Int /\ stream[k].end \in Int
  <2>1. m \in 0 .. Len(stream) /\ k \in 0 .. Len(stream) /\ Len(stream) \in Nat
    BY <1>1, Ends
  <2>2. QED
    BY <1>1, <2>1, Ends
<1>3. ~(m < k) /\ ~(k < m)
  BY <1>1, <1>2 DEF Increasing
<1>4. QED
  BY <1>2, <1>3 DEF m

LEMMA EndsOrder ==
    ASSUME Gps!GpsTypeOK, Increasing, NEW j \in 0 .. Len(stream), NEW k \in 0 .. Len(stream)
    PROVE  /\ j \in Int /\ k \in Int /\ Gps!EndOf(j) \in Nat /\ Gps!EndOf(k) \in Nat
           /\ j < k <=> Gps!EndOf(j) < Gps!EndOf(k)
           /\ j <= k <=> Gps!EndOf(j) <= Gps!EndOf(k)
           /\ j = k <=> Gps!EndOf(j) = Gps!EndOf(k)
<1>1. Len(stream) \in Nat
  BY Ends
<1>2. j \in Int /\ k \in Int
  BY <1>1
<1>3. Gps!EndOf(j) \in Nat /\ Gps!EndOf(k) \in Nat
  BY Ends
<1>4. /\ j < k => Gps!EndOf(j) < Gps!EndOf(k)
      /\ k < j => Gps!EndOf(k) < Gps!EndOf(j)
      /\ j = k => Gps!EndOf(j) = Gps!EndOf(k)
  BY Ends
<1>5. QED
  BY <1>2, <1>3, <1>4

(* The line before one that ends in F ends in F, or just before it. *)
LEMMA LineBegins ==
    ASSUME NEW c, NEW t, NEW F, Piece(c, t, F), NEW k \in Ended(c, t)
    PROVE  /\ Gps!EndOf(k - 1) - Gps!EndOf(c) \in 0 .. Gps!EndOf(k) - Gps!EndOf(c) - 1
           /\ Gps!Max({0} \cup {j \in Gps!Newlines(F) : j < Gps!EndOf(k) - Gps!EndOf(c)})
                 = Gps!EndOf(k - 1) - Gps!EndOf(c)
<1> DEFINE i == Gps!EndOf(k) - Gps!EndOf(c)
           x == Gps!EndOf(k - 1) - Gps!EndOf(c)
           S == {0} \cup {j \in Gps!Newlines(F) : j < i}
<1>1. /\ Gps!GpsTypeOK /\ Increasing /\ Len(stream) \in Nat /\ c \in 0 .. Len(stream)
      /\ k \in 1 .. Len(stream) /\ c < k /\ k - 1 \in 0 .. Len(stream)
      /\ k \in 0 .. Len(stream) /\ c <= k - 1 /\ k - 1 < k
  BY EndedEnds, Ends DEF Piece, Ended
<1>2. /\ Gps!EndOf(c) \in Nat /\ Gps!EndOf(k) \in Nat /\ Gps!EndOf(k - 1) \in Nat
      /\ Gps!EndOf(c) <= Gps!EndOf(k - 1) /\ Gps!EndOf(k - 1) < Gps!EndOf(k)
  BY <1>1, EndsOrder
<1>3. x \in 0 .. i - 1 /\ i \in 1 .. Len(F) /\ Len(F) \in Nat
  <2>1. x \in 0 .. i - 1
    BY <1>2
  <2>2. i \in 1 .. Len(F) /\ Len(F) \in Nat
    BY EndedEnds, NewlinesAt
  <2>3. QED
    BY <2>1, <2>2
<1>4. x \in S
  <2>1. CASE k - 1 = c
    BY <1>2, <2>1
  <2>2. CASE k - 1 # c
    <3>1. k - 1 \in DOMAIN stream /\ c < k - 1
      BY <1>1, <2>2, Ends
    <3>2. stream[k - 1].end <= t
      <4>1. stream[k - 1].end = Gps!EndOf(k - 1)
        BY <1>1, <3>1, Ends
      <4>2. Gps!EndOf(k) <= t /\ t \in Nat
        BY EndedEnds
      <4>3. QED
        BY <1>2, <4>1, <4>2
    <3>3. x \in Gps!Newlines(F)
      BY <3>1, <3>2, NewlinesAt DEF Ended
    <3>4. QED
      BY <1>3, <3>3
  <2>3. QED
    BY <2>1, <2>2
<1>5. ASSUME NEW y \in S PROVE y <= x
  <2>1. CASE y = 0
    BY <1>3, <2>1
  <2>2. CASE y \in Gps!Newlines(F) /\ y < i
    <3>1. PICK j \in Ended(c, t) : y = Gps!EndOf(j) - Gps!EndOf(c)
      BY <2>2, NewlinesAt
    <3>2. j \in 0 .. Len(stream) /\ Gps!EndOf(j) \in Nat
      BY <3>1, EndedEnds
    <3>3. Gps!EndOf(j) < Gps!EndOf(k)
      BY <1>2, <2>2, <3>1, <3>2
    <3>4. j < k
      BY <1>1, <3>2, <3>3, EndsOrder
    <3>5. j <= k - 1
      BY <1>1, <3>2, <3>4
    <3>6. Gps!EndOf(j) <= Gps!EndOf(k - 1)
      BY <1>1, <3>2, <3>5, EndsOrder
    <3>7. QED
      BY <1>2, <3>1, <3>2, <3>6
  <2>3. QED
    BY <1>5, <2>1, <2>2
<1>6. S \in SUBSET (0 .. Len(F))
  BY NewlinesAt
<1>7. Gps!Max(S) = x
  <2> HIDE DEF S, x
  <2>1. QED
    BY <1>3, <1>4, <1>5, <1>6, GreatestIs
<1>8. QED
  BY <1>3, <1>7

(* strstr() finds the class of this line in it, and of no other. *)
LEMMA LineShown ==
    ASSUME NEW c, NEW t, NEW F, Piece(c, t, F), NEW k \in Ended(c, t), NEW kinds
    PROVE  Gps!Shows(Gps!LineAt(F, Gps!EndOf(k) - Gps!EndOf(c)), kinds)
              <=> stream[k].kind \in kinds
<1> DEFINE i == Gps!EndOf(k) - Gps!EndOf(c)
           x == Gps!EndOf(k - 1) - Gps!EndOf(c)
           line == SubSeq(F, x + 1, i)
<1>1. Gps!LineAt(F, i) = line
  BY LineBegins DEF Gps!LineAt
<1>2. /\ Gps!GpsTypeOK /\ Increasing /\ Len(stream) \in Nat
      /\ k - 1 \in 0 .. Len(stream) /\ k \in 1 .. Len(stream) /\ k \in 0 .. Len(stream)
      /\ c \in 0 .. Len(stream)
  BY EndedEnds, Ends DEF Piece, Ended
<1>3. Gps!EndOf(c) \in Nat /\ Gps!EndOf(k) \in Nat /\ Gps!EndOf(k - 1) \in Nat
  BY <1>2, Ends
<1>4. x \in 0 .. i - 1 /\ i \in 1 .. Len(F) /\ F \in Seq(Nat) /\ Len(F) \in Nat
  BY LineBegins, EndedEnds, NewlinesAt DEF Piece
<1>5. \A b : b \in Gps!ToSet(line) <=> b \in Gps!EndOf(k - 1) + 1 .. Gps!EndOf(k)
  <2> HIDE DEF x, i
  <2>1. line = [m \in 1 .. i - x |-> F[x + m]]
    BY <1>4
  <2>2. Gps!ToSet(line) = {F[x + m] : m \in 1 .. i - x}
    BY <1>4, <2>1 DEF Gps!ToSet
  <2>3. ASSUME NEW m \in 1 .. i - x PROVE F[x + m] = Gps!EndOf(c) + x + m
    <3>1. x + m \in 1 .. Len(F)
      BY <1>4
    <3>2. F[x + m] = Gps!EndOf(c) + (x + m)
      BY <3>1 DEF Piece
    <3>3. QED
      BY <1>3, <1>4, <3>2
  <2>4. Gps!EndOf(c) + x = Gps!EndOf(k - 1) /\ i - x = Gps!EndOf(k) - Gps!EndOf(k - 1)
    BY <1>3 DEF x, i
  <2>5. ASSUME NEW b \in Gps!EndOf(k - 1) + 1 .. Gps!EndOf(k)
        PROVE  b \in Gps!ToSet(line)
    <3>1. b - Gps!EndOf(k - 1) \in 1 .. i - x
      BY <1>3, <2>4
    <3>2. F[x + (b - Gps!EndOf(k - 1))] = Gps!EndOf(c) + x + (b - Gps!EndOf(k - 1))
      BY <2>3, <3>1
    <3>3. Gps!EndOf(c) + x + (b - Gps!EndOf(k - 1)) = b
      BY <1>3, <2>4
    <3>4. QED
      BY <2>2, <3>1, <3>2, <3>3
  <2>6. ASSUME NEW b \in Gps!ToSet(line)
        PROVE  b \in Gps!EndOf(k - 1) + 1 .. Gps!EndOf(k)
    <3>1. PICK m \in 1 .. i - x : b = F[x + m]
      BY <2>2, <2>6
    <3>2. b = Gps!EndOf(k - 1) + m
      BY <2>3, <2>4, <3>1
    <3>3. QED
      BY <1>3, <2>4, <3>1, <3>2
  <2>7. QED
    BY <2>5, <2>6
<1>6. ASSUME NEW j \in DOMAIN stream
      PROVE  Gps!EndOf(j - 1) + 1 \in Gps!EndOf(k - 1) + 1 .. Gps!EndOf(k) <=> j = k
  <2>1. j - 1 \in 0 .. Len(stream) /\ j \in Int /\ k \in Int
    BY <1>2, Ends
  <2>2. /\ Gps!EndOf(j - 1) \in Nat
        /\ k - 1 <= j - 1 <=> Gps!EndOf(k - 1) <= Gps!EndOf(j - 1)
        /\ j - 1 < k <=> Gps!EndOf(j - 1) < Gps!EndOf(k)
    BY <1>2, <2>1, EndsOrder
  <2>3. QED
    BY <1>3, <2>1, <2>2
<1>7. k \in DOMAIN stream
  BY DEF Ended
<1>8. Gps!Shows(line, kinds) <=> stream[k].kind \in kinds
  BY <1>5, <1>6, <1>7 DEF Gps!Shows
<1>9. QED
  BY <1>1, <1>8

Received(c, t, kinds) == {k \in Ended(c, t) : stream[k].kind \in kinds}

LEMMA MatchesAt ==
    ASSUME NEW c, NEW t, NEW F, Piece(c, t, F), NEW kinds
    PROVE  LET found == Gps!Matches(F, kinds)
               lines == Received(c, t, kinds)
               first == Gps!LineOf(F[Gps!Min(found)])
               last  == Gps!LineOf(F[Gps!Max(found)])
           IN  /\ found = {} <=> lines = {}
               /\ found # {} =>
                     /\ first \in lines /\ \A k \in lines : first <= k
                     /\ last \in lines /\ \A k \in lines : k <= last
<1> DEFINE found == Gps!Matches(F, kinds)
           lines == Received(c, t, kinds)
<1>1. /\ Gps!GpsTypeOK /\ Increasing
      /\ \A k \in lines : k \in Ended(c, t) /\ k \in DOMAIN stream /\ k \in 0 .. Len(stream)
  BY EndedEnds DEF Piece, Received, Ended
<1>2. ASSUME NEW k \in lines PROVE Gps!EndOf(k) - Gps!EndOf(c) \in found
  BY <1>1, NewlinesAt, LineShown DEF Gps!Matches, Received
<1>3. ASSUME NEW i \in found
      PROVE  \E k \in lines : i = Gps!EndOf(k) - Gps!EndOf(c) /\ Gps!LineOf(F[i]) = k
  <2>1. PICK k \in Ended(c, t) : i = Gps!EndOf(k) - Gps!EndOf(c)
    BY <1>3, NewlinesAt DEF Gps!Matches
  <2>2. k \in lines
    BY <1>3, <2>1, LineShown DEF Gps!Matches, Received
  <2>3. Gps!LineOf(F[i]) = k
    BY <1>1, <2>1, <2>2, EndedEnds, LineOfEnd
  <2>4. QED
    BY <2>1, <2>2, <2>3
<1>4. found \in SUBSET (0 .. Len(F)) /\ found \in SUBSET Nat /\ Len(F) \in Nat
  BY NewlinesAt DEF Gps!Matches
<1>5. ASSUME NEW j \in lines, NEW k \in lines,
             Gps!EndOf(j) - Gps!EndOf(c) <= Gps!EndOf(k) - Gps!EndOf(c)
      PROVE  j <= k
  <2>1. Gps!EndOf(j) \in Nat /\ Gps!EndOf(k) \in Nat /\ Gps!EndOf(c) \in Nat
    BY <1>1, EndedEnds
  <2>2. Gps!EndOf(j) <= Gps!EndOf(k)
    BY <1>5, <2>1
  <2>3. QED
    BY <1>1, <2>2, EndsOrder
<1> HIDE DEF found, lines
<1>6. ASSUME found # {}
      PROVE  /\ Gps!LineOf(F[Gps!Min(found)]) \in lines
             /\ \A k \in lines : Gps!LineOf(F[Gps!Min(found)]) <= k
  <2>1. Gps!Min(found) \in found /\ \A y \in found : Gps!Min(found) <= y
    BY <1>4, <1>6, LeastNumber
  <2>2. PICK j \in lines : /\ Gps!Min(found) = Gps!EndOf(j) - Gps!EndOf(c)
                           /\ Gps!LineOf(F[Gps!Min(found)]) = j
    BY <1>3, <2>1
  <2>3. QED
    BY <1>2, <1>5, <2>1, <2>2
<1>7. ASSUME found # {}
      PROVE  /\ Gps!LineOf(F[Gps!Max(found)]) \in lines
             /\ \A k \in lines : k <= Gps!LineOf(F[Gps!Max(found)])
  <2>1. Gps!Max(found) \in found /\ \A y \in found : y <= Gps!Max(found)
    BY <1>4, <1>7, GreatestNumber
  <2>2. PICK j \in lines : /\ Gps!Max(found) = Gps!EndOf(j) - Gps!EndOf(c)
                           /\ Gps!LineOf(F[Gps!Max(found)]) = j
    BY <1>3, <2>1
  <2>3. QED
    BY <1>2, <1>5, <2>1, <2>2
<1>8. found = {} <=> lines = {}
  BY <1>2, <1>3
<1>9. QED
  BY <1>6, <1>7, <1>8 DEF found, lines

(* What follows the last newline of F. *)
LEMMA RestBegins ==
    ASSUME NEW c, NEW t, NEW F, Piece(c, t, F)
    PROVE  \E d \in 0 .. Len(stream) :
              /\ Gps!EndOf(d) <= t /\ \A k \in d + 1 .. Len(stream) : t < stream[k].end
              /\ Len(Gps!Rest(F)) = t - Gps!EndOf(d) /\ Len(Gps!Rest(F)) <= Len(F)
              /\ \A i \in DOMAIN Gps!Rest(F) : Gps!Rest(F)[i] = Gps!EndOf(d) + i
              /\ Gps!Rest(F) \in Seq(1 .. t)
<1> DEFINE S == {0} \cup Gps!Newlines(F)
           x == Gps!Max(S)
<1>1. /\ Gps!GpsTypeOK /\ Increasing /\ Len(stream) \in Nat /\ c \in 0 .. Len(stream)
      /\ Gps!EndOf(c) \in Nat /\ t \in Nat /\ Len(F) = t - Gps!EndOf(c) /\ Len(F) \in Nat
      /\ Gps!EndOf(c) <= t /\ DOMAIN stream = 1 .. Len(stream)
  BY Ends, NewlinesAt DEF Piece
<1>2. x \in S /\ \A y \in S : y <= x
  <2>1. S \in SUBSET (0 .. Len(F)) /\ S # {}
    BY <1>1, NewlinesAt
  <2> HIDE DEF S
  <2>2. QED
    BY <1>1, <2>1, GreatestNumber
<1> HIDE DEF x
<1>3. PICK d \in 0 .. Len(stream) : x = Gps!EndOf(d) - Gps!EndOf(c) /\ c <= d
  <2>1. CASE x = 0
    BY <1>1, <2>1
  <2>2. CASE x \in Gps!Newlines(F)
    <3>1. PICK k \in Ended(c, t) : x = Gps!EndOf(k) - Gps!EndOf(c)
      BY <2>2, NewlinesAt
    <3>2. k \in 0 .. Len(stream) /\ c <= k
      BY <1>1, <3>1, EndedEnds DEF Ended
    <3>3. QED
      BY <3>1, <3>2
  <2>3. QED
    BY <1>2, <2>1, <2>2
<1>4. Gps!EndOf(d) \in Nat /\ d \in Nat
  BY <1>1, <1>3, Ends
<1>5. x \in 0 .. Len(F)
  BY <1>1, <1>2, NewlinesAt
<1>6. Gps!EndOf(d) <= t
  BY <1>1, <1>3, <1>4, <1>5
<1>7. ASSUME NEW k \in d + 1 .. Len(stream) PROVE t < stream[k].end
  <2>1. k \in 1 .. Len(stream) /\ d < k /\ c < k /\ k \in 0 .. Len(stream)
    BY <1>1, <1>3, <1>4
  <2>2. stream[k].end = Gps!EndOf(k) /\ Gps!EndOf(k) \in Nat /\ Gps!EndOf(d) < Gps!EndOf(k)
    BY <1>1, <1>3, <2>1, Ends, EndsOrder
  <2>3. SUFFICES ASSUME Gps!EndOf(k) <= t PROVE FALSE
    BY <1>1, <2>2
  <2>4. k \in Ended(c, t)
    BY <1>1, <2>1, <2>2, <2>3 DEF Ended
  <2>5. Gps!EndOf(k) - Gps!EndOf(c) <= x
    BY <1>2, <2>4, NewlinesAt
  <2>6. QED
    BY <1>1, <1>3, <1>4, <2>2, <2>5
<1>8. /\ Gps!Rest(F) = SubSeq(F, x + 1, Len(F))
      /\ F \in Seq(Nat) /\ \A i \in 1 .. Len(F) : F[i] = Gps!EndOf(c) + i
  BY DEF Gps!Rest, Piece, x, S
<1>9. Gps!Rest(F) = [i \in 1 .. Len(F) - x |-> F[x + i]]
  BY <1>1, <1>5, <1>8
<1>10. Len(F) - x = t - Gps!EndOf(d) /\ Len(F) - x \in Nat /\ Len(F) - x <= Len(F)
  BY <1>1, <1>3, <1>4, <1>5
<1>11. ASSUME NEW i \in 1 .. Len(F) - x
       PROVE  F[x + i] = Gps!EndOf(d) + i /\ F[x + i] \in 1 .. t
  <2>1. x + i \in 1 .. Len(F)
    BY <1>1, <1>5
  <2>2. F[x + i] = Gps!EndOf(c) + (x + i)
    BY <1>8, <2>1
  <2>3. Gps!EndOf(c) \in Nat /\ x = Gps!EndOf(d) - Gps!EndOf(c) /\ i \in Nat /\ i >= 1
    BY <1>1, <1>3, <1>10
  <2>4. F[x + i] = Gps!EndOf(d) + i
    BY <1>4, <2>2, <2>3
  <2>5. i <= t - Gps!EndOf(d) /\ t \in Nat
    BY <1>1, <1>10
  <2>6. QED
    BY <1>4, <2>3, <2>4, <2>5
<1>12. /\ Len(Gps!Rest(F)) = t - Gps!EndOf(d) /\ Len(Gps!Rest(F)) <= Len(F)
       /\ \A i \in DOMAIN Gps!Rest(F) : Gps!Rest(F)[i] = Gps!EndOf(d) + i
       /\ Gps!Rest(F) \in Seq(1 .. t)
  <2> DEFINE L == Len(F) - x
             R == [i \in 1 .. L |-> F[x + i]]
  <2>1. L \in Nat /\ L = t - Gps!EndOf(d) /\ L <= Len(F)
    BY <1>10
  <2>2. \A i \in 1 .. L : R[i] = Gps!EndOf(d) + i /\ R[i] \in 1 .. t
    BY <1>11
  <2>3. DOMAIN R = 1 .. L /\ R = [i \in 1 .. L |-> R[i]]
    OBVIOUS
  <2> HIDE DEF L, R
  <2>4. R \in Seq(1 .. t) /\ Len(R) = L
    <3>1. PICK B : B = 1 .. t
      OBVIOUS
    <3>2. R \in [1 .. L -> B] /\ L \in Nat
      BY <2>1, <2>2, <2>3, <3>1
    <3>3. R \in Seq(B) /\ Len(R) = L
      BY <3>2
    <3>4. QED
      BY <3>1, <3>3
  <2>5. Gps!Rest(F) = R
    BY <1>9 DEF R, L
  <2>6. QED
    BY <2>1, <2>2, <2>3, <2>4, <2>5
<1>13. QED
  BY <1>3, <1>6, <1>7, <1>12

(* What recv() adds: the lines that end in the piece and those complete    *)
(* before it are the complete ones.                                        *)
LEMMA PieceReceived ==
    ASSUME Gps!GpsTypeOK, Increasing, Unfinished, NEW n, Gps!CanReceive(n)
    PROVE  \E c \in 0 .. Len(stream) :
              /\ Piece(c, taken + n, Gps!Filled(n))
              /\ \A k \in Gps!Complete : k <= c
              /\ \A k : k \in DOMAIN stream /\ stream[k].end <= taken + n
                           <=> k \in Gps!Complete \/ k \in Ended(c, taken + n)
<1>1. PICK c \in 0 .. Len(stream) :
         /\ Gps!EndOf(c) <= taken
         /\ \A k \in c + 1 .. Len(stream) : taken < stream[k].end
         /\ Len(buffer) = taken - Gps!EndOf(c)
         /\ \A i \in DOMAIN buffer : buffer[i] = Gps!EndOf(c) + i
  BY DEF Unfinished
<1>2. /\ Len(stream) \in Nat /\ DOMAIN stream = 1 .. Len(stream)
      /\ \A k \in 0 .. Len(stream) : Gps!EndOf(k) \in Nat
      /\ \A k \in DOMAIN stream : stream[k].end = Gps!EndOf(k)
  BY Ends
<1>3. Gps!EndOf(c) \in Nat /\ c \in Nat
  BY <1>1, <1>2
<1>4. taken \in Nat /\ Len(buffer) \in Nat /\ buffer \in Seq(Nat)
  <2>1. Gps!Sent \in Nat
    BY <1>2 DEF Gps!Sent
  <2>2. taken \in Nat /\ buffer \in Seq(1 .. taken)
    BY <2>1 DEF Gps!GpsTypeOK
  <2>3. Len(buffer) \in Nat /\ buffer \in [1 .. Len(buffer) -> 1 .. taken]
    BY <2>2
  <2>4. buffer \in [1 .. Len(buffer) -> Nat]
    BY <2>2, <2>3
  <2>5. QED
    BY <2>2, <2>3, <2>4
<1>5. n \in Nat
  BY <1>4, InstrumentAssumption DEF Gps!CanReceive, Gps!Room
<1>6. Piece(c, taken + n, Gps!Filled(n))
  <2> DEFINE G == [i \in 1 .. n |-> taken + i]
             F == buffer \o G
  <2>1. G \in Seq(Nat) /\ Len(G) = n
    <3>1. G \in [1 .. n -> Nat]
      BY <1>4, <1>5
    <3>2. QED
      BY <1>5, <3>1
  <2>2. \A i \in 1 .. n : G[i] = taken + i
    OBVIOUS
  <2> HIDE DEF G
  <2>3. F \in Seq(Nat) /\ Len(F) = Len(buffer) + n
    BY <1>4, <1>5, <2>1
  <2>4. ASSUME NEW i \in 1 .. Len(F) PROVE F[i] = Gps!EndOf(c) + i
    <3>1. CASE i \in 1 .. Len(buffer)
      <4>1. F[i] = buffer[i] /\ i \in DOMAIN buffer
        BY <1>4, <2>1, <3>1
      <4>2. QED
        BY <1>1, <4>1
    <3>2. CASE i \in Len(buffer) + 1 .. Len(buffer) + n
      <4>1. i - Len(buffer) \in 1 .. n
        BY <1>4, <1>5, <3>2
      <4>2. F[i] = G[i - Len(buffer)]
        BY <1>4, <2>1, <3>2, <4>1
      <4>3. F[i] = taken + (i - Len(buffer))
        BY <2>2, <4>1, <4>2
      <4>4. QED
        BY <1>1, <1>3, <1>4, <3>2, <4>3
    <3>3. QED
      BY <1>4, <1>5, <2>3, <3>1, <3>2
  <2>5. taken + n \in Nat /\ Gps!EndOf(c) <= taken + n /\ Len(F) = taken + n - Gps!EndOf(c)
    BY <1>1, <1>3, <1>4, <1>5, <2>3
  <2>6. Gps!Filled(n) = F
    BY DEF Gps!Filled, G
  <2> HIDE DEF F
  <2>7. PICK t : t = taken + n
    OBVIOUS
  <2>8. Piece(c, t, F)
    <3>1. c \in 0 .. Len(stream) /\ F \in Seq(Nat) /\ \A i \in 1 .. Len(F) : F[i] = Gps!EndOf(c) + i
      BY <1>1, <2>3, <2>4
    <3>2. t \in Nat /\ Gps!EndOf(c) <= t /\ Len(F) = t - Gps!EndOf(c)
      BY <1>3, <1>4, <1>5, <2>5, <2>7
    <3>3. QED
      BY <3>1, <3>2 DEF Piece
  <2>9. QED
    BY <2>6, <2>7, <2>8
<1>7. ASSUME NEW k \in DOMAIN stream PROVE k <= c <=> stream[k].end <= taken
  <2>1. /\ k \in 0 .. Len(stream) /\ k \in Nat /\ Gps!EndOf(k) = stream[k].end
        /\ Gps!EndOf(k) \in Nat
    BY <1>2
  <2>2. CASE k <= c
    <3>1. Gps!EndOf(k) <= Gps!EndOf(c)
      BY <1>1, <2>1, <2>2, EndsOrder
    <3>2. QED
      BY <1>1, <1>3, <1>4, <2>1, <2>2, <3>1
  <2>3. CASE ~(k <= c)
    <3>1. k \in c + 1 .. Len(stream)
      BY <1>2, <1>3, <2>1, <2>3
    <3>2. QED
      BY <1>1, <1>4, <2>1, <2>3, <3>1
  <2>4. QED
    BY <2>2, <2>3
<1>8. \A k \in Gps!Complete : k <= c
  BY <1>7 DEF Gps!Complete
<1>9. ASSUME NEW k \in DOMAIN stream
      PROVE  stream[k].end <= taken + n <=> k \in Gps!Complete \/ k \in Ended(c, taken + n)
  <2>1. stream[k].end \in Nat /\ k \in Nat
    BY <1>2
  <2>2. QED
    BY <1>3, <1>4, <1>5, <1>7, <2>1 DEF Gps!Complete, Ended
<1>10. QED
  BY <1>1, <1>6, <1>8, <1>9 DEF Gps!Complete, Ended

(* A step of the GPS client. *)
LEMMA GpsStages ==
    ASSUME TypeOK, Stages, GetPosition
    PROVE  /\ action' = "gps" /\ pc' \in {"recv", "done"}
           /\ pc' # "done" => status' = "none" /\ outLen' = 0
           /\ status' \in {"none", "success", "error", "not_supported"}
           /\ outLen' \in Nat
BY DEF TypeOK, Stages, GetPosition, Gps!GpsNext, Gps!ConnectFails, Gps!Watch, Gps!GpsdSends,
       Gps!StopReceiving, Gps!ReceiveTpv, Gps!ReceiveOther, Gps!NotePolls, Gps!CanReceive

(* gpsd sends one more line, behind all that was received. *)
LEMMA LineSent ==
    ASSUME TypeOK, GpsInv, GetPosition, Gps!GpsdSends
    PROVE  Gps!GpsTypeOK' /\ GpsInv'
<1>1. /\ Gps!GpsTypeOK /\ Increasing /\ Unfinished /\ Noted
      /\ stream \in Seq([kind : Gps!Kinds, end : Nat]) /\ Len(stream) <= MaxReports
      /\ \A k \in DOMAIN stream : stream[k].end - Gps!EndOf(k - 1) \in Lengths
      /\ taken \in 0 .. Gps!Sent /\ position \in 0 .. Len(stream)
      /\ buffer \in Seq(1 .. taken) /\ Len(buffer) < Cap /\ sawPoll \in BOOLEAN
  BY DEF TypeOK, GpsInv, GetPosition, Gps!GpsdSends, Gps!GpsTypeOK
<1>2. PICK kind \in Gps!Kinds, length \in Lengths :
         stream' = Append(stream, [kind |-> kind, end |-> Gps!Sent + length])
  BY DEF Gps!GpsdSends
<1>3. /\ pc = "recv" /\ pc' = "recv" /\ action' = action /\ Len(stream) < MaxReports
      /\ UNCHANGED <<taken, buffer, position, sawPoll>>
  BY DEF Gps!GpsdSends, GetPosition
<1>4. /\ Len(stream) \in Nat /\ DOMAIN stream = 1 .. Len(stream)
      /\ \A k \in 0 .. Len(stream) : Gps!EndOf(k) \in Nat /\ Gps!EndOf(k) <= Gps!Sent
      /\ \A k \in DOMAIN stream : stream[k].end = Gps!EndOf(k)
      /\ Gps!Sent \in Nat
  <2>1. Len(stream) \in Nat /\ Len(stream) \in 0 .. Len(stream)
    BY <1>1, Ends
  <2>2. QED
    BY <1>1, <2>1, Ends DEF Gps!Sent
<1>5. length \in Nat /\ length > 0 /\ taken \in Nat /\ taken <= Gps!Sent
  BY <1>1, <1>2, <1>4, InstrumentAssumption
<1>6. PICK n : n = Len(stream) + 1
  OBVIOUS
<1>7. PICK r \in [kind : Gps!Kinds, end : Nat] :
         r.end = Gps!Sent + length /\ stream' = Append(stream, r)
  BY <1>2, <1>4, <1>5
<1>8. /\ n \in Nat /\ n # 0 /\ n - 1 = Len(stream) /\ DOMAIN stream' = 1 .. n /\ Len(stream') = n
      /\ stream' \in Seq([kind : Gps!Kinds, end : Nat])
      /\ stream'[n] = r /\ \A k \in DOMAIN stream : stream'[k] = stream[k]
  <2>1. PICK R : R = [kind : Gps!Kinds, end : Nat]
    OBVIOUS
  <2>2. stream \in Seq(R) /\ r \in R
    BY <1>1, <2>1
  <2>3. /\ DOMAIN stream' = 1 .. Len(stream) + 1 /\ Len(stream') = Len(stream) + 1
        /\ stream' \in Seq(R)
        /\ stream'[Len(stream) + 1] = r /\ \A k \in DOMAIN stream : stream'[k] = stream[k]
    BY <1>7, <2>2
  <2>4. QED
    BY <1>4, <1>6, <2>1, <2>3
<1>9. /\ \A k \in 0 .. Len(stream) : Gps!EndOf(k)' = Gps!EndOf(k)
      /\ Gps!EndOf(n)' = Gps!Sent + length /\ Gps!Sent' = Gps!Sent + length
  BY <1>4, <1>7, <1>8 DEF Gps!EndOf, Gps!Sent
<1>10. ASSUME NEW k \in DOMAIN stream'
       PROVE  \/ k \in DOMAIN stream /\ stream'[k] = stream[k]
              \/ k = n /\ stream'[k].end = Gps!Sent + length /\ taken < stream'[k].end
  <2>1. k \in DOMAIN stream \/ k = n
    BY <1>4, <1>8
  <2>2. QED
    BY <1>4, <1>5, <1>7, <1>8, <2>1
<1>11. Gps!GpsTypeOK'
  <2>1. ASSUME NEW k \in DOMAIN stream'
        PROVE  stream'[k].end - Gps!EndOf(k - 1)' \in Lengths
    <3>1. CASE k \in DOMAIN stream /\ stream'[k] = stream[k]
      <4>1. k - 1 \in 0 .. Len(stream)
        BY <1>4, <3>1
      <4>2. QED
        BY <1>1, <1>9, <3>1, <4>1
    <3>2. CASE k = n /\ stream'[k].end = Gps!Sent + length
      <4>1. Gps!EndOf(k - 1)' = Gps!Sent
        BY <1>4, <1>8, <1>9, <3>2 DEF Gps!Sent
      <4>2. Gps!Sent + length - Gps!Sent = length
        BY <1>4, <1>5
      <4>3. stream'[k].end - Gps!EndOf(k - 1)' = length
        BY <1>4, <1>5, <3>2, <4>1, <4>2
      <4>4. QED
        BY <1>2, <4>3
    <3>3. QED
      BY <1>10, <3>1, <3>2
  <2>2. Len(stream') <= MaxReports
    BY <1>3, <1>4, <1>6, <1>8, InstrumentAssumption
  <2>3. taken' \in 0 .. Gps!Sent' /\ position' \in 0 .. Len(stream')
    BY <1>1, <1>3, <1>4, <1>5, <1>8, <1>9
  <2>4. buffer' \in Seq(1 .. taken') /\ Len(buffer') < Cap /\ sawPoll' \in BOOLEAN
    BY <1>1, <1>3
  <2>5. QED
    BY <1>8, <2>1, <2>2, <2>3, <2>4 DEF Gps!GpsTypeOK
<1>12. Increasing'
  <2>1. ASSUME NEW j \in DOMAIN stream', NEW k \in DOMAIN stream', j < k
        PROVE  stream'[j].end < stream'[k].end
    <3>1. CASE j \in DOMAIN stream /\ k \in DOMAIN stream
      BY <1>1, <1>8, <2>1, <3>1 DEF Increasing
    <3>2. CASE j \in DOMAIN stream /\ k = n
      BY <1>4, <1>5, <1>7, <1>8, <3>2
    <3>3. CASE j = n
      BY <1>8, <2>1, <3>3
    <3>4. QED
      BY <1>10, <2>1, <3>1, <3>2, <3>3
  <2>2. QED
    BY <2>1 DEF Increasing
<1>13. Unfinished'
  <2>1. PICK c \in 0 .. Len(stream) :
           /\ Gps!EndOf(c) <= taken
           /\ \A k \in c + 1 .. Len(stream) : taken < stream[k].end
           /\ Len(buffer) = taken - Gps!EndOf(c)
           /\ \A i \in DOMAIN buffer : buffer[i] = Gps!EndOf(c) + i
    BY <1>1 DEF Unfinished
  <2>2. c \in 0 .. Len(stream') /\ Gps!EndOf(c)' = Gps!EndOf(c)
    BY <1>4, <1>8, <1>9, <2>1
  <2>3. ASSUME NEW k \in c + 1 .. Len(stream') PROVE taken < stream'[k].end
    <3>1. (k \in c + 1 .. Len(stream) /\ k \in DOMAIN stream) \/ k = n
      BY <1>4, <1>8, <2>1
    <3>2. QED
      BY <1>8, <1>10, <2>1, <3>1
  <2>4. QED
    BY <1>3, <2>1, <2>2, <2>3 DEF Unfinished
<1>14. Noted'
  <2>1. Gps!Complete' = Gps!Complete
    <3>1. \A k : k \in Gps!Complete' <=> k \in Gps!Complete
      BY <1>3, <1>4, <1>5, <1>8, <1>10 DEF Gps!Complete
    <3>2. QED
      BY <3>1
  <2>2. ASSUME NEW kinds PROVE Gps!Answers(kinds)' = Gps!Answers(kinds)
    <3>1. \A k \in Gps!Complete : stream'[k] = stream[k]
      BY <1>8 DEF Gps!Complete
    <3>2. QED
      BY <2>1, <3>1 DEF Gps!Answers
  <2>3. QED
    BY <1>1, <1>3, <2>2 DEF Noted, Gps!TpvKinds, Gps!PollKinds
<1>15. QED
  BY <1>3, <1>11, <1>12, <1>13, <1>14 DEF GpsInv

(* recv() returns a piece: what is answered in it, and what is kept.       *)
LEMMA PieceTaken ==
    ASSUME TypeOK, GpsInv, GetPosition, NEW n \in 1 .. Cap, Gps!ReceiveTpv(n) \/ Gps!ReceiveOther(n)
    PROVE  Gps!GpsTypeOK' /\ GpsInv'
<1>1. /\ Gps!GpsTypeOK /\ Increasing /\ Unfinished /\ Noted /\ Gps!CanReceive(n)
      /\ action = "gps" /\ action' = "gps" /\ stream' = stream
      /\ taken \in 0 .. Gps!Sent /\ taken' = taken + n /\ taken + n <= Gps!Sent
  BY DEF TypeOK, GpsInv, GetPosition, Gps!ReceiveTpv, Gps!ReceiveOther, Gps!GpsTypeOK,
         Gps!CanReceive
<1>2. PICK t : t = taken + n
  OBVIOUS
<1>3. PICK F : F = Gps!Filled(n)
  OBVIOUS
<1>4. PICK c \in 0 .. Len(stream) :
         /\ Piece(c, t, F)
         /\ \A k \in Gps!Complete : k <= c
         /\ \A k : k \in DOMAIN stream /\ stream[k].end <= t
                      <=> k \in Gps!Complete \/ k \in Ended(c, t)
  BY <1>1, <1>2, <1>3, PieceReceived
<1>5. /\ Len(stream) \in Nat /\ DOMAIN stream = 1 .. Len(stream) /\ t \in Nat
      /\ Gps!Sent \in Nat /\ taken \in Nat /\ Len(F) \in Nat /\ c \in Nat
  <2>1. Len(stream) \in Nat /\ DOMAIN stream = 1 .. Len(stream) /\ Gps!EndOf(Len(stream)) \in Nat
    BY <1>1, Ends
  <2>2. Gps!Sent \in Nat /\ t \in Nat /\ Len(F) \in Nat
    BY <1>4, <2>1, NewlinesAt DEF Piece, Gps!Sent
  <2>3. QED
    BY <1>1, <1>4, <2>1, <2>2
<1>6. ASSUME NEW kinds
      PROVE  Gps!Answers(kinds)' = Gps!Answers(kinds) \cup Received(c, t, kinds)
  BY <1>1, <1>2, <1>4 DEF Gps!Answers, Gps!Complete, Received, Ended
<1>7. ASSUME NEW kinds, NEW j \in Gps!Answers(kinds), NEW k \in Ended(c, t)
      PROVE  j \in Nat /\ k \in 1 .. Len(stream) /\ j <= k
  <2>1. j \in Gps!Complete /\ j \in DOMAIN stream /\ k \in DOMAIN stream /\ c < k
    BY <1>7 DEF Gps!Answers, Gps!Complete, Ended
  <2>2. QED
    BY <1>4, <1>5, <2>1
<1>8. \A k \in Ended(c, t) : k \in 1 .. Len(stream)
  BY <1>5 DEF Ended
<1>9. Increasing' /\ \A k : Gps!EndOf(k)' = Gps!EndOf(k)
  BY <1>1 DEF Increasing, Gps!EndOf
<1>10. Gps!Sent' = Gps!Sent /\ taken' \in 0 .. Gps!Sent'
  BY <1>1, <1>2, <1>5 DEF Gps!Sent, Gps!EndOf
<1>11. CASE Gps!ReceiveTpv(n)
  <2> DEFINE found == Gps!Matches(F, Gps!TpvKinds)
             lines == Received(c, t, Gps!TpvKinds)
  <2>1. /\ pc' = "done" /\ status' = "success" /\ UNCHANGED <<buffer, sawPoll>>
        /\ found # {} /\ position' = Gps!LineOf(F[Gps!Min(found)])
    BY <1>3, <1>11 DEF Gps!ReceiveTpv
  <2>2. position' \in lines /\ \A k \in lines : position' <= k
    BY <1>4, <2>1, MatchesAt
  <2>3. Gps!Answers(Gps!TpvKinds)' = lines
    BY <1>1, <1>6 DEF Noted
  <2>4. position' \in 0 .. Len(stream)
    BY <1>5, <1>8, <2>2 DEF Received
  <2>5. buffer' \in Seq(1 .. taken') /\ Len(buffer') < Cap /\ sawPoll' \in BOOLEAN
    <3>1. buffer \in Seq(1 .. taken) /\ Len(buffer) < Cap /\ sawPoll \in BOOLEAN
      BY <1>1 DEF Gps!GpsTypeOK
    <3>2. Len(buffer) \in Nat /\ buffer \in [1 .. Len(buffer) -> 1 .. taken]
      BY <1>5, <3>1
    <3>3. 1 .. taken \subseteq 1 .. t
      BY <1>2, <1>5
    <3>4. PICK S, T : S = 1 .. taken /\ T = 1 .. t
      OBVIOUS
    <3>5. buffer \in [1 .. Len(buffer) -> T]
      BY <3>2, <3>3, <3>4
    <3>6. buffer \in Seq(T)
      BY <3>2, <3>5
    <3>7. QED
      BY <1>1, <1>2, <2>1, <3>1, <3>4, <3>6
  <2>6. Gps!GpsTypeOK'
    BY <1>1, <1>9, <1>10, <2>4, <2>5 DEF Gps!GpsTypeOK
  <2>7. GpsInv'
    BY <1>9, <2>1, <2>2, <2>3 DEF GpsInv
  <2>8. QED
    BY <2>6, <2>7
<1>12. CASE Gps!ReceiveOther(n)
  <2> DEFINE polls == Gps!Matches(F, Gps!PollKinds)
             lines == Received(c, t, Gps!PollKinds)
  <2>1. /\ UNCHANGED <<pc, status, outLen>> /\ pc = "recv" /\ buffer' = Gps!Rest(F)
        /\ Gps!Matches(F, Gps!TpvKinds) = {}
        /\ sawPoll' = (sawPoll \/ polls # {})
        /\ position' = IF polls = {} THEN position ELSE Gps!LineOf(F[Gps!Max(polls)])
    BY <1>3, <1>12 DEF Gps!ReceiveOther, Gps!NotePolls, Gps!CanReceive
  <2>2. /\ polls = {} <=> lines = {}
        /\ polls # {} => position' \in lines /\ \A k \in lines : k <= position'
    BY <1>4, <2>1, MatchesAt
  <2>3. Gps!Answers(Gps!TpvKinds)' = {}
    BY <1>1, <1>4, <1>6, <2>1, MatchesAt DEF Noted
  <2>4. Gps!Answers(Gps!PollKinds)' = Gps!Answers(Gps!PollKinds) \cup lines
    BY <1>6
  <2>5. /\ sawPoll \in BOOLEAN /\ position \in 0 .. Len(stream)
        /\ sawPoll <=> Gps!Answers(Gps!PollKinds) # {}
        /\ Gps!Answers(Gps!PollKinds) = {} => position = 0
        /\ Gps!Answers(Gps!PollKinds) # {} =>
              /\ position \in Gps!Answers(Gps!PollKinds)
              /\ \A k \in Gps!Answers(Gps!PollKinds) : k <= position
    BY <1>1 DEF Noted, Gps!GpsTypeOK
  <2>6. lines \subseteq Ended(c, t)
    BY DEF Received
  <2> HIDE DEF polls, lines
  <2>7. position' \in 0 .. Len(stream) /\ sawPoll' \in BOOLEAN
    <3>1. CASE polls = {}
      BY <2>1, <2>5, <3>1
    <3>2. CASE polls # {}
      BY <1>5, <1>8, <2>1, <2>2, <2>6, <3>2
    <3>3. QED
      BY <3>1, <3>2
  <2>8. Noted'
    <3>1. sawPoll' <=> Gps!Answers(Gps!PollKinds)' # {}
      BY <2>1, <2>2, <2>4, <2>5
    <3>2. Gps!Answers(Gps!PollKinds)' = {} => position' = 0
      BY <2>1, <2>2, <2>4, <2>5
    <3>3. Gps!Answers(Gps!PollKinds)' # {} =>
             /\ position' \in Gps!Answers(Gps!PollKinds)'
             /\ \A k \in Gps!Answers(Gps!PollKinds)' : k <= position'
      <4>1. CASE polls = {}
        BY <2>1, <2>2, <2>4, <2>5, <4>1
      <4>2. CASE polls # {}
        BY <1>7, <2>2, <2>4, <2>6, <4>2
      <4>3. QED
        BY <4>1, <4>2
    <3>4. QED
      BY <2>3, <3>1, <3>2, <3>3 DEF Noted
  <2>9. PICK d \in 0 .. Len(stream) :
           /\ Gps!EndOf(d) <= t /\ \A k \in d + 1 .. Len(stream) : t < stream[k].end
           /\ Len(buffer') = t - Gps!EndOf(d) /\ Len(buffer') <= Len(F)
           /\ \A i \in DOMAIN buffer' : buffer'[i] = Gps!EndOf(d) + i
           /\ buffer' \in Seq(1 .. t)
    BY <1>4, <2>1, RestBegins
  <2>10. Unfinished'
    BY <1>1, <1>2, <1>9, <2>9 DEF Unfinished
  <2>11. Len(F) < Cap
    <3>1. n <= Cap - Len(buffer) - 1 /\ buffer \in Seq(1 .. taken)
      BY <1>1 DEF Gps!CanReceive, Gps!Room, Gps!GpsTypeOK
    <3>2. Len(buffer) \in Nat
      BY <3>1
    <3>3. Len(F) = Len(buffer) + n
      <4> DEFINE G == [i \in 1 .. n |-> taken + i]
      <4>1. G \in [1 .. n -> Nat] /\ n \in Nat
        BY <1>5
      <4>2. G \in Seq(Nat) /\ Len(G) = n
        BY <4>1
      <4>3. F = buffer \o G
        BY <1>3 DEF Gps!Filled
      <4> HIDE DEF G
      <4>4. PICK S : buffer \in Seq(S)
        BY <3>1
      <4>5. PICK T : G \in Seq(T)
        BY <4>2
      <4>6. Len(buffer \o G) = Len(buffer) + Len(G)
        BY <4>4, <4>5
      <4>7. QED
        BY <4>2, <4>3, <4>6
    <3>4. QED
      BY <3>1, <3>2, <3>3, InstrumentAssumption
  <2>12. Gps!GpsTypeOK'
    <3>1. buffer' \in Seq(1 .. taken')
      BY <1>1, <1>2, <2>9
    <3>2. Len(buffer') < Cap
      <4>1. Len(buffer') \in Nat
        BY <3>1
      <4>2. QED
        BY <1>5, <2>9, <2>11, <4>1, InstrumentAssumption
    <3>3. QED
      BY <1>1, <1>9, <1>10, <2>7, <3>1, <3>2 DEF Gps!GpsTypeOK
  <2>13. QED
    BY <1>9, <2>1, <2>8, <2>10, <2>12 DEF GpsInv
<1>13. QED
  BY <1>11, <1>12

LEMMA GpsStep ==
    ASSUME TypeOK, Stages, GpsInv, GetPosition
    PROVE  Gps!GpsTypeOK' /\ GpsInv'
<1>1. CASE Gps!GpsdSends
  BY <1>1, LineSent
<1>2. CASE \E n \in 1 .. Cap : Gps!ReceiveTpv(n) \/ Gps!ReceiveOther(n)
  BY <1>2, PieceTaken
<1>3. CASE Gps!ConnectFails \/ Gps!Watch \/ Gps!StopReceiving
  <2>1. UNCHANGED gpsVars /\ action' = "gps" /\ action = "gps" /\ Gps!GpsTypeOK /\ Increasing
    BY <1>3 DEF GetPosition, Gps!ConnectFails, Gps!Watch, Gps!StopReceiving, TypeOK, GpsInv
  <2>2. Gps!GpsTypeOK'
    BY <2>1, SameGps
  <2>3. Increasing' /\ (Unfinished => Unfinished') /\ (Noted => Noted')
    BY <2>1
    DEF Increasing, Unfinished, Noted, Gps!EndOf, Gps!Answers, Gps!Complete
  <2>4. CASE Gps!ConnectFails
    <3>1. pc' = "done" /\ outLen' = 0
      BY <2>4 DEF Gps!ConnectFails, Stages
    <3>2. QED
      BY <2>2, <2>3, <3>1 DEF GpsInv
  <2>5. CASE Gps!Watch
    <3>1. pc' = "recv" /\ Gps!GpsInit
      BY <2>5 DEF Gps!Watch, Stages
    <3>2. Unfinished /\ Noted
      BY <3>1
      DEF Unfinished, Noted, Gps!GpsInit, Gps!EndOf, Gps!Answers, Gps!Complete
    <3>3. QED
      BY <2>2, <2>3, <3>1, <3>2 DEF GpsInv
  <2>6. CASE Gps!StopReceiving
    <3>1. Noted /\ pc' = "done" /\ status' = IF sawPoll THEN "success" ELSE "error"
      BY <2>1, <2>6 DEF Gps!StopReceiving, GpsInv
    <3>2. Noted' /\ status' = IF sawPoll' THEN "success" ELSE "error"
      BY <2>1, <2>3, <3>1
    <3>3. QED
      BY <2>2, <2>3, <3>1, <3>2 DEF GpsInv
  <2>7. QED
    BY <1>3, <2>4, <2>5, <2>6, <2>2
<1>4. QED
  BY <1>1, <1>2, <1>3 DEF GetPosition, Gps!GpsNext

(* What the client answers. *)
LEMMA GpsAnswers ==
    ASSUME TypeOK, GpsInv
    PROVE  PositionFound
<1> DEFINE tpvs == Gps!Answers(Gps!TpvKinds)
           polls == Gps!Answers(Gps!PollKinds)
<1> SUFFICES ASSUME action = "gps", pc = "done", outLen = 1
             PROVE  IF tpvs # {} THEN status = "success" /\ position = Gps!Min(tpvs)
                    ELSE IF polls # {} THEN status = "success" /\ position = Gps!Max(polls)
                    ELSE status = "error" /\ position = 0
  BY DEF PositionFound, Gps!Answered
<1>1. DOMAIN stream = 1 .. Len(stream) /\ Len(stream) \in Nat
  BY Ends DEF GpsInv, TypeOK
<1>2. tpvs \in SUBSET (0 .. Len(stream)) /\ polls \in SUBSET (0 .. Len(stream))
  BY <1>1 DEF Gps!Answers, Gps!Complete
<1>3. CASE Noted /\ status = IF sawPoll THEN "success" ELSE "error"
  <2>1. /\ tpvs = {} /\ (sawPoll <=> polls # {}) /\ (polls = {} => position = 0)
        /\ polls # {} => position \in polls /\ \A k \in polls : k <= position
    BY <1>3 DEF Noted
  <2> HIDE DEF tpvs, polls
  <2>2. polls # {} => position = Gps!Max(polls)
    BY <1>1, <1>2, <2>1, GreatestIs
  <2>3. QED
    BY <1>3, <2>1, <2>2
<1>4. CASE status = "success" /\ position \in tpvs /\ \A k \in tpvs : position <= k
  <2> HIDE DEF tpvs, polls
  <2>1. tpvs \in SUBSET Nat /\ tpvs # {}
    BY <1>1, <1>2, <1>4
  <2>2. Gps!Min(tpvs) \in tpvs /\ Gps!Min(tpvs) <= position /\ position <= Gps!Min(tpvs)
    BY <1>4, <2>1, LeastNumber
  <2>3. Gps!Min(tpvs) \in Nat /\ position \in Nat
    BY <1>4, <2>1, <2>2
  <2>4. position = Gps!Min(tpvs)
    BY <2>2, <2>3
  <2>5. QED
    BY <1>4, <2>4
<1>5. QED
  BY <1>3, <1>4 DEF GpsInv
-----------------------------------------------------------------------------
(* A step of one of the three leaves the others where they were. *)
LEMMA OthersStay ==
    ASSUME TypeOK, IInv
    PROVE  /\ UNCHANGED bluezVars /\ action' # "bluetooth" => TableInv' /\ DevicesInv'
           /\ UNCHANGED wifiVars /\ action' # "wifi" => NetworksInv'
           /\ UNCHANGED gpsVars /\ action' # "gps" => GpsInv'
<1>1. ASSUME UNCHANGED bluezVars, action' # "bluetooth" PROVE TableInv' /\ DevicesInv'
  <2>1. TableInv'
    BY <1>1, SameBluez DEF IInv
  <2>2. DevicesInv'
    BY <1>1 DEF IInv, DevicesInv, Enriched
  <2>3. QED
    BY <2>1, <2>2
<1>2. ASSUME UNCHANGED wifiVars, action' # "wifi" PROVE NetworksInv'
  BY <1>2 DEF IInv, NetworksInv, Wifi!Kept, Wifi!Rank
<1>3. ASSUME UNCHANGED gpsVars, action' # "gps" PROVE GpsInv'
  BY <1>3 DEF IInv, GpsInv, Increasing
<1>4. QED
  BY <1>1, <1>2, <1>3

(* The stacks are empty before a call and after it. *)
LEMMA Empty ==
    /\ Bluez!BluezInit => Bluez!BluezTypeOK /\ TableInv
    /\ Wifi!WifiInit => Wifi!WifiTypeOK /\ Len(networks) = Cardinality(Wifi!Kept)
                        /\ Wifi!Kept = {}
    /\ Gps!GpsInit => Gps!GpsTypeOK /\ Increasing
<1> USE InstrumentAssumption
<1>1. ASSUME Bluez!BluezInit PROVE Bluez!BluezTypeOK /\ TableInv
  <2>1. Bluez!BluezTypeOK
    BY <1>1 DEF Bluez!BluezInit, Bluez!BluezTypeOK
  <2>2. TableInv
    BY <1>1 DEF Bluez!BluezInit, TableInv, Bluez!InOrder, Bluez!FirstLines
  <2>3. QED
    BY <2>1, <2>2
<1>2. ASSUME Wifi!WifiInit
      PROVE  Wifi!WifiTypeOK /\ Len(networks) = Cardinality(Wifi!Kept) /\ Wifi!Kept = {}
  <2>1. Wifi!Kept = {} /\ Len(networks) = 0
    BY <1>2 DEF Wifi!WifiInit, Wifi!Kept
  <2>2. Wifi!WifiTypeOK
    BY <1>2 DEF Wifi!WifiInit, Wifi!WifiTypeOK
  <2>3. QED
    BY <2>1, <2>2, FS_EmptySet
<1>3. ASSUME Gps!GpsInit PROVE Gps!GpsTypeOK /\ Increasing
  <2>1. stream = <<>> /\ taken = 0 /\ buffer = <<>> /\ position = 0 /\ sawPoll = FALSE
    BY <1>3 DEF Gps!GpsInit
  <2>2. Gps!Sent = 0 /\ Len(stream) = 0 /\ Len(buffer) = 0 /\ DOMAIN stream = {}
    BY <2>1 DEF Gps!Sent, Gps!EndOf
  <2>3. Increasing
    BY <2>2 DEF Increasing
  <2>4. stream \in Seq([kind : Gps!Kinds, end : Nat]) /\ buffer \in Seq(1 .. taken)
    BY <2>1
  <2>5. MaxReports \in Nat /\ Cap \in Nat /\ 0 < Cap
    BY InstrumentAssumption
  <2>6. Len(stream) <= MaxReports /\ Len(buffer) < Cap
    BY <2>2, <2>5
  <2>7. taken \in 0 .. Gps!Sent /\ position \in 0 .. Len(stream) /\ sawPoll \in BOOLEAN
    <3>1. 0 \in 0 .. 0 /\ FALSE \in BOOLEAN
      OBVIOUS
    <3>2. QED
      BY <2>1, <2>2, <3>1, Zenon
  <2>8. Gps!GpsTypeOK
    BY <2>2, <2>4, <2>6, <2>7 DEF Gps!GpsTypeOK
  <2>9. QED
    BY <2>3, <2>8
<1>4. QED
  BY <1>1, <1>2, <1>3

LEMMA Initially == Init => IInv
<1> SUFFICES ASSUME Init PROVE IInv
  OBVIOUS
<1>1. TypeOK /\ Stages /\ TableInv
  BY Empty DEF Init, TypeOK, Stages
<1>2. DevicesInv
  BY DEF Init, Bluez!BluezInit, DevicesInv
<1>3. NetworksInv
  BY Empty DEF Init, NetworksInv
<1>4. GpsInv
  BY Empty DEF Init, GpsInv
<1>5. QED
  BY <1>1, <1>2, <1>3, <1>4 DEF IInv

LEMMA Inductive == IInv /\ [Next]_vars => IInv'
<1> SUFFICES ASSUME IInv, [Next]_vars PROVE IInv'
  OBVIOUS
<1> USE DEF IInv
<1>1. CASE \E a \in {"bluetooth", "wifi", "gps"} : Dispatch(a)
  <2>1. PICK a \in {"bluetooth", "wifi", "gps"} : Dispatch(a)
    BY <1>1
  <2>2. /\ pc = "idle" /\ action = "none"
        /\ action' = a /\ pc' = "start" /\ status' = "none" /\ outLen' = 0
        /\ UNCHANGED <<bluezVars, wifiVars, gpsVars>>
    BY <2>1 DEF Dispatch, TypeOK
  <2>3. Bluez!BluezInit /\ Wifi!WifiInit /\ Gps!GpsInit
    BY <2>2 DEF Stages
  <2>4. Bluez!BluezInit' /\ Wifi!WifiInit' /\ Gps!GpsInit'
    BY <2>2, <2>3, SameBluez, SameWifi, SameGps
  <2>5. TypeOK' /\ Stages'
    BY <2>2, <2>4, SameBluez, SameWifi, SameGps DEF TypeOK, Stages
  <2>6. TableInv' /\ DevicesInv'
    BY <2>2, <2>3, <2>4, SameBluez DEF DevicesInv, Bluez!BluezInit
  <2>7. NetworksInv'
    BY <2>2 DEF NetworksInv, Wifi!Kept, Wifi!Rank
  <2>8. GpsInv'
    BY <2>2 DEF GpsInv, Increasing
  <2>9. QED
    BY <2>5, <2>6, <2>7, <2>8
<1>2. CASE DiscoverBluetooth
  <2>1. Bluez!BluezTypeOK' /\ TableInv' /\ DevicesInv'
    BY <1>2, BluezStep
  <2>2. UNCHANGED <<wifiVars, gpsVars>> /\ action = "bluetooth"
    BY <1>2 DEF DiscoverBluetooth
  <2>3. NetworksInv' /\ GpsInv'
    BY <1>2, <2>2, BluezStages, OthersStay
  <2>4. TypeOK' /\ Stages'
    BY <1>2, <2>1, <2>2, BluezStages, SameWifi, SameGps DEF TypeOK, Stages
  <2>5. QED
    BY <2>1, <2>3, <2>4
<1>3. CASE DiscoverWifi
  <2>1. Wifi!WifiTypeOK' /\ NetworksInv'
    BY <1>3, WifiStep
  <2>2. UNCHANGED <<bluezVars, gpsVars>> /\ action = "wifi"
    BY <1>3 DEF DiscoverWifi
  <2>3. TableInv' /\ DevicesInv' /\ GpsInv'
    BY <1>3, <2>2, WifiStages, OthersStay
  <2>4. TypeOK' /\ Stages'
    BY <1>3, <2>1, <2>2, WifiStages, SameBluez, SameGps DEF TypeOK, Stages
  <2>5. QED
    BY <2>1, <2>3, <2>4
<1>4. CASE GetPosition
  <2>1. Gps!GpsTypeOK' /\ GpsInv'
    BY <1>4, GpsStep
  <2>2. UNCHANGED <<bluezVars, wifiVars>> /\ action = "gps"
    BY <1>4 DEF GetPosition
  <2>3. TableInv' /\ DevicesInv' /\ NetworksInv'
    BY <1>4, <2>2, GpsStages, OthersStay
  <2>4. TypeOK' /\ Stages'
    BY <1>4, <2>1, <2>2, GpsStages, SameBluez, SameWifi DEF TypeOK, Stages
  <2>5. QED
    BY <2>1, <2>3, <2>4
<1>5. CASE Return
  <2>1. Init'
    BY <1>5 DEF Return, Init, Bluez!BluezInit, Wifi!WifiInit, Gps!GpsInit
  <2>2. QED
    BY <2>1, Initially, PTL
<1>6. CASE UNCHANGED vars
  <2>1. TypeOK' /\ Stages' /\ TableInv'
    BY <1>6, SameBluez, SameWifi, SameGps DEF TypeOK, Stages
  <2>2. DevicesInv'
    BY <1>6 DEF DevicesInv, Enriched
  <2>3. NetworksInv'
    BY <1>6 DEF NetworksInv, Wifi!Kept, Wifi!Rank
  <2>4. GpsInv'
    BY <1>6
    DEF GpsInv, Increasing, Unfinished, Noted, Gps!EndOf, Gps!Answers, Gps!Complete
  <2>5. QED
    BY <2>1, <2>2, <2>3, <2>4
<1>7. QED
  BY <1>1, <1>2, <1>3, <1>4, <1>5, <1>6 DEF Next
-----------------------------------------------------------------------------
LEMMA Invariant == Spec => []IInv
<1>1. IInv /\ [Next]_vars => IInv'
  BY Inductive
<1>2. QED
  BY Initially, <1>1, PTL DEF Spec

(* Every call keeps the limits of its tables and its buffer: the devices   *)
(* found are at most MaxDevices, as discovered[] is an array, and what is  *)
(* kept of gpsd's stream leaves room for a byte in recv_buffer.            *)
THEOREM TypeCorrect == Spec => []TypeOK
<1>1. IInv => TypeOK
  BY DEF IInv
<1>2. QED
  BY Invariant, <1>1, PTL

(* A Bluetooth scan reports the devices its outputs name, in order of      *)
(* appearance up to the limit, with the first name given to each, however  *)
(* many lines bluetoothctl prints.                                         *)
THEOREM DevicesListed == Spec => []BluetoothListed
<1>1. IInv => BluetoothListed
  BY BluezAnswers DEF IInv
<1>2. QED
  BY Invariant, <1>1, PTL

(* A Wi-Fi scan lists the networks the kernel reported, in order up to the *)
(* limit, with the SSID of the first complete SSID element: for every      *)
(* sequence of bytes, find_ssid_ie() is at no time out of step with the    *)
(* elements.                                                               *)
THEOREM NetworksListed == Spec => []WifiListed
<1>1. IInv => WifiListed
  BY WifiAnswers DEF IInv
<1>2. QED
  BY Invariant, <1>1, PTL

(* The position is the one gpsd's complete reports give, for every size of *)
(* the buffer and every way of cutting the stream into pieces.             *)
THEOREM PositionCorrect == Spec => []PositionFound
<1>1. IInv => PositionFound
  BY GpsAnswers DEF IInv
<1>2. QED
  BY Invariant, <1>1, PTL
============================================================================
