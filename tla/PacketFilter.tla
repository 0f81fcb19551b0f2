---------------------------- MODULE PacketFilter ----------------------------
(***************************************************************************)
(* Which packets the wifi driver's callback, wifi_sniffer_packet_handler,  *)
(* captures: it compares the signal strength with the RSSI filter and      *)
(* prefixes of the addresses with two address filters, the address of the  *)
(* device and the source the user asked for.  The device's address is read *)
(* once, at boot; a switch of mode gives it another interface, with        *)
(* another address.  Where an address stands in a frame depends on the     *)
(* frame's type and, for data, on two bits.  Of a captured packet the      *)
(* callback makes a pcap record.                                           *)
(*                                                                         *)
(* A frame has its addresses a1, a2 and a3 in the order they are sent.     *)
(* An address is a sequence of MacLen bytes; an address filter is one with *)
(* the number of its leading bytes that count.                             *)
(***************************************************************************)
EXTENDS PcapRecord, Sequences

CONSTANTS MacLen,       \* bytes of an address
          Bytes,        \* values of a byte
          Addresses,    \* of the device, as a station and as an access point
          RssiFilters,  \* values of rssi_filter
          Rssis         \* signal strengths of received packets

ASSUME FilterAssumption ==
    /\ MacLen \in Nat \ {0}
    /\ Addresses \subseteq [1 .. MacLen -> Bytes]
    /\ RssiFilters \subseteq -128 .. 0
    /\ Rssis \subseteq -128 .. 127

Macs    == [1 .. MacLen -> Bytes]
Filters == [addr : Macs, size : 0 .. MacLen]

(* Control frames the driver hands over: CTRL_FILTER_MASK_ALL. *)
HandledCtrl == {"BAR", "BA", "PS_POLL", "RTS", "CTS", "ACK"}
OtherCtrl   == {"TRIGGER", "WRAPPER", "CF_END", "CF_END_ACK"}

Frames(type, subtypes, ds) ==
    [type : {type}, subtype : subtypes, toDs : ds, fromDs : ds,
     a1 : Macs, a2 : Macs, a3 : Macs, rssi : Rssis, rxState : {0, 1},
     rx : Receptions]

(* The frames a driver in promiscuous mode may report. *)
Packets == Frames("MGMT", {"ANY"}, {FALSE})
           \cup Frames("DATA", {"ANY"}, BOOLEAN)
           \cup Frames("CTRL", HandledCtrl \cup OtherCtrl, {FALSE})
           \cup Frames("MISC", {"ANY"}, {FALSE})

VARIABLES address,      \* the address of the device
          own,          \* addr_own_mac, with a size of MacLen
          addr2Filter,  \* addr2_filter
          rssiFilter,   \* rssi_filter
          pkt,          \* the packet handled last
          captured,     \* whether it was captured
          record        \* the record made of it

vars == <<address, own, addr2Filter, rssiFilter, pkt, captured, record>>

ownMac == [addr |-> own, size |-> MacLen]

-----------------------------------------------------------------------------
(* Faulty variants, which the properties have to notice. *)

(* A filter of size 0 matches no address. *)
EmptyMatchesNone(addr, f) == f.size > 0 /\ \A i \in 1 .. f.size : addr[i] = f.addr[i]

(* The two bits of a data frame are mixed up. *)
SwappedDs(p) ==
    CASE p.type = "DATA" /\ p.toDs /\ ~ p.fromDs -> <<p.a3, p.a1>>
      [] p.type = "DATA" /\ p.fromDs /\ ~ p.toDs -> <<p.a2, p.a3>>
      [] p.type = "CTRL" /\ p.subtype \in {"CTS", "ACK"} -> <<p.a1, p.a1>>
      [] OTHER -> <<p.a2, p.a1>>

(* A management frame sent to the device is taken for another's. *)
OwnSourceOnly(p) ==
    CASE p.type = "MGMT" -> {p.a2, p.a3}
      [] p.type = "CTRL" /\ p.subtype = "PS_POLL" -> {p.a2}
      [] p.type = "CTRL" /\ p.subtype \in {"CTS", "ACK"} -> {p.a1}
      [] OTHER -> {p.a1, p.a2, p.a3}

-----------------------------------------------------------------------------
(* The decision *)

(* isAddrEquel: the first bytes of addr are those of the filter. *)
isAddrEquel(addr, f) == \A i \in 1 .. f.size : addr[i] = f.addr[i]

(* rssi_filter is never positive; 0 would let everything through. *)
RssiPasses(p) == rssiFilter = 0 \/ p.rssi >= rssiFilter

(* What the callback reads as the frame's source and destination: sa and   *)
(* da, or ta and ra where a frame has only those.                          *)
Parties(p) ==
    CASE p.type = "MGMT" -> <<p.a2, p.a1>>
      [] p.type = "DATA" /\ p.fromDs /\ ~ p.toDs -> <<p.a3, p.a1>>
      [] p.type = "DATA" /\ p.toDs /\ ~ p.fromDs -> <<p.a2, p.a3>>
      [] p.type = "CTRL" /\ p.subtype \in {"CTS", "ACK"} -> <<p.a1, p.a1>>
      [] OTHER -> <<p.a2, p.a1>>

(* The addresses compared with addr_own_mac.  The BSSID of a PS-Poll frame *)
(* is not among them, that of a management frame is.                       *)
OwnCandidates(p) ==
    CASE p.type = "MGMT" -> {p.a1, p.a2, p.a3}
      [] p.type = "CTRL" /\ p.subtype = "PS_POLL" -> {p.a2}
      [] OTHER -> {Parties(p)[1], Parties(p)[2]}

(* The addresses compared with the user's filter: the source, and for      *)
(* management frames the destination too.                                  *)
FilterCandidates(p) ==
    IF p.type = "MGMT" THEN {p.a2, p.a1} ELSE {Parties(p)[1]}

(* Packets that the driver could not decode are left alone. *)
Received(p) == p.type # "MISC" /\ p.rxState = 0

(* A control frame of another subtype leaves isOwnAddress and macFilter    *)
(* false.                                                                  *)
Captures(p, f) ==
    /\ Received(p)
    /\ RssiPasses(p)
    /\ p.type = "CTRL" => p.subtype \in HandledCtrl
    /\ \A a \in OwnCandidates(p) : ~ isAddrEquel(a, ownMac)
    /\ \E a \in FilterCandidates(p) : isAddrEquel(a, f)

SomeMac == CHOOSE m \in Macs : TRUE

NoPacket == [type |-> "MISC", subtype |-> "ANY", toDs |-> FALSE, fromDs |-> FALSE,
             a1 |-> SomeMac, a2 |-> SomeMac, a3 |-> SomeMac, rssi |-> -128, rxState |-> 1,
             rx |-> [sig_len |-> 14, timestamp |-> 0]]

NoRecord == [ts_sec |-> 0, ts_usec |-> 0, incl_len |-> 0, orig_len |-> 0]

(* setup reads the address of the interface there is at boot.  Without one *)
(* addr_own_mac is what was on the stack.                                  *)
Init ==
    /\ address \in Addresses
    /\ own \in Macs
    /\ addr2Filter \in Filters
    /\ rssiFilter \in RssiFilters
    /\ pkt = NoPacket
    /\ captured = FALSE
    /\ record = NoRecord

(* The callback keeps nothing from one packet to the next but the filters, *)
(* so one packet for each filter is enough.                                *)
wifi_sniffer_packet_handler ==
    /\ pkt = NoPacket
    /\ \E p \in Packets :
         /\ pkt' = p
         /\ captured' = Captures(p, addr2Filter)
         /\ record' = IF captured' THEN capture_create_pcap_record(p.rx) ELSE NoRecord
    /\ UNCHANGED <<address, own, addr2Filter, rssiFilter>>

(* wifi_ap or wifi_sta makes another interface; addr_own_mac stays.        *)
SwitchMode ==
    /\ pkt = NoPacket
    /\ address' \in Addresses
    /\ UNCHANGED <<own, addr2Filter, rssiFilter, pkt, captured, record>>

Next == wifi_sniffer_packet_handler \/ SwitchMode

Spec == Init /\ [][Next]_vars

-----------------------------------------------------------------------------
(* Properties *)

(* The addresses of a data frame as 802.11 defines them by its two bits,   *)
(* for frames of at most three addresses.                                  *)
Source(p)      == IF p.fromDs THEN p.a3 ELSE p.a2
Destination(p) == IF p.toDs THEN p.a3 ELSE p.a1

(* The user's filter with its first n bytes only. *)
Shortened(n) == [addr2Filter EXCEPT !.size = n]

Matches(addr, f) == SubSeq(addr, 1, f.size) = SubSeq(f.addr, 1, f.size)

(* A data frame between a station and an access point, or between two      *)
(* stations, is captured exactly when it was received, is as strong as the *)
(* filter, has a source the filter matches and is neither from nor to the  *)
(* address the device had at boot (wifi_sniffer.c:283-301).                *)
DataBySource ==
    pkt.type = "DATA" /\ ~ (pkt.toDs /\ pkt.fromDs) =>
        (captured <=> /\ pkt.rxState = 0
                      /\ pkt.rssi >= rssiFilter
                      /\ Matches(Source(pkt), addr2Filter)
                      /\ Source(pkt) # own
                      /\ Destination(pkt) # own)

(* While the device has the address it had at boot, no frame that it sends *)
(* or that is addressed to it is captured, else the capture would carry    *)
(* the TCP stream that carries the capture; but for a PS-Poll that a       *)
(* station sends to the device, of which only the sender is compared.      *)
(* Of a relayed frame with four addresses it is the relays that are meant. *)
(* After a switch of mode the device has another address, which nothing is *)
(* compared with (main.c:333-339, wifi_sniffer.c:275-277, 287-299,         *)
(* 312-347).                                                               *)
OwnStreamLeftOut ==
    captured /\ address = own =>
        CASE pkt.type = "DATA" /\ ~ (pkt.toDs /\ pkt.fromDs) ->
                address \notin {Source(pkt), Destination(pkt)}
          [] pkt.type = "CTRL" /\ pkt.subtype \in {"CTS", "ACK"} -> address # pkt.a1
          [] pkt.type = "CTRL" /\ pkt.subtype = "PS_POLL" -> address # pkt.a2
          [] OTHER -> address \notin {pkt.a1, pkt.a2}

(* A shorter prefix captures more, never less: clearing the filter one     *)
(* byte at a time loses no packet (wifi_sniffer.c:131-135).                *)
ShorterCapturesMore ==
    captured => \A n \in 0 .. addr2Filter.size : Captures(pkt, Shortened(n))

(* A record holds the frame without its check sequence, cut only when it   *)
(* is longer than SnapLen allows, and says so; nothing from beyond the     *)
(* frame is sent, though more is copied, and the copy fits in the buffer   *)
(* (capture_lib.c:56-61, 88-92, wifi_sniffer.c:251).                       *)
RecordHoldsFrame ==
    captured =>
        LET frame == pkt.rx.sig_len - FcsLen IN
        /\ Copied(record) <= SnapLen
        /\ SentOfBuffer(record) = IF frame + TapLen <= SnapLen THEN frame ELSE SnapLen - TapLen
        /\ record.orig_len = TapLen + frame
        /\ record.incl_len <= record.orig_len

(* As long as the driver's clock does not start anew, a later packet has a *)
(* later time in its record, by as much as the clock says                  *)
(* (capture_lib.c:90).                                                     *)
TimesInOrder ==
    captured =>
        \A rx \in Receptions :
            LET later == capture_create_pcap_record(rx)
                secs  == later.ts_sec - record.ts_sec
                usecs == later.ts_usec - record.ts_usec
            IN  rx.timestamp >= pkt.rx.timestamp =>
                    /\ secs > 0 \/ (secs = 0 /\ usecs >= 0)
                    /\ secs * Million + usecs = rx.timestamp - pkt.rx.timestamp
=============================================================================
