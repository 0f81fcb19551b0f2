------------------------- MODULE PacketFilterProofs -------------------------
(* Theorems about PacketFilter, for addresses of every length. *)
EXTENDS PacketFilter, TLAPS

(* What is known of the packet handled last. *)
Decided ==
    /\ own \in Macs
    /\ addr2Filter \in Filters
    /\ rssiFilter \in RssiFilters
    /\ \/ pkt = NoPacket /\ captured = FALSE
       \/ pkt \in Packets /\ captured = Captures(pkt, addr2Filter)
    /\ captured => record = capture_create_pcap_record(pkt.rx)

LEMMA DecidedAlways == Spec => []Decided
<1>1. Init => Decided
  BY DEF Init, Decided
<1>2. Decided /\ [Next]_vars => Decided'
  <2> SUFFICES ASSUME Decided, [Next]_vars PROVE Decided'
    OBVIOUS
  <2>1. CASE wifi_sniffer_packet_handler
    <3>1. PICK p \in Packets : /\ pkt' = p
                               /\ captured' = Captures(p, addr2Filter)
                               /\ record' = IF captured' THEN capture_create_pcap_record(p.rx)
                                            ELSE NoRecord
                               /\ UNCHANGED <<address, own, addr2Filter, rssiFilter>>
      BY <2>1 DEF wifi_sniffer_packet_handler
    <3>2. Captures(p, addr2Filter) = Captures(p, addr2Filter)'
      BY <3>1 DEF Captures, Received, RssiPasses, OwnCandidates, FilterCandidates,
                  Parties, isAddrEquel, ownMac
    <3> QED
      BY <3>1, <3>2 DEF Decided
  <2>2. CASE SwitchMode \/ UNCHANGED vars
    <3>1. UNCHANGED <<own, addr2Filter, rssiFilter, pkt, captured, record>>
      BY <2>2 DEF vars, SwitchMode
    <3>2. Captures(pkt, addr2Filter)' = Captures(pkt, addr2Filter)
      BY <3>1 DEF Captures, Received, RssiPasses, OwnCandidates, FilterCandidates,
                  Parties, isAddrEquel, ownMac
    <3> QED
      BY <3>1, <3>2 DEF Decided
  <2> QED
    BY <2>1, <2>2 DEF Next
<1> QED
  BY <1>1, <1>2, PTL DEF Spec

(* isAddrEquel compares prefixes. *)
LEMMA PrefixesEqual ==
    ASSUME NEW a \in Macs, NEW f \in Filters
    PROVE  isAddrEquel(a, f) <=> Matches(a, f)
<1>1. f.size \in 0 .. MacLen /\ f.addr \in Macs
  BY DEF Filters
<1>2. ASSUME NEW s \in Macs, NEW n \in 0 .. MacLen
      PROVE  SubSeq(s, 1, n) = [i \in 1 .. n |-> s[i]]
  <2>1. s \in Seq(Bytes) /\ Len(s) = MacLen
    BY FilterAssumption DEF Macs
  <2>2. /\ SubSeq(s, 1, n) \in Seq(Bytes)
        /\ Len(SubSeq(s, 1, n)) = n
        /\ \A i \in 1 .. n : SubSeq(s, 1, n)[i] = s[i]
    BY <2>1, FilterAssumption
  <2> QED
    BY <2>2
<1>3. /\ SubSeq(a, 1, f.size) = [i \in 1 .. f.size |-> a[i]]
      /\ SubSeq(f.addr, 1, f.size) = [i \in 1 .. f.size |-> f.addr[i]]
  BY <1>1, <1>2
<1> QED
  BY <1>1, <1>3 DEF isAddrEquel, Matches

(* addr_own_mac is compared in full. *)
LEMMA OwnCompared ==
    ASSUME NEW a \in Macs, own \in Macs
    PROVE  isAddrEquel(a, ownMac) <=> a = own
<1>1. /\ DOMAIN a = 1 .. MacLen /\ DOMAIN own = 1 .. MacLen
      /\ a = [i \in 1 .. MacLen |-> a[i]] /\ own = [i \in 1 .. MacLen |-> own[i]]
  BY FilterAssumption DEF Macs
<1>2. isAddrEquel(a, ownMac) <=> \A i \in 1 .. MacLen : a[i] = own[i]
  BY DEF isAddrEquel, ownMac
<1> QED
  BY <1>1, <1>2

(* The addresses of a packet. *)
LEMMA PacketAddresses ==
    ASSUME NEW p \in Packets
    PROVE  p.a1 \in Macs /\ p.a2 \in Macs /\ p.a3 \in Macs
  BY DEF Packets, Frames

(* What the driver tells of a packet. *)
LEMMA PacketReception ==
    ASSUME NEW p \in Packets
    PROVE  p.rx.sig_len \in SigLens /\ p.rx.timestamp \in Nat
<1>1. p.rx \in Receptions
  BY DEF Packets, Frames
<1>2. p.rx \in [sig_len : SigLens, timestamp : Nat]
  BY <1>1, RecordAssumption
<1> QED
  BY <1>1, <1>2

(* ShorterCapturesMore: fewer bytes in the filter lose no packet, for      *)
(* addresses of every length (wifi_sniffer.c:131-135).                     *)
THEOREM ShorterLosesNone == Spec => []ShorterCapturesMore
<1>1. Decided => ShorterCapturesMore
  <2> SUFFICES ASSUME Decided, captured, NEW n \in 0 .. addr2Filter.size
               PROVE  Captures(pkt, Shortened(n))
    BY DEF ShorterCapturesMore
  <2>1. Captures(pkt, addr2Filter)
    BY DEF Decided
  <2>2. \A a : isAddrEquel(a, addr2Filter) => isAddrEquel(a, Shortened(n))
    <3>1. Shortened(n).size = n /\ Shortened(n).addr = addr2Filter.addr
      BY DEF Shortened, Decided, Filters
    <3>2. addr2Filter.size \in 0 .. MacLen
      BY DEF Decided, Filters
    <3>3. 1 .. n \subseteq 1 .. addr2Filter.size
      BY <3>2, FilterAssumption
    <3> QED
      BY <3>1, <3>3 DEF isAddrEquel
  <2> QED
    BY <2>1, <2>2 DEF Captures
<1> QED
  BY <1>1, DecidedAlways, PTL

(* OwnStreamLeftOut: while the device has the address it had at boot,      *)
(* nothing it sends and nothing addressed to it but a PS-Poll is captured, *)
(* for addresses of every length (main.c:333-339, wifi_sniffer.c:275-277,  *)
(* 287-299, 312-347).                                                      *)
THEOREM OwnStreamNotCaptured == Spec => []OwnStreamLeftOut
<1>1. Decided => OwnStreamLeftOut
  <2> SUFFICES ASSUME Decided, captured, address = own PROVE OwnStreamLeftOut
    BY DEF OwnStreamLeftOut
  <2>1. Captures(pkt, addr2Filter) /\ pkt \in Packets
    BY DEF Decided
  <2>2. \A a \in OwnCandidates(pkt) : ~ isAddrEquel(a, ownMac)
    BY <2>1 DEF Captures
  <2>3. pkt.a1 \in Macs /\ pkt.a2 \in Macs /\ pkt.a3 \in Macs
    BY <2>1, PacketAddresses
  <2>4. \A a \in OwnCandidates(pkt) \cap Macs : a # own
    BY <2>2, OwnCompared DEF Decided
  <2>5. pkt.toDs \in BOOLEAN /\ pkt.fromDs \in BOOLEAN
    BY <2>1 DEF Packets, Frames
  <2> QED
    BY <2>3, <2>4, <2>5 DEF OwnStreamLeftOut, OwnCandidates, Parties, Source, Destination
<1> QED
  BY <1>1, DecidedAlways, PTL

(* DataBySource: a data frame is captured exactly when the filters ask for *)
(* it, given that the RSSI filter is never 0, which RssiFilterNeverZero of *)
(* SnifferConfigProofs establishes (wifi_sniffer.c:252, 283-301).          *)
THEOREM DataExact == ASSUME 0 \notin RssiFilters PROVE Spec => []DataBySource
<1>1. Decided => DataBySource
  <2> SUFFICES ASSUME Decided, pkt.type = "DATA", ~ (pkt.toDs /\ pkt.fromDs)
               PROVE  captured <=> /\ pkt.rxState = 0
                                   /\ pkt.rssi >= rssiFilter
                                   /\ Matches(Source(pkt), addr2Filter)
                                   /\ Source(pkt) # own
                                   /\ Destination(pkt) # own
    BY DEF DataBySource
  <2>1. pkt \in Packets /\ captured = Captures(pkt, addr2Filter)
    BY DEF Decided, NoPacket
  <2>2. pkt.a1 \in Macs /\ pkt.a2 \in Macs /\ pkt.a3 \in Macs
    BY <2>1, PacketAddresses
  <2>3. pkt.toDs \in BOOLEAN /\ pkt.fromDs \in BOOLEAN
    BY <2>1 DEF Packets, Frames
  <2>4. Parties(pkt) = <<Source(pkt), Destination(pkt)>>
    BY <2>3 DEF Parties, Source, Destination
  <2>5. OwnCandidates(pkt) = {Source(pkt), Destination(pkt)}
    BY <2>4 DEF OwnCandidates
  <2>6. FilterCandidates(pkt) = {Source(pkt)}
    BY <2>4 DEF FilterCandidates
  <2>7. Source(pkt) \in Macs /\ Destination(pkt) \in Macs
    BY <2>2 DEF Source, Destination
  <2>8. RssiPasses(pkt) <=> pkt.rssi >= rssiFilter
    BY DEF RssiPasses, Decided
  <2>9. isAddrEquel(Source(pkt), addr2Filter) <=> Matches(Source(pkt), addr2Filter)
    BY <2>7, PrefixesEqual DEF Decided
  <2> QED
    BY <2>1, <2>5, <2>6, <2>7, <2>8, <2>9, OwnCompared DEF Captures, Received, Decided
<1> QED
  BY <1>1, DecidedAlways, PTL

(* RecordHoldsFrame: a record holds the frame and nothing else, for every  *)
(* snapshot length of the configuration and every length of a frame        *)
(* (capture_lib.c:56-61, 83-92).                                           *)
THEOREM RecordExact == Spec => []RecordHoldsFrame
<1>1. Decided => RecordHoldsFrame
  <2> SUFFICES ASSUME Decided, captured PROVE RecordHoldsFrame
    BY DEF RecordHoldsFrame
  <2> DEFINE frame == pkt.rx.sig_len - FcsLen
  <2>1. pkt \in Packets /\ record = capture_create_pcap_record(pkt.rx)
    BY DEF Decided
  <2>2. pkt.rx.sig_len \in SigLens
    BY <2>1, PacketReception
  <2>3. frame \in Nat /\ WithoutFcs(pkt.rx.sig_len) = frame
    <3>1. ASSUME NEW n \in SigLens
          PROVE  n - FcsLen \in Nat /\ WithoutFcs(n) = n - FcsLen
      BY SMT DEF SigLens, FcsLen, WithoutFcs
    <3> QED
      BY <2>2, <3>1
  <2>4. /\ record.orig_len = frame + TapLen
        /\ record.incl_len = IF frame + TapLen > SnapLen THEN SnapLen ELSE frame + TapLen
    BY <2>1, <2>3 DEF capture_create_pcap_record
  <2>5. SnapLen \in 200 .. 2500
    BY RecordAssumption
  <2>6. frame \in Nat /\ SnapLen \in Nat /\ TapLen \in Nat /\ HeaderLen \in Nat
    BY <2>3, <2>5 DEF TapLen, HeaderLen
  <2> HIDE DEF frame
  <2>7. /\ record.incl_len <= SnapLen
        /\ (HeaderLen + record.incl_len) - HeaderLen - TapLen =
              IF frame + TapLen <= SnapLen THEN frame ELSE SnapLen - TapLen
        /\ record.orig_len = TapLen + frame
        /\ record.incl_len <= record.orig_len
    BY <2>4, <2>6
  <2> QED
    BY <2>7 DEF RecordHoldsFrame, frame, Copied, SentOfBuffer, capture_get_size
<1> QED
  BY <1>1, DecidedAlways, PTL

(* Two times, split into seconds and microseconds. *)
LEMMA TimeSplit ==
    \A s, t \in Int : t >= s =>
        /\ Seconds(t) - Seconds(s) > 0
           \/ (Seconds(t) - Seconds(s) = 0 /\ (t % Million) - (s % Million) >= 0)
        /\ (Seconds(t) - Seconds(s)) * Million + ((t % Million) - (s % Million)) = t - s
  BY Z3 DEF Seconds, Million

(* TimesInOrder: the times of records are in the order of the driver's     *)
(* clock and as far apart, for every two packets (capture_lib.c:90).       *)
THEOREM TimesExact == Spec => []TimesInOrder
<1>1. Decided => TimesInOrder
  <2> SUFFICES ASSUME Decided, captured, NEW rx \in Receptions,
                      rx.timestamp >= pkt.rx.timestamp
               PROVE  LET later == capture_create_pcap_record(rx)
                          secs  == later.ts_sec - record.ts_sec
                          usecs == later.ts_usec - record.ts_usec
                      IN  /\ secs > 0 \/ (secs = 0 /\ usecs >= 0)
                          /\ secs * Million + usecs = rx.timestamp - pkt.rx.timestamp
    BY DEF TimesInOrder
  <2>1. pkt \in Packets /\ record = capture_create_pcap_record(pkt.rx)
    BY DEF Decided
  <2>2. PICK s \in Int : s = pkt.rx.timestamp
    <3>1. pkt.rx.timestamp \in Nat
      BY <2>1, PacketReception
    <3> QED
      BY <3>1
  <2>3. PICK t \in Int : t = rx.timestamp
    <3>1. rx \in [sig_len : SigLens, timestamp : Nat]
      BY RecordAssumption
    <3> QED
      BY <3>1
  <2>4. /\ record.ts_sec = Seconds(s) /\ record.ts_usec = s % Million
        /\ capture_create_pcap_record(rx).ts_sec = Seconds(t)
        /\ capture_create_pcap_record(rx).ts_usec = t % Million
    BY <2>1, <2>2, <2>3 DEF capture_create_pcap_record
  <2>5. t >= s
    BY <2>2, <2>3
  <2>6. /\ Seconds(t) - Seconds(s) > 0
           \/ (Seconds(t) - Seconds(s) = 0 /\ (t % Million) - (s % Million) >= 0)
        /\ (Seconds(t) - Seconds(s)) * Million + ((t % Million) - (s % Million)) = t - s
    BY <2>5, TimeSplit
  <2> DEFINE later == capture_create_pcap_record(rx)
  <2>7. /\ later.ts_sec - record.ts_sec = Seconds(t) - Seconds(s)
        /\ later.ts_usec - record.ts_usec = (t % Million) - (s % Million)
        /\ rx.timestamp - pkt.rx.timestamp = t - s
    BY <2>2, <2>3, <2>4
  <2> QED
    BY <2>6, <2>7, Zenon
<1> QED
  BY <1>1, DecidedAlways, PTL
=============================================================================
