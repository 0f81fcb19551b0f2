----------------------------- MODULE PcapRecord -----------------------------
(***************************************************************************)
(* The pcap record that capture_create_pcap_record makes of a received     *)
(* packet, and how much of it capture_on_send sends.  The record is its    *)
(* header, two radiotap parts and a buffer of SnapLen bytes; a frame stands *)
(* for its length, the bytes themselves are left out.                      *)
(***************************************************************************)
EXTENDS Integers

CONSTANTS SnapLen,    \* CONFIG_SNIFFER_SNAP_LEN
          Receptions  \* what the driver tells of a packet: length and time

(* The shortest frames, CTS and ACK, have 14 bytes, and sig_len 12 bits. *)
SigLens == 14 .. 4095

(* The driver's clock counts microseconds in 32 bits. *)
ASSUME RecordAssumption ==
    /\ SnapLen \in 200 .. 2500
    /\ Receptions \subseteq [sig_len : SigLens, timestamp : Nat]

FcsLen    == 4   \* SNIFFER_PAYLOAD_FCS_LEN
HeaderLen == 16  \* sizeof(pcap_rec_hdr_t)
TapLen    == 20  \* the radiotap parts
Million   == 1000000

-----------------------------------------------------------------------------
(* Faulty variants, which the properties have to notice. *)

(* The frame's check sequence counts. *)
WithFcs(len) == len

(* Seconds are rounded. *)
RoundedSeconds(time) == (time + Million \div 2) \div Million

-----------------------------------------------------------------------------
(* sig_len -= SNIFFER_PAYLOAD_FCS_LEN, in 12 bits. *)
WithoutFcs(len) == (len - FcsLen) % 4096

Seconds(time) == time \div Million

capture_create_pcap_record(rx) ==
    LET pack_len == WithoutFcs(rx.sig_len) + TapLen IN
    [ts_sec   |-> Seconds(rx.timestamp),
     ts_usec  |-> rx.timestamp % Million,
     incl_len |-> IF pack_len > SnapLen THEN SnapLen ELSE pack_len,
     orig_len |-> pack_len]

(* memcpy fills so many bytes of the buffer, TapLen more than are sent. *)
Copied(rec) == rec.incl_len

capture_get_size(rec) == HeaderLen + rec.incl_len

(* The bytes of the buffer among those that are sent. *)
SentOfBuffer(rec) == capture_get_size(rec) - HeaderLen - TapLen
=============================================================================
