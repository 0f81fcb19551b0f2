--------------------------- MODULE MCPacketFilter ---------------------------
(* Small instances of PacketFilter for TLC: addresses of two bytes with    *)
(* two values; the shortest frame, the longest that fits, one that does    *)
(* not, the longest of all, on both sides of a full second.                *)
EXTENDS PacketFilter
TwoModes == {<<0, 0>>, <<0, 1>>}
Strengths == {-96, -70}
Signals == {-80, -70}
Rx(len, time) == [sig_len |-> len, timestamp |-> time]
Samples == { Rx(14, 600000), Rx(984, 999999), Rx(985, 1000000), Rx(4095, 2147000000) }
=============================================================================
