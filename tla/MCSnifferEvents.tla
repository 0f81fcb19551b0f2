--------------------------- MODULE MCSnifferEvents ---------------------------
(* Small instances of SnifferEvents for TLC. *)
EXTENDS SnifferEvents
TwoRssis == {-96, -70}
Lowest   == -96
=============================================================================
