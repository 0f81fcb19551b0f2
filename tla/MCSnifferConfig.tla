-------------------------- MODULE MCSnifferConfig ---------------------------
(* Small instances of SnifferConfig for TLC. *)
EXTENDS SnifferConfig

CONSTANTS F1, F2

SomeFilters == {NoFilter, F1, F2}
SomeRssis   == {-96, 0}

Cmd(s, f, r) == [source |-> s, frame |-> f, rssi |-> r]
Mac(f)       == [len |-> 12, hex |-> TRUE, filter |-> f]

(* A filter, no filter, an odd number of digits, too many, a wrong digit,  *)
(* and the frame types and RSSI filters that a user may give with them,    *)
(* also values that no int8_t holds.                                       *)
SomeCommands ==
    { Cmd(Mac(F1), NoArg, NoArg),
      Cmd(Mac(F2), "d", -70),
      Cmd([len |-> 0, hex |-> TRUE, filter |-> NoFilter], "a", 256),
      Cmd([len |-> 5, hex |-> TRUE, filter |-> F1], "x", 20),
      Cmd([len |-> 14, hex |-> TRUE, filter |-> F2], NoArg, NoArg),
      Cmd([len |-> 12, hex |-> FALSE, filter |-> F1], NoArg, -80),
      Cmd(NoArg, NoArg, 200) }
=============================================================================
