------------------------------ MODULE MCNvsLib -------------------------------
(* A small instance of NvsLib for TLC. *)
EXTENDS NvsLib

SomeValues == {<<>>, <<1>>, <<2>>, <<1, 2>>}
Menuconfig == [k \in Keys |-> IF k = "addr2" THEN <<>> ELSE <<1>>]
TheMac     == <<1, 2>>

(* Nothing is saved, or everything is. *)
SomeStored == { [k \in Keys |-> Missing], [k \in Keys |-> <<2>>] }

(* The console saves a name and a filter, the button the RSSI filter. *)
SomeCalls ==
    [u \in Users |->
        IF u = "console"
        THEN {Save("ssid", <<1, 2>>), Save("ssid", <<2>>), Save("addr2", <<1, 2>>),
              Save("rssi", <<2>>)}
        ELSE {Save("rssi", <<1>>), Save("rssi", <<2>>)}]
=============================================================================
