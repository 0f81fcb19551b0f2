--------------------------- MODULE MCSerialCapture ---------------------------
(* A small instance of SerialCapture for TLC. *)
EXTENDS SerialCapture

(* The op codes of three commands are bytes in hex, too. *)
SomeHex == {"00", "0C", "06", "FC", "F1", "F2"}

SomeNumbers == [n \in {"00", "06"} |-> IF n = "00" THEN 0 ELSE 6]

SomeCommands ==
    { <<"S0">>, <<"S1">>, <<"OT">>, <<"OB">>, <<"FC", "00">>, <<"FC", "06">>,
      <<"F1", "0C", "0C", "0C", "0C", "0C", "00">>, <<"F2", "0C">>, <<"F2", "0C", "S0">> }

Mac(first) == <<first, "0C", "0C", "0C", "0C", "00">>

SomePackets == { [a1 |-> Mac("0C"), a2 |-> Mac("00")],
                 [a1 |-> Mac("00"), a2 |-> Mac("00")],
                 [a1 |-> Mac("0C"), a2 |-> Mac("0C")] }

TheDefault == <<"00">>
=============================================================================
