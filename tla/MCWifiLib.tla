------------------------------ MODULE MCWifiLib ------------------------------
(* Small instances of WifiLib for TLC: names of up to two characters,      *)
(* passwords that the driver accepts from two characters on, and that      *)
(* overflow prev from three on.                                            *)
EXTENDS WifiLib

Words     == {<<>>, <<1>>, <<1, 1>>, <<1, 2>>, <<2, 1>>, <<1, 2, 1>>}
IpNumbers == {4, 19, 20}

Menuconfig == [ssid |-> <<1, 1>>, pw |-> <<1, 1>>, ch |-> 1, ip |-> 19, gw |-> 19]

Settings(s, w, c) == [ssid |-> s, pw |-> w, ch |-> c, ip |-> NotGiven, gw |-> NotGiven]
Address(i)        == [Settings(NotGiven, NotGiven, NotGiven) EXCEPT !.ip = i]

SetAp(s, w, c) == [cmd |-> "ap", arg |-> Settings(s, w, c)]
SetSta         == [cmd |-> "sta", arg |-> Settings(NotGiven, NotGiven, NotGiven)]
SetAddress(i)  == [cmd |-> "ip", arg |-> Address(i)]

(* A name and a password that are the beginning of others, and others; a   *)
(* channel that is a channel only as a byte.                               *)
PlainCommands ==
    { SetAp(<<1, 2>>, <<2, 1>>, 258), SetAp(<<1>>, NotGiven, NotGiven),
      SetAp(NotGiven, <<>>, NotGiven), SetSta, SetAddress(20) }

(* A password that is too short, one that overflows prev, a name that is   *)
(* too long and a channel that no country has.                             *)
AllCommands ==
    PlainCommands \cup
    { SetAp(<<1>>, <<1>>, NotGiven), SetAp(NotGiven, <<1, 2, 1>>, NotGiven),
      SetAp(<<1, 2, 1>>, NotGiven, NotGiven), SetAp(NotGiven, NotGiven, 200) }

AnyCommands ==
    { SetAp(<<1>>, <<1>>, NotGiven), SetSta, SetAddress(20) }
=============================================================================
