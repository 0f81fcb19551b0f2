---------------------------- MODULE SerialCapture ----------------------------
(***************************************************************************)
(* The Arduino sniffer: one serial line carries the commands of the host   *)
(* to the loop task, and the capture back.  The loop task writes the pcap  *)
(* header, the callback of the wifi task writes records, and printf        *)
(* (external) puts text on the same line, when its buffer is full.  Each   *)
(* Serial.write is atomic; nothing else keeps the two tasks apart.         *)
(*                                                                         *)
(* The host writes pairs of characters: op codes, numbers, bytes in hex.   *)
(* It has the whole of a command ready, and may write the next one before  *)
(* the last one has been read, as long as the receive buffer has room: the *)
(* characters that a host loses when it writes more are not modelled.      *)
(***************************************************************************)
EXTENDS Integers, Sequences, SequencesExt

CONSTANTS Hex,       \* the pairs that are bytes in hex
          Number,    \* the pairs that are numbers, with their values
          Commands,  \* what the host may send
          Packets,   \* the two addresses of the packets there are
          Default2,  \* the filter of senders after a boot
          Torn,      \* a filter while it is being assigned
          Room,      \* pairs that the receive buffer of the serial line holds
          MaxSends   \* bound on the commands of the host

OpCodes == {"S0", "S1", "OT", "OB", "FC", "F1", "F2"}
Pairs == OpCodes \cup Hex \cup DOMAIN Number

AddrSize == 6    \* read(mac, 12)
Channels == <<1, 6, 11>>

(* An address is only of use when all of it is hex. *)
IsHex(a) == \A i \in DOMAIN a : a[i] \in Hex

ASSUME SerialAssumption ==
    /\ Number \in [DOMAIN Number -> Nat]
    /\ Commands \subseteq Seq(Pairs) \ {<<>>}
    /\ \A c \in Commands :
         \/ c[1] \in {"S0", "S1", "OT", "OB"} /\ Len(c) = 1
         \/ c[1] = "FC" /\ Len(c) = 2 /\ c[2] \in DOMAIN Number
         \/ c[1] \in {"F1", "F2"} /\ Len(c) <= 1 + AddrSize
    /\ Packets \subseteq [a1 : Seq(Hex), a2 : Seq(Hex)]
    /\ Default2 \in Seq(Hex)
    /\ Torn \notin Seq(Hex)
    /\ Room \in Nat
    /\ MaxSends \in Nat

VARIABLES
    \* the host
    inbox,       \* what the loop task has not read
    sends,       \* number of commands sent
    wanted,      \* what the commands ask for
    hasty,       \* a command followed a short address without a pause
    \* the loop task
    lpc,         \* where it is
    part,        \* parts of the header written
    arg,         \* bytes of an address read
    selChannel,
    chInx,
    radio,       \* the channel of the radio (external), 0 when not set
    \* shared with the wifi task
    start,
    outType,
    addr1Filter,
    addr2Filter,
    \* the wifi task
    wpc,         \* where the callback is
    written,     \* parts of the record written
    pkt,         \* the packet
    steady,      \* no filter was pending when it came, nor has been since
    \* the line to the host
    held,        \* text waits in the buffer of printf
    view         \* what a reader makes of a capture started with care

hostVars  == <<inbox, sends, wanted, hasty>>
loopVars  == <<lpc, part, arg>>
radioVars == <<selChannel, chInx, radio>>
modeVars  == <<start, outType, addr1Filter, addr2Filter>>
wifiVars  == <<wpc, written, pkt, steady>>
lineVars  == <<held, view>>
vars == <<hostVars, loopVars, radioVars, modeVars, wifiVars, lineVars>>

LoopSteps == {"read", "start", "number", "addr1", "addr2", "set1", "set2", "hop"}
WifiSteps == {"idle", "second", "display", "type", "record"}

HeaderParts == 7   \* the writes of capture_start
RecordParts == 5   \* the writes of newPacket

-----------------------------------------------------------------------------
(* The line *)

(* The reader has nothing to expect, or expects a header, or a record.     *)
Nothing == [in |-> "nothing", part |-> 0]
Header  == [in |-> "header", part |-> 0]
Records == [in |-> "record", part |-> 0]
Broken  == [in |-> "broken", part |-> 0]

(* A reader in v is sent part n of a header, of a record, or text. *)
Reads(v, what, n) ==
    IF v = Nothing THEN Nothing
    ELSE IF v # [in |-> what, part |-> n - 1] THEN Broken
    ELSE IF n = (IF what = "header" THEN HeaderParts ELSE RecordParts) THEN Records
    ELSE [in |-> what, part |-> n]

Send(what, n) == view' = Reads(view, what, n)

NoPacket == [a1 |-> <<>>, a2 |-> <<>>]

(* setup: the first signal_start finds no _write_cb yet, and its header is *)
(* lost.  The callback comes with the radio, after that.                   *)
Init ==
    /\ inbox = <<>>
    /\ sends = 0
    /\ wanted = [run |-> TRUE, out |-> "BINARY", f1 |-> <<>>, f2 |-> Default2, ch |-> 0]
    /\ hasty = FALSE
    /\ lpc = "read"
    /\ part = 0
    /\ arg = <<>>
    /\ selChannel = 0
    /\ chInx = 0
    /\ radio = 0
    /\ start = TRUE
    /\ outType = "BINARY"
    /\ addr1Filter = <<>>
    /\ addr2Filter = Default2
    /\ wpc = "idle"
    /\ written = 0
    /\ pkt = NoPacket
    /\ steady = FALSE
    /\ held = FALSE
    /\ view = Nothing

-----------------------------------------------------------------------------
(* The host *)

Address(c) == Tail(c)

(* What a command asks for. *)
Asked(w, c) ==
    CASE c[1] = "S0" -> [w EXCEPT !.run = FALSE]
      [] c[1] = "S1" -> [w EXCEPT !.run = TRUE]
      [] c[1] = "OT" -> [w EXCEPT !.run = TRUE, !.out = "TEXT"]
      [] c[1] = "OB" -> [w EXCEPT !.run = TRUE, !.out = "BINARY"]
      [] c[1] = "FC" -> [w EXCEPT !.ch = Number[c[2]]]
      [] c[1] = "F1" -> IF IsHex(Address(c)) THEN [w EXCEPT !.f1 = Address(c)] ELSE w
      [] c[1] = "F2" -> IF IsHex(Address(c)) THEN [w EXCEPT !.f2 = Address(c)] ELSE w

(* The loop task reads an address, or will, that has no 6 bytes yet. *)
ShortPending ==
    \/ lpc \in {"addr1", "addr2"} /\ Len(arg) + Len(inbox) < AddrSize
    \/ \E i \in DOMAIN inbox : inbox[i] \in {"F1", "F2"} /\ Len(inbox) - i < AddrSize

SendCommand ==
    /\ sends < MaxSends
    /\ sends' = sends + 1
    /\ \E c \in Commands :
         /\ Len(inbox) + Len(c) <= Room
         /\ inbox' = inbox \o c
         /\ wanted' = Asked(wanted, c)
         /\ steady' = (steady /\ c[1] \notin {"F1", "F2"})
    /\ hasty' = (hasty \/ ShortPending)
    /\ UNCHANGED <<loopVars, radioVars, modeVars, wpc, written, pkt, lineVars>>

(* The filters are as the host has asked. *)
FiltersSet ==
    /\ lpc \notin {"addr1", "addr2", "set1", "set2"}
    /\ \A i \in DOMAIN inbox : inbox[i] \notin {"F1", "F2"}

-----------------------------------------------------------------------------
(* log prints in text mode only; held says if text waits after it. *)
Logged == held \/ outType = "TEXT"

(* A faulty variant of Started: the capture is on while its header is being sent. *)
StartedEarly ==
    /\ lpc = "start"
    /\ start' = TRUE
    /\ IF outType = "TEXT" \/ part = HeaderParts
       THEN held' = Logged /\ part' = 0 /\ lpc' = "hop"
       ELSE UNCHANGED <<held, part, lpc>>
    /\ UNCHANGED <<hostVars, arg, radioVars, outType, addr1Filter, addr2Filter,
                   wifiVars, view>>

-----------------------------------------------------------------------------
(* The loop task *)

(* read takes an op code; one it does not know does nothing. *)
Take(op) ==
    /\ lpc = "read"
    /\ inbox # <<>>
    /\ op = Head(inbox)
    /\ inbox' = Tail(inbox)
    /\ held' = Logged
    /\ UNCHANGED <<sends, wanted, hasty, part, arg, radioVars, addr1Filter,
                   addr2Filter, wifiVars>>

Stop ==
    /\ Take("S0")
    /\ start' = FALSE
    /\ lpc' = "hop"
    /\ UNCHANGED <<outType, view>>

(* S1, OT and OB: signal_start comes next. *)
Start(op, out) ==
    /\ Take(op)
    /\ outType' = out
    /\ lpc' = "start"
    /\ view' = IF wpc = "idle" /\ ~ start /\ ~ Logged /\ out = "BINARY"
               THEN Header ELSE Nothing
    /\ UNCHANGED start

TakeArgument(op, l) ==
    /\ Take(op)
    /\ lpc' = l
    /\ view' = IF op = "FC" THEN Nothing ELSE view
    /\ UNCHANGED <<start, outType>>

Unknown ==
    /\ \E op \in Pairs \ OpCodes : Take(op)
    /\ lpc' = "hop"
    /\ UNCHANGED <<start, outType, view>>

NoBytes ==
    /\ lpc = "read"
    /\ inbox = <<>>
    /\ lpc' = "hop"
    /\ UNCHANGED <<hostVars, part, arg, radioVars, modeVars, wifiVars, lineVars>>

(* capture_start *)
WriteHeader ==
    /\ lpc = "start"
    /\ outType = "BINARY"
    /\ part < HeaderParts
    /\ Send("header", part + 1)
    /\ part' = part + 1
    /\ UNCHANGED <<hostVars, lpc, arg, radioVars, modeVars, wifiVars, held>>

(* The rest of signal_start. *)
Started ==
    /\ lpc = "start"
    /\ outType = "TEXT" \/ part = HeaderParts
    /\ start' = TRUE
    /\ held' = Logged
    /\ part' = 0
    /\ lpc' = "hop"
    /\ UNCHANGED <<hostVars, arg, radioVars, outType, addr1Filter, addr2Filter,
                   wifiVars, view>>

(* parseInt skips to a number, and filterChannel prints in any mode.  The  *)
(* radio has channels 1 to 13 and ignores others.                          *)
SetChannel ==
    /\ lpc = "number"
    /\ inbox # <<>>
    /\ inbox' = Tail(inbox)
    /\ IF Head(inbox) \in DOMAIN Number
       THEN LET ch == Number[Head(inbox)]
            IN  /\ selChannel' = ch
                /\ radio' = IF ch \in 1 .. 13 THEN ch ELSE radio
                /\ held' = TRUE
                /\ lpc' = "hop"
       ELSE UNCHANGED <<selChannel, radio, held, lpc>>
    /\ UNCHANGED <<sends, wanted, hasty, part, arg, chInx, modeVars, wifiVars, view>>

(* readBytes takes what comes, the next command too ... *)
AddressByte ==
    /\ lpc \in {"addr1", "addr2"}
    /\ inbox # <<>>
    /\ Len(arg) < AddrSize
    /\ arg' = Append(arg, Head(inbox))
    /\ inbox' = Tail(inbox)
    /\ UNCHANGED <<sends, wanted, hasty, lpc, part, radioVars, modeVars, wifiVars, lineVars>>

(* The address has ended, and is used or refused. *)
AddressEnds(ended, accepted, bytes) ==
    /\ lpc \in {"addr1", "addr2"}
    /\ ended
    /\ IF accepted
       THEN lpc' = (IF lpc = "addr1" THEN "set1" ELSE "set2") /\ arg' = bytes
       ELSE lpc' = "hop" /\ arg' = <<>>
    /\ held' = Logged
    /\ UNCHANGED <<hostVars, part, radioVars, modeVars, wifiVars, view>>

AddressHere == inbox = <<>> \/ Len(arg) = AddrSize

(* Faulty variants: an address ends only with its 12th character; it is    *)
(* used without what is not hex.                                           *)
AddressWaits  == AddressEnds(Len(arg) = AddrSize, IsHex(arg), arg)
AddressAnyway == AddressEnds(AddressHere, TRUE, SelectSeq(arg, LAMBDA p : p \in Hex))

(* ... until it has 12 characters or a second has passed without one.      *)
(* filterAddr refuses what is not hex.                                     *)
AddressRead == AddressEnds(AddressHere, IsHex(arg), arg)

(* The assignment of a filter, which the callback may see half done. *)
Assigned(f) == IF f = Torn THEN arg ELSE Torn

SetFilter ==
    /\ \/ /\ lpc = "set1"
          /\ addr1Filter' = Assigned(addr1Filter)
          /\ UNCHANGED addr2Filter
       \/ /\ lpc = "set2"
          /\ addr2Filter' = Assigned(addr2Filter)
          /\ UNCHANGED addr1Filter
    /\ IF Torn \in {addr1Filter', addr2Filter'}
       THEN UNCHANGED <<lpc, arg>>
       ELSE lpc' = "hop" /\ arg' = <<>>
    /\ UNCHANGED <<hostVars, part, radioVars, start, outType, wifiVars, lineVars>>

(* changeChannel, while no channel is selected; last is the last index.    *)
HopTo(last) ==
    /\ lpc = "hop"
    /\ lpc' = "read"
    /\ IF selChannel = 0
       THEN /\ chInx' = IF chInx >= last THEN 0 ELSE chInx + 1
            /\ radio' = Channels[chInx' + 1]
       ELSE UNCHANGED <<chInx, radio>>
    /\ UNCHANGED <<hostVars, part, arg, selChannel, modeVars, wifiVars, lineVars>>

(* A faulty variant: the index starts again one too early. *)
HopShort == HopTo(Len(Channels) - 2)

Hop == HopTo(Len(Channels) - 1)

Loop ==
    \/ Stop
    \/ Start("S1", outType) \/ Start("OT", "TEXT") \/ Start("OB", "BINARY")
    \/ TakeArgument("FC", "number")
    \/ TakeArgument("F1", "addr1") \/ TakeArgument("F2", "addr2")
    \/ Unknown
    \/ NoBytes
    \/ WriteHeader
    \/ Started
    \/ SetChannel
    \/ AddressByte
    \/ AddressRead
    \/ SetFilter
    \/ Hop

-----------------------------------------------------------------------------
(* The callback of the wifi task *)

(* What isAddrEquel may find; half an assignment matches or not. *)
Equal(f, a) == IF f = Torn THEN BOOLEAN ELSE {IsPrefix(f, a)}

PacketOf(packets) ==
    /\ wpc = "idle"
    /\ start
    /\ pkt' \in packets
    /\ wpc' = "second"
    /\ steady' = FiltersSet
    /\ UNCHANGED <<hostVars, loopVars, radioVars, modeVars, written, lineVars>>

(* A faulty variant: the receiver of a packet does not matter. *)
PacketToAny == PacketOf(Packets)

Packet == PacketOf({p \in Packets : TRUE \in Equal(addr1Filter, p.a1)})

(* The callback returns. *)
Done == wpc' = "idle" /\ pkt' = NoPacket /\ steady' = FALSE

Second ==
    /\ wpc = "second"
    /\ \E equal \in Equal(addr2Filter, pkt.a2) :
         IF equal THEN wpc' = "display" /\ UNCHANGED <<pkt, steady>> ELSE Done
    /\ UNCHANGED <<hostVars, loopVars, radioVars, modeVars, written, lineVars>>

(* display: every line looks at the mode again. *)
Display ==
    /\ wpc = "display"
    /\ held' = Logged
    /\ wpc' \in {"display", "type"}
    /\ UNCHANGED <<hostVars, loopVars, radioVars, modeVars, written, pkt, steady,
                   view>>

ChooseType ==
    /\ wpc = "type"
    /\ IF outType = "BINARY" THEN wpc' = "record" /\ UNCHANGED <<pkt, steady>> ELSE Done
    /\ UNCHANGED <<hostVars, loopVars, radioVars, modeVars, written, lineVars>>

(* newPacket *)
WriteRecord ==
    /\ wpc = "record"
    /\ Send("record", written + 1)
    /\ written' = (written + 1) % RecordParts
    /\ IF written' = 0 THEN Done ELSE UNCHANGED <<wpc, pkt, steady>>
    /\ UNCHANGED <<hostVars, loopVars, radioVars, modeVars, held>>

Callback == Packet \/ Second \/ Display \/ ChooseType \/ WriteRecord

(* The buffer of printf is full, or a line ends. *)
Flush ==
    /\ held
    /\ held' = FALSE
    /\ Send("text", 1)
    /\ UNCHANGED <<hostVars, loopVars, radioVars, modeVars, wifiVars>>

Next == SendCommand \/ Loop \/ Callback \/ Flush

(* The loop never stops, and waits for a second at most. *)
FairSpec == Init /\ [][Next]_vars /\ WF_vars(Loop)

-----------------------------------------------------------------------------
(* Properties *)

Filters == Seq(Hex) \cup {Torn}

(* The type invariant. *)
TypeOK ==
    /\ inbox \in Seq(Pairs)
    /\ sends \in 0 .. MaxSends
    /\ wanted \in [run : BOOLEAN, out : {"TEXT", "BINARY"}, f1 : Seq(Hex), f2 : Seq(Hex), ch : Nat]
    /\ hasty \in BOOLEAN
    /\ lpc \in LoopSteps
    /\ part \in 0 .. HeaderParts
    /\ arg \in Seq(Pairs)
    /\ selChannel \in Nat
    /\ chInx \in 0 .. 2
    /\ radio \in 0 .. 13
    /\ start \in BOOLEAN
    /\ outType \in {"TEXT", "BINARY"}
    /\ addr1Filter \in Filters
    /\ addr2Filter \in Filters
    /\ wpc \in WifiSteps
    /\ written \in 0 .. RecordParts - 1
    /\ pkt \in [a1 : Seq(Hex), a2 : Seq(Hex)]
    /\ steady \in BOOLEAN
    /\ held \in BOOLEAN
    /\ view \in [in : {"nothing", "header", "record", "broken"}, part : 0 .. HeaderParts]

(* A capture started while it was stopped, with no record under way and no *)
(* text waiting, is a pcap file until the next S1, OT, OB or FC: filters   *)
(* and S0 may come at any time.  Otherwise a header can fall inside a      *)
(* record (main.cpp:100-124, 170, 265-287, Sniffer.h:149-173).             *)
CaptureWhole == view # Broken

(* A host that pauses after an address of fewer than six bytes is obeyed   *)
(* in everything, in whatever order and however fast it sends the rest     *)
(* (main.cpp:161-311).                                                     *)
Obeyed ==
    ~ hasty /\ inbox = <<>> /\ lpc \in {"read", "hop"} =>
        /\ start = wanted.run
        /\ outType = wanted.out
        /\ addr1Filter = wanted.f1
        /\ addr2Filter = wanted.f2
        /\ selChannel = wanted.ch
        /\ selChannel \in 1 .. 13 => radio = selChannel

(* A packet that came after such a host's filters were set, and before it  *)
(* sends others, is only shown or sent on if it has both addresses         *)
(* (main.cpp:86-108, 289-309).                                             *)
Filtered ==
    ~ hasty /\ steady /\ wpc \in {"display", "type", "record"} =>
        IsPrefix(wanted.f1, pkt.a1) /\ IsPrefix(wanted.f2, pkt.a2)

(* No command leaves the loop task waiting for more (main.cpp:241-311).    *)
CommandsTaken == inbox # <<>> ~> (inbox = <<>> /\ lpc = "read")

(* While no channel is selected the radio visits every channel again and   *)
(* again, whatever was selected before (main.cpp:313-330, Sniffer.h:80-91).*)
HopsForever ==
    \A i \in DOMAIN Channels : []<>(selChannel # 0) \/ []<>(radio = Channels[i])
=============================================================================
