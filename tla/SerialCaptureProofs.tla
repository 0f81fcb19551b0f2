------------------------- MODULE SerialCaptureProofs -------------------------
(* Theorems about SerialCapture, for every value of its constants. *)
EXTENDS SerialCapture, SequenceTheorems, TLAPS

(* An address that is all hex is a filter. *)
LEMMA HexAddress ==
    ASSUME NEW a \in Seq(Pairs), IsHex(a) PROVE a \in Seq(Hex)
<1>1. \A i \in 1 .. Len(a) : a[i] \in Hex
  BY DEF IsHex
<1>2. a \in [1 .. Len(a) -> Hex] /\ Len(a) \in Nat
  BY <1>1
<1> QED
  BY <1>2, SeqDef

(* What a command asks for is something that can be wanted. *)
Wants == [run : BOOLEAN, out : {"TEXT", "BINARY"}, f1 : Seq(Hex), f2 : Seq(Hex), ch : Nat]

LEMMA CommandShape ==
    ASSUME NEW c \in Commands
    PROVE  c \in Seq(Pairs) /\ Len(c) \in 1 .. 1 + AddrSize /\ c[1] \in OpCodes
<1>1. c \in Seq(Pairs) /\ c # <<>>
  BY SerialAssumption
<1>2. Len(c) \in Nat \ {0}
  BY <1>1
<1>3. c[1] \in OpCodes
  BY SerialAssumption DEF OpCodes
<1>4. Len(c) = 1 \/ Len(c) = 2 \/ Len(c) <= 1 + AddrSize
  BY SerialAssumption
<1>5. 1 + AddrSize = 7
  BY DEF AddrSize
<1>6. Len(c) <= 7
  <2>1. PICK n \in Nat : n = Len(c)
    BY <1>2
  <2>2. n = 1 \/ n = 2 \/ n <= 7
    BY <1>4, <1>5, <2>1
  <2> QED
    BY <2>1, <2>2
<1> QED
  BY <1>1, <1>2, <1>3, <1>5, <1>6

LEMMA CommandLength ==
    ASSUME NEW c \in Commands PROVE \E n \in 1 .. 7 : Len(c) = n
<1>1. Len(c) \in 1 .. 1 + AddrSize
  BY CommandShape
<1>2. 1 + AddrSize = 7
  BY DEF AddrSize
<1> QED
  BY <1>1, <1>2

LEMMA AskedTyped ==
    ASSUME NEW w \in Wants, NEW c \in Commands PROVE Asked(w, c) \in Wants
<1>1. c \in Seq(Pairs) /\ c # <<>> /\ c[1] \in OpCodes
  BY CommandShape
<1>2. Address(c) \in Seq(Pairs)
  BY <1>1 DEF Address
<1>3. IsHex(Address(c)) => Address(c) \in Seq(Hex)
  BY <1>2, HexAddress
<1>4. c[1] = "FC" => Number[c[2]] \in Nat
  BY SerialAssumption
<1> HIDE DEF Address
<1>5. /\ [w EXCEPT !.run = FALSE] \in Wants /\ [w EXCEPT !.run = TRUE] \in Wants
      /\ [w EXCEPT !.run = TRUE, !.out = "TEXT"] \in Wants
      /\ [w EXCEPT !.run = TRUE, !.out = "BINARY"] \in Wants
  BY DEF Wants
<1>6. /\ \A n \in Nat : [w EXCEPT !.ch = n] \in Wants
      /\ \A f \in Seq(Hex) : [w EXCEPT !.f1 = f] \in Wants /\ [w EXCEPT !.f2 = f] \in Wants
  BY DEF Wants
<1> HIDE DEF Wants
<1>7. CASE c[1] = "S0"
  BY <1>5, <1>7 DEF Asked
<1>8. CASE c[1] = "S1"
  BY <1>5, <1>8 DEF Asked
<1>9. CASE c[1] = "OT"
  BY <1>5, <1>9 DEF Asked
<1>10. CASE c[1] = "OB"
  BY <1>5, <1>10 DEF Asked
<1>11. CASE c[1] = "FC"
  BY <1>4, <1>6, <1>11 DEF Asked
<1>12. CASE c[1] = "F1"
  BY <1>3, <1>6, <1>12 DEF Asked
<1>13. CASE c[1] = "F2"
  BY <1>3, <1>6, <1>13 DEF Asked
<1> QED
  BY <1>1, <1>7, <1>8, <1>9, <1>10, <1>11, <1>12, <1>13 DEF OpCodes

-----------------------------------------------------------------------------
(* Types *)

(* The parts of the type invariant; an address about to be assigned is hex. *)
HostTyped ==
    /\ inbox \in Seq(Pairs)
    /\ sends \in 0 .. MaxSends
    /\ wanted \in Wants
    /\ hasty \in BOOLEAN

LoopTyped ==
    /\ lpc \in LoopSteps
    /\ part \in 0 .. HeaderParts
    /\ arg \in Seq(Pairs)
    /\ lpc \in {"set1", "set2"} => IsHex(arg)

RadioTyped ==
    /\ selChannel \in Nat
    /\ chInx \in 0 .. 2
    /\ radio \in 0 .. 13

ModeTyped ==
    /\ start \in BOOLEAN
    /\ outType \in {"TEXT", "BINARY"}
    /\ addr1Filter \in Filters
    /\ addr2Filter \in Filters

WifiTyped ==
    /\ wpc \in WifiSteps
    /\ written \in 0 .. RecordParts - 1
    /\ pkt \in [a1 : Seq(Hex), a2 : Seq(Hex)]
    /\ steady \in BOOLEAN

LineTyped ==
    /\ held \in BOOLEAN
    /\ view \in [in : {"nothing", "header", "record", "broken"}, part : 0 .. HeaderParts]

Typed == HostTyped /\ LoopTyped /\ RadioTyped /\ ModeTyped /\ WifiTyped /\ LineTyped

LEMMA ReadsTyped ==
    ASSUME NEW v \in [in : {"nothing", "header", "record", "broken"}, part : 0 .. HeaderParts],
           NEW what \in {"header", "record", "text"}, NEW n \in 1 .. 7,
           what = "text" => v.in # "text"
    PROVE  Reads(v, what, n) \in
             [in : {"nothing", "header", "record", "broken"}, part : 0 .. HeaderParts]
<1>1. /\ Nothing \in [in : {"nothing", "header", "record", "broken"}, part : 0 .. HeaderParts]
      /\ Broken \in [in : {"nothing", "header", "record", "broken"}, part : 0 .. HeaderParts]
      /\ Records \in [in : {"nothing", "header", "record", "broken"}, part : 0 .. HeaderParts]
  BY DEF Nothing, Broken, Records, HeaderParts
<1>2. what # "text" => [in |-> what, part |-> n] \in
        [in : {"nothing", "header", "record", "broken"}, part : 0 .. HeaderParts]
  BY DEF HeaderParts
<1>3. what = "text" => v # [in |-> what, part |-> n - 1]
  OBVIOUS
<1> QED
  BY <1>1, <1>2, <1>3 DEF Reads

LEMMA TypedInit == Init => Typed
<1> SUFFICES ASSUME Init PROVE Typed
  OBVIOUS
<1> USE SerialAssumption DEF Init
<1>1. wanted \in Wants
  BY DEF Wants
<1>b. hasty \in BOOLEAN /\ steady \in BOOLEAN /\ held \in BOOLEAN
  <2>1. hasty \in BOOLEAN
    OBVIOUS
  <2>2. steady \in BOOLEAN
    OBVIOUS
  <2>3. held \in BOOLEAN
    OBVIOUS
  <2> QED
    BY <2>1, <2>2, <2>3
<1>2. HostTyped
  <2>1. inbox \in Seq(Pairs) /\ sends \in 0 .. MaxSends
    OBVIOUS
  <2> QED
    BY <1>1, <1>b, <2>1 DEF HostTyped
<1>3. LoopTyped
  BY DEF LoopTyped, LoopSteps, HeaderParts
<1>4. RadioTyped
  BY DEF RadioTyped
<1>5. ModeTyped
  BY DEF ModeTyped, Filters
<1>6. WifiTyped
  <2>1. wpc \in WifiSteps /\ written \in 0 .. RecordParts - 1
    BY DEF WifiSteps, RecordParts
  <2>2. pkt \in [a1 : Seq(Hex), a2 : Seq(Hex)]
    BY DEF NoPacket
  <2> QED
    BY <1>b, <2>1, <2>2 DEF WifiTyped
<1>7. LineTyped
  <2>1. view \in [in : {"nothing", "header", "record", "broken"}, part : 0 .. HeaderParts]
    BY DEF Nothing, HeaderParts
  <2> QED
    BY <1>b, <2>1 DEF LineTyped
<1> QED
  BY <1>2, <1>3, <1>4, <1>5, <1>6, <1>7 DEF Typed

(* The parts of the type invariant that take a step of their own.          *)
LEMMA SendTyped ==
    ASSUME LineTyped, NEW what \in {"header", "record", "text"}, NEW n \in 1 .. 7,
           Send(what, n)
    PROVE  view' \in [in : {"nothing", "header", "record", "broken"}, part : 0 .. HeaderParts]
<1>1. view.in # "text"
  BY DEF LineTyped
<1> QED
  BY <1>1, ReadsTyped DEF LineTyped, Send

LEMMA LoggedTyped == LineTyped => Logged \in BOOLEAN
  BY DEF LineTyped, Logged

LEMMA HostTypedNext == Typed /\ [Next]_vars => HostTyped'
<1> SUFFICES ASSUME Typed, [Next]_vars PROVE HostTyped'
  OBVIOUS
<1> USE SerialAssumption DEF Typed
<1>1. CASE SendCommand
  <2>1. PICK c \in Commands : inbox' = inbox \o c /\ wanted' = Asked(wanted, c)
    BY <1>1 DEF SendCommand
  <2>2. inbox' \in Seq(Pairs)
    BY <2>1 DEF HostTyped
  <2>3. wanted' \in Wants
    BY <2>1, AskedTyped DEF HostTyped
  <2>4. sends' \in 0 .. MaxSends
    BY <1>1 DEF SendCommand, HostTyped
  <2>5. hasty' \in BOOLEAN
    BY <1>1 DEF SendCommand
  <2> QED
    BY <2>2, <2>3, <2>4, <2>5 DEF HostTyped
<1>2. CASE inbox' = inbox /\ UNCHANGED <<sends, wanted, hasty>>
  BY <1>2 DEF HostTyped
<1>3. CASE inbox # <<>> /\ inbox' = Tail(inbox) /\ UNCHANGED <<sends, wanted, hasty>>
  BY <1>3 DEF HostTyped
<1>4. CASE Loop
  BY <1>2, <1>3, <1>4 DEF Loop, Take, Stop, Start, TakeArgument, Unknown, NoBytes, WriteHeader,
     Started, SetChannel, AddressByte, AddressRead, AddressEnds, SetFilter, Hop, HopTo, hostVars
<1>5. CASE Callback \/ Flush \/ UNCHANGED vars
  BY <1>2, <1>5 DEF Callback, Packet, PacketOf, Second, Display, ChooseType, WriteRecord, Flush, vars,
     hostVars
<1> QED
  BY <1>1, <1>4, <1>5 DEF Next

LEMMA LoopTypedNext == Typed /\ [Next]_vars => LoopTyped'
<1> SUFFICES ASSUME Typed, [Next]_vars PROVE LoopTyped'
  OBVIOUS
<1> USE DEF Typed, LoopSteps, HeaderParts
<1>1. CASE UNCHANGED loopVars
  BY <1>1 DEF loopVars, LoopTyped, IsHex
<1>2. CASE SendCommand \/ Callback \/ Flush \/ UNCHANGED vars
  BY <1>1, <1>2 DEF SendCommand, Callback, Packet, PacketOf, Second, Display, ChooseType, WriteRecord,
     Flush, vars
<1>3. CASE Loop
  <2>1. CASE Stop \/ Unknown \/ NoBytes \/ Hop
    BY <2>1 DEF Stop, Unknown, NoBytes, Hop, HopTo, Take, LoopTyped
  <2>2. CASE Start("S1", outType) \/ Start("OT", "TEXT") \/ Start("OB", "BINARY")
    BY <2>2 DEF Start, Take, LoopTyped
  <2>3. CASE \/ TakeArgument("FC", "number")
             \/ TakeArgument("F1", "addr1") \/ TakeArgument("F2", "addr2")
    BY <2>3 DEF TakeArgument, Take, LoopTyped
  <2>4. CASE WriteHeader \/ Started
    BY <2>4 DEF WriteHeader, Started, LoopTyped
  <2>5. CASE SetChannel
    <3>1. lpc' \in {"number", "hop"} /\ UNCHANGED <<part, arg>>
      BY <2>5 DEF SetChannel
    <3> QED
      BY <3>1 DEF LoopTyped
  <2>6. CASE AddressByte
    <3>1. Head(inbox) \in Pairs
      BY <2>6 DEF AddressByte, HostTyped
    <3>2. arg' \in Seq(Pairs)
      BY <2>6, <3>1 DEF AddressByte, LoopTyped
    <3> QED
      BY <2>6, <3>2 DEF AddressByte, LoopTyped
  <2>7. CASE AddressRead
    <3>1. CASE IsHex(arg)
      <4>1. lpc' \in {"set1", "set2"} /\ arg' = arg /\ part' = part
        BY <2>7, <3>1 DEF AddressRead, AddressEnds
      <4>2. IsHex(arg)'
        BY <3>1, <4>1 DEF IsHex
      <4> QED
        BY <4>1, <4>2 DEF LoopTyped
    <3>2. CASE ~ IsHex(arg)
      <4>1. lpc' = "hop" /\ arg' = <<>> /\ part' = part
        BY <2>7, <3>2 DEF AddressRead, AddressEnds
      <4> QED
        BY <4>1 DEF LoopTyped
    <3> QED
      BY <3>1, <3>2
  <2>8. CASE SetFilter
    <3>1. part' = part /\ (UNCHANGED <<lpc, arg>> \/ (lpc' = "hop" /\ arg' = <<>>))
      BY <2>8 DEF SetFilter
    <3>2. CASE UNCHANGED <<lpc, part, arg>>
      BY <1>1, <3>2 DEF loopVars
    <3>3. CASE part' = part /\ lpc' = "hop" /\ arg' = <<>>
      BY <3>3 DEF LoopTyped
    <3> QED
      BY <3>1, <3>2, <3>3
  <2> QED
    BY <1>3, <2>1, <2>2, <2>3, <2>4, <2>5, <2>6, <2>7, <2>8 DEF Loop
<1> QED
  BY <1>2, <1>3 DEF Next

LEMMA RadioTypedNext == Typed /\ [Next]_vars => RadioTyped'
<1> SUFFICES ASSUME Typed, [Next]_vars PROVE RadioTyped'
  OBVIOUS
<1> USE SerialAssumption DEF Typed
<1>1. CASE UNCHANGED radioVars
  BY <1>1 DEF radioVars, RadioTyped
<1>2. CASE SetChannel
  BY <1>2 DEF SetChannel, RadioTyped
<1>3. CASE Hop
  <2>1. Len(Channels) = 3 /\ Channels[1] = 1 /\ Channels[2] = 6 /\ Channels[3] = 11
    BY DEF Channels
  <2>2. CASE selChannel = 0
    <3>1. /\ chInx' = IF chInx >= Len(Channels) - 1 THEN 0 ELSE chInx + 1
          /\ radio' = Channels[chInx' + 1] /\ selChannel' = selChannel
      BY <1>3, <2>2 DEF Hop, HopTo
    <3>2. chInx' \in 0 .. 2
      BY <2>1, <3>1 DEF RadioTyped
    <3>3. radio' \in {1, 6, 11}
      BY <2>1, <3>1, <3>2
    <3> QED
      BY <3>1, <3>2, <3>3 DEF RadioTyped
  <2> QED
    BY <1>3, <2>2 DEF Hop, HopTo, RadioTyped
<1>4. CASE Loop /\ ~ SetChannel /\ ~ Hop
  BY <1>1, <1>4 DEF Loop, Take, Stop, Start, TakeArgument, Unknown, NoBytes, WriteHeader,
     Started, AddressByte, AddressRead, AddressEnds, SetFilter
<1>5. CASE SendCommand \/ Callback \/ Flush \/ UNCHANGED vars
  BY <1>1, <1>5 DEF SendCommand, Callback, Packet, PacketOf, Second, Display, ChooseType, WriteRecord,
     Flush, vars
<1> QED
  BY <1>2, <1>3, <1>4, <1>5 DEF Next

LEMMA ModeTypedNext == Typed /\ [Next]_vars => ModeTyped'
<1> SUFFICES ASSUME Typed, [Next]_vars PROVE ModeTyped'
  OBVIOUS
<1> USE DEF Typed
<1>1. CASE UNCHANGED modeVars
  BY <1>1 DEF modeVars, ModeTyped
<1>2. CASE Stop \/ Started
  <2>1. start' \in BOOLEAN
    <3>1. CASE Stop
      BY <3>1 DEF Stop
    <3>2. CASE Started
      BY <3>2 DEF Started
    <3> QED
      BY <1>2, <3>1, <3>2
  <2>2. UNCHANGED <<outType, addr1Filter, addr2Filter>>
    BY <1>2 DEF Stop, Started, Take
  <2> QED
    BY <2>1, <2>2 DEF ModeTyped
<1>3. CASE Start("S1", outType) \/ Start("OT", "TEXT") \/ Start("OB", "BINARY")
  <2>1. outType' \in {"TEXT", "BINARY"}
    BY <1>3 DEF Start, ModeTyped
  <2>2. UNCHANGED <<start, addr1Filter, addr2Filter>>
    BY <1>3 DEF Start, Take
  <2> QED
    BY <2>1, <2>2 DEF ModeTyped
<1>4. CASE SetFilter
  <2>1. lpc \in {"set1", "set2"}
    BY <1>4 DEF SetFilter
  <2>2. arg \in Seq(Hex)
    BY <2>1, HexAddress DEF LoopTyped
  <2>3. \A f : Assigned(f) \in Filters
    BY <2>2 DEF Assigned, Filters
  <2>4. addr1Filter' \in Filters /\ addr2Filter' \in Filters
    BY <1>4, <2>3 DEF SetFilter, ModeTyped
  <2> QED
    BY <1>4, <2>4 DEF SetFilter, ModeTyped
<1>5. CASE /\ Loop /\ ~ Stop /\ ~ Started /\ ~ SetFilter
           /\ ~ (Start("S1", outType) \/ Start("OT", "TEXT") \/ Start("OB", "BINARY"))
  BY <1>1, <1>5 DEF Loop, Take, TakeArgument, Unknown, NoBytes, WriteHeader,
     AddressByte, AddressRead, AddressEnds, SetChannel, Hop, HopTo, modeVars
<1>6. CASE SendCommand \/ Callback \/ Flush \/ UNCHANGED vars
  BY <1>1, <1>6 DEF SendCommand, Callback, Packet, PacketOf, Second, Display, ChooseType, WriteRecord,
     Flush, vars
<1> QED
  BY <1>2, <1>3, <1>4, <1>5, <1>6 DEF Next

LEMMA WifiTypedNext == Typed /\ [Next]_vars => WifiTyped'
<1> SUFFICES ASSUME Typed, [Next]_vars PROVE WifiTyped'
  OBVIOUS
<1> USE SerialAssumption DEF Typed, WifiSteps, RecordParts
<1>1. CASE UNCHANGED wifiVars
  BY <1>1 DEF wifiVars, WifiTyped
<1>0. NoPacket \in [a1 : Seq(Hex), a2 : Seq(Hex)]
  BY DEF NoPacket
<1>b. Done => steady' \in BOOLEAN
  BY DEF Done
<1>2. CASE SendCommand
  <2>1. steady' \in BOOLEAN
    BY <1>2 DEF SendCommand
  <2> QED
    BY <1>2, <2>1 DEF SendCommand, WifiTyped
<1>3. CASE Packet
  <2>1. steady' \in BOOLEAN
    BY <1>3 DEF Packet, PacketOf, FiltersSet
  <2> QED
    BY <1>3, <2>1 DEF Packet, PacketOf, WifiTyped
<1>4. CASE Second
  <2>1. written' = written
    BY <1>4 DEF Second
  <2>2. Done \/ (wpc' = "display" /\ UNCHANGED <<pkt, steady>>)
    BY <1>4 DEF Second
  <2> QED
    BY <1>0, <1>b, <2>1, <2>2 DEF WifiTyped, Done
<1>5. CASE Display
  BY <1>5 DEF Display, WifiTyped
<1>6. CASE ChooseType
  <2>1. written' = written
    BY <1>6 DEF ChooseType
  <2>2. Done \/ (wpc' = "record" /\ UNCHANGED <<pkt, steady>>)
    BY <1>6 DEF ChooseType
  <2> QED
    BY <1>0, <1>b, <2>1, <2>2 DEF WifiTyped, Done
<1>7. CASE WriteRecord
  <2>1. written' \in 0 .. 4
    BY <1>7 DEF WriteRecord, WifiTyped
  <2>2. Done \/ UNCHANGED <<wpc, pkt, steady>>
    BY <1>7 DEF WriteRecord
  <2> QED
    BY <1>0, <1>b, <2>1, <2>2 DEF WifiTyped, Done
<1>8. CASE Loop \/ Flush \/ UNCHANGED vars
  BY <1>1, <1>8 DEF Loop, Take, Stop, Start, TakeArgument, Unknown, NoBytes, WriteHeader,
     Started, SetChannel, AddressByte, AddressRead, AddressEnds, SetFilter, Hop, HopTo, Flush,
     vars
<1> QED
  BY <1>2, <1>3, <1>4, <1>5, <1>6, <1>7, <1>8 DEF Next, Callback

LEMMA LineTypedNext == Typed /\ [Next]_vars => LineTyped'
<1> SUFFICES ASSUME Typed, [Next]_vars PROVE LineTyped'
  OBVIOUS
<1> USE DEF Typed
<1> DEFINE Views == [in : {"nothing", "header", "record", "broken"}, part : 0 .. HeaderParts]
<1>0. Logged \in BOOLEAN
  BY LoggedTyped
<1>1. Nothing \in Views /\ Header \in Views /\ view \in Views /\ held \in BOOLEAN
  BY DEF Nothing, Header, HeaderParts, LineTyped
<1>2. view' \in Views
  <2>1. CASE WriteHeader
    BY <2>1, SendTyped DEF WriteHeader, LoopTyped, HeaderParts
  <2>2. CASE WriteRecord
    BY <2>2, SendTyped DEF WriteRecord, WifiTyped, RecordParts
  <2>3. CASE Flush
    BY <2>3, SendTyped DEF Flush
  <2>4. CASE ~ WriteHeader /\ ~ WriteRecord /\ ~ Flush
    <3>1. view' \in {view, Nothing, Header}
      BY <2>4 DEF Next, SendCommand, Loop, Callback, Take, Stop, Start, TakeArgument, Unknown,
         NoBytes, Started, SetChannel, AddressByte, AddressRead, AddressEnds, SetFilter, Hop, HopTo,
         Packet, PacketOf, Second, Display, ChooseType, lineVars, vars
    <3> QED
      BY <1>1, <3>1
  <2> QED
    BY <2>1, <2>2, <2>3, <2>4
<1>3. held' \in BOOLEAN
  <2>1. CASE held' = held
    BY <1>1, <2>1
  <2>2. CASE held' = Logged
    BY <1>0, <2>2
  <2>3. CASE SetChannel
    <3>1. held' = TRUE \/ held' = held
      BY <2>3 DEF SetChannel
    <3>2. CASE held' = TRUE
      BY <3>2
    <3> QED
      BY <2>1, <3>1, <3>2
  <2>4. CASE Flush
    BY <2>4 DEF Flush
  <2>5. CASE ~ SetChannel /\ ~ Flush
    BY <2>1, <2>2, <2>5 DEF Next, SendCommand, Loop, Callback, Take, Stop, Start, TakeArgument,
       Unknown, NoBytes, WriteHeader, Started, AddressByte, AddressRead, AddressEnds, SetFilter, Hop, HopTo,
       Packet, PacketOf, Second, Display, ChooseType, WriteRecord, lineVars, vars
  <2> QED
    BY <2>3, <2>4, <2>5
<1> QED
  BY <1>2, <1>3 DEF LineTyped

LEMMA TypedNext == Typed /\ [Next]_vars => Typed'
  BY HostTypedNext, LoopTypedNext, RadioTypedNext, ModeTypedNext, WifiTypedNext, LineTypedNext
     DEF Typed

(* TypeOK: among others, a filter in force is made of bytes in hex, or is  *)
(* being assigned, however an address breaks off and whatever command it   *)
(* has swallowed (main.cpp:187-239, 289-309).                              *)
THEOREM SerialTypes == FairSpec => []TypeOK
<1>1. Typed => TypeOK
  BY DEF Typed, HostTyped, LoopTyped, RadioTyped, ModeTyped, WifiTyped, LineTyped, Wants, TypeOK
<1> QED
  BY <1>1, TypedInit, TypedNext, PTL DEF FairSpec

-----------------------------------------------------------------------------
(* CaptureWhole *)

(* While a header is expected the capture is off and the callback idle;    *)
(* while a record is, the reader has as much of it as has been written.    *)
(* A capture stays so readable only in binary mode and without text.       *)
Readable ==
    /\ view # Broken
    /\ view # Nothing => outType = "BINARY" /\ ~ held /\ lpc # "number"
    /\ view.in = "header" =>
         /\ lpc = "start" /\ view.part = part /\ part < HeaderParts
         /\ ~ start /\ wpc = "idle"
    /\ view.in = "record" =>
         /\ view.part = written
         /\ lpc = "start" => part = HeaderParts /\ ~ start /\ wpc = "idle"
    /\ wpc # "record" => written = 0
    /\ lpc # "start" => part = 0
    /\ view.in = "nothing" => view = Nothing
    /\ view.in \in {"nothing", "header", "record"}

LEMMA ReadableInit == Init => Readable
  BY DEF Init, Readable, Nothing, Broken

LEMMA ReadableNext == Typed /\ Readable /\ [Next]_vars => Readable'
<1> SUFFICES ASSUME Typed, Readable, [Next]_vars PROVE Readable'
  OBVIOUS
<1> USE DEF HeaderParts, RecordParts, Nothing, Broken, Records, Header
<1>0. /\ part \in 0 .. 7 /\ written \in 0 .. 4
      /\ view \in [in : {"nothing", "header", "record", "broken"}, part : 0 .. 7]
      /\ held \in BOOLEAN /\ start \in BOOLEAN
  BY DEF Typed, LoopTyped, WifiTyped, LineTyped, ModeTyped
<1>1. CASE SendCommand
  BY <1>1 DEF SendCommand, Readable, loopVars, modeVars, lineVars
<1>2. CASE Loop
  <2>1. CASE Stop \/ Unknown
    BY <2>1 DEF Stop, Unknown, Take, Logged, Readable, wifiVars
  <2>2. ASSUME NEW op, NEW out, Start(op, out) PROVE Readable'
    <3>1. lpc = "read" /\ lpc' = "start" /\ UNCHANGED <<part, start, wpc, written>>
      BY <2>2 DEF Start, Take, wifiVars
    <3>2. CASE view' = Nothing
      BY <3>1, <3>2 DEF Readable
    <3>3. CASE view' # Nothing
      <4>1. view' = Header /\ wpc = "idle" /\ ~ start /\ ~ Logged /\ outType' = "BINARY"
        BY <2>2, <3>3 DEF Start
      <4>2. held' = Logged
        BY <2>2 DEF Start, Take
      <4> QED
        BY <3>1, <4>1, <4>2 DEF Readable
    <3> QED
      BY <3>2, <3>3
  <2>3. ASSUME NEW op, NEW l \in {"number", "addr1", "addr2"}, TakeArgument(op, l),
               l = "number" => op = "FC"
        PROVE  Readable'
    <3>1. /\ lpc = "read" /\ lpc' = l /\ held' = Logged
          /\ UNCHANGED <<part, start, wpc, written, outType>>
      BY <2>3 DEF TakeArgument, Take, wifiVars
    <3>2. view' \in {view, Nothing} /\ (l = "number" => view' = Nothing)
      BY <2>3 DEF TakeArgument
    <3> QED
      BY <1>0, <3>1, <3>2 DEF Readable, Logged
  <2>4. CASE NoBytes \/ Hop \/ AddressByte
    BY <2>4 DEF NoBytes, Hop, HopTo, AddressByte, Readable, modeVars, wifiVars, lineVars
  <2>5. CASE WriteHeader
    BY <1>0, <2>5 DEF WriteHeader, Send, Reads, Readable, modeVars, wifiVars
  <2>6. CASE Started
    <3>1. /\ lpc = "start" /\ (outType = "TEXT" \/ part = 7) /\ held' = Logged
          /\ part' = 0 /\ lpc' = "hop"
          /\ UNCHANGED <<outType, wpc, written, view>>
      BY <2>6 DEF Started, wifiVars
    <3>2. CASE view = Nothing
      BY <3>1, <3>2 DEF Readable
    <3>3. CASE view # Nothing
      BY <1>0, <3>1, <3>3 DEF Readable, Logged
    <3> QED
      BY <3>2, <3>3
  <2>7. CASE SetChannel
    BY <2>7 DEF SetChannel, Readable, modeVars, wifiVars
  <2>8. CASE AddressRead
    BY <1>0, <2>8 DEF AddressRead, AddressEnds, Logged, Readable, modeVars, wifiVars
  <2>9. CASE SetFilter
    BY <2>9 DEF SetFilter, Readable, wifiVars, lineVars
  <2> QED
    BY <1>2, <2>1, <2>2, <2>3, <2>4, <2>5, <2>6, <2>7, <2>8, <2>9 DEF Loop
<1>3. CASE Packet
  BY <1>3 DEF Packet, PacketOf, Readable, loopVars, modeVars, lineVars
<1>4. CASE Second
  BY <1>4 DEF Second, Done, Readable, loopVars, modeVars, lineVars
<1>5. CASE Display
  BY <1>0, <1>5 DEF Display, Logged, Readable, loopVars, modeVars
<1>6. CASE ChooseType
  BY <1>6 DEF ChooseType, Done, Readable, loopVars, modeVars, lineVars
<1>7. CASE WriteRecord
  BY <1>0, <1>7 DEF WriteRecord, Send, Reads, Done, Readable, loopVars, modeVars
<1>8. CASE Flush
  BY <1>8 DEF Flush, Send, Reads, Readable, loopVars, modeVars, wifiVars
<1>9. CASE UNCHANGED vars
  BY <1>9 DEF vars, Readable, loopVars, modeVars, wifiVars, lineVars
<1> QED
  BY <1>1, <1>2, <1>3, <1>4, <1>5, <1>6, <1>7, <1>8, <1>9 DEF Next, Callback

(* CaptureWhole: a capture started while it was off, with no record under  *)
(* way and no text waiting, reads as a pcap file until the next S1, OT, OB *)
(* or FC, whatever filters are set and packets come meanwhile              *)
(* (main.cpp:100-124, 170, 265-287, Sniffer.h:149-173).                    *)
THEOREM CarefulCaptureIsWhole == FairSpec => []CaptureWhole
<1>1. Readable => CaptureWhole
  BY DEF Readable, CaptureWhole
<1> QED
  BY <1>1, TypedInit, TypedNext, ReadableInit, ReadableNext, PTL DEF FairSpec

-----------------------------------------------------------------------------
(* Obeyed and Filtered *)

(* w is v with what c asks for, field by field. *)
Effect(c, v, w) ==
    /\ w.run = IF c[1] = "S0" THEN FALSE
               ELSE IF c[1] \in {"S1", "OT", "OB"} THEN TRUE ELSE v.run
    /\ w.out = IF c[1] = "OT" THEN "TEXT" ELSE IF c[1] = "OB" THEN "BINARY" ELSE v.out
    /\ w.f1 = IF c[1] = "F1" /\ IsHex(Address(c)) THEN Address(c) ELSE v.f1
    /\ w.f2 = IF c[1] = "F2" /\ IsHex(Address(c)) THEN Address(c) ELSE v.f2
    /\ w.ch = IF c[1] = "FC" THEN Number[c[2]] ELSE v.ch

LEMMA AskedFields ==
    ASSUME NEW w \in Wants, NEW c \in Commands PROVE Effect(c, w, Asked(w, c))
<1>1. c[1] \in OpCodes
  BY CommandShape
<1> HIDE DEF Address, IsHex
<1>2. CASE c[1] = "S0"
  BY <1>2 DEF Asked, Wants, Effect
<1>3. CASE c[1] = "S1"
  BY <1>3 DEF Asked, Wants, Effect
<1>4. CASE c[1] = "OT"
  BY <1>4 DEF Asked, Wants, Effect
<1>5. CASE c[1] = "OB"
  BY <1>5 DEF Asked, Wants, Effect
<1>6. CASE c[1] = "FC"
  BY <1>6 DEF Asked, Wants, Effect
<1>7. CASE c[1] = "F1"
  BY <1>7 DEF Asked, Wants, Effect
<1>8. CASE c[1] = "F2"
  BY <1>8 DEF Asked, Wants, Effect
<1> QED
  BY <1>1, <1>2, <1>3, <1>4, <1>5, <1>6, <1>7, <1>8 DEF OpCodes

Strings == Seq(Pairs)

(* A command that the loop task waits a second for. *)
Short(c) == c[1] \in {"F1", "F2"} /\ Len(c) <= AddrSize

(* cs are the commands of the host, at where each begins in all that it    *)
(* has sent, and ws what it wanted before each.  off pairs have been read, *)
(* m is the command in hand, or the next one, and q the one after the      *)
(* last.  Only the last of them can be short.                              *)
Follows(c, a, b, v, w) == c \in Commands /\ b = a + Len(c) /\ w = Asked(v, c)

Chained(m, q, cs, at, ws) ==
    \A i, j \in Nat : m <= i /\ j = i + 1 /\ j <= q => Follows(cs[i], at[i], at[j], ws[i], ws[j])

Ordered(m, q, at) == \A i, j \in Nat : m <= i /\ i <= j /\ j <= q => at[i] <= at[j]

Unread(in, a, off, c) == \A j \in 1 .. Len(c) : a + j > off => in[a + j - off] = c[j]

AllUnread(in, m, q, off, cs, at) ==
    \A i \in Nat : m <= i /\ i < q => Unread(in, at[i], off, cs[i])

AllLong(m, q, cs) == \A i \in Nat : m <= i /\ i < q => ~ Short(cs[i])

ShortLast(m, q, cs) == \A i \in Nat : m <= i /\ i + 1 < q => ~ Short(cs[i])

(* Without an address among the commands from k on, the filter stays.      *)
NoneOf(op, k, q, cs) == \A i \in Nat : k <= i /\ i < q => cs[i][1] # op

FiltersKept(w, m, q, cs, ws) ==
    \A k \in Nat : m <= k /\ k <= q =>
        /\ NoneOf("F1", k, q, cs) => ws[k].f1 = w.f1
        /\ NoneOf("F2", k, q, cs) => ws[k].f2 = w.f2

Pending(in, w, m, q, off, cs, at, ws) ==
    /\ m <= q
    /\ at[q] = off + Len(in)
    /\ ws[q] = w
    /\ Chained(m, q, cs, at, ws)
    /\ Ordered(m, q, at)
    /\ AllUnread(in, m, q, off, cs, at)
    /\ ShortLast(m, q, cs)
    /\ FiltersKept(w, m, q, cs, ws)

(* A function with one value replaced, and what it keeps. *)
Same(q, f, g) == \A i \in Nat : i < q => g[i] = f[i]

LEMMA SameLength ==
    ASSUME NEW S, NEW s \in Seq(S), NEW t \in Seq(S), NEW l \in Nat, Len(s) = l, Len(t) = l,
           \A i \in 1 .. l : s[i] = t[i]
    PROVE  s = t
  OBVIOUS

LEMMA Replaced ==
    ASSUME NEW S, NEW f \in [Nat -> S], NEW n \in Nat, NEW x \in S
    PROVE  \E g \in [Nat -> S] : g[n] = x /\ Same(n, f, g)
<1>1. [f EXCEPT ![n] = x] \in [Nat -> S]
  OBVIOUS
<1> WITNESS [f EXCEPT ![n] = x] \in [Nat -> S]
<1> QED
  BY DEF Same

LEMMA UnreadSent ==
    ASSUME NEW in \in Seq(Pairs), NEW c \in Seq(Pairs), NEW d \in Seq(Pairs),
           NEW a \in Nat, NEW off \in Nat, NEW b \in Nat, b <= off + Len(in),
           NEW v, NEW x, Follows(d, a, b, v, x), Unread(in, a, off, d)
    PROVE  Unread(in \o c, a, off, d)
<1> SUFFICES ASSUME NEW j \in 1 .. Len(d), a + j > off
             PROVE  (in \o c)[a + j - off] = d[j]
  BY DEF Unread
<1>1. in[a + j - off] = d[j]
  BY DEF Unread
<1>2. a + j - off \in 1 .. Len(in)
  BY DEF Follows
<1> QED
  BY <1>1, <1>2

LEMMA UnreadNew ==
    ASSUME NEW in \in Seq(Pairs), NEW c \in Seq(Pairs),
           NEW a \in Nat, NEW off \in Nat, a = off + Len(in)
    PROVE  Unread(in \o c, a, off, c)
<1> SUFFICES ASSUME NEW j \in 1 .. Len(c)
             PROVE  (in \o c)[a + j - off] = c[j]
  BY DEF Unread
<1>1. a + j - off = Len(in) + j
  OBVIOUS
<1> QED
  BY <1>1

LEMMA UnreadByte ==
    ASSUME NEW in \in Seq(Pairs), in # <<>>, NEW d \in Seq(Pairs),
           NEW a \in Nat, NEW off \in Nat, NEW o \in Nat, o = off + 1,
           NEW b \in Nat, b <= off + Len(in),
           NEW v, NEW x, Follows(d, a, b, v, x), Unread(in, a, off, d)
    PROVE  Unread(Tail(in), a, o, d)
<1> SUFFICES ASSUME NEW j \in 1 .. Len(d), a + j > o
             PROVE  Tail(in)[a + j - o] = d[j]
  BY DEF Unread
<1>1. in[a + j - off] = d[j]
  BY DEF Unread
<1>2. a + j - o \in 1 .. Len(in) - 1
  BY DEF Follows
<1> QED
  BY <1>1, <1>2

LEMMA PendingEnd ==
    ASSUME NEW in, NEW w, NEW m \in Nat, NEW q \in Nat, NEW off,
           NEW cs, NEW at \in [Nat -> Nat], NEW ws,
           Pending(in, w, m, q, off, cs, at, ws),
           NEW i \in Nat, NEW j \in Nat, m <= i, i < q, j = i + 1
    PROVE  Follows(cs[i], at[i], at[j], ws[i], ws[j]) /\ at[j] <= at[q]
<1>1. Follows(cs[i], at[i], at[j], ws[i], ws[j])
  BY DEF Pending, Chained
<1>2. m <= j /\ j <= q
  OBVIOUS
<1>3. at[j] <= at[q]
  BY <1>2 DEF Pending, Ordered
<1> QED
  BY <1>1, <1>3

LEMMA ChainedSent ==
    ASSUME NEW m \in Nat, NEW q \in Nat, NEW p \in Nat, p = q + 1,
           NEW cs, NEW at, NEW ws, NEW ncs, NEW nat, NEW nws,
           Chained(m, q, cs, at, ws),
           Same(q, cs, ncs), Same(p, at, nat), Same(p, ws, nws),
           Follows(ncs[q], at[q], nat[p], ws[q], nws[p])
    PROVE  Chained(m, p, ncs, nat, nws)
<1> SUFFICES ASSUME NEW i \in Nat, NEW j \in Nat, m <= i, j = i + 1, j <= p
             PROVE  Follows(ncs[i], nat[i], nat[j], nws[i], nws[j])
  BY DEF Chained
<1>1. nat[i] = at[i] /\ nws[i] = ws[i]
  BY DEF Same
<1>2. CASE j <= q
  <2>1. Follows(cs[i], at[i], at[j], ws[i], ws[j])
    BY <1>2 DEF Chained
  <2>2. ncs[i] = cs[i] /\ nat[j] = at[j] /\ nws[j] = ws[j]
    BY <1>2 DEF Same
  <2> QED
    BY <1>1, <2>1, <2>2
<1>3. CASE i = q /\ j = p
  BY <1>1, <1>3
<1> QED
  BY <1>2, <1>3

LEMMA OrderedSent ==
    ASSUME NEW m \in Nat, NEW q \in Nat, NEW p \in Nat, p = q + 1, m <= q,
           NEW at \in [Nat -> Nat], NEW nat \in [Nat -> Nat],
           Ordered(m, q, at), Same(p, at, nat), at[q] <= nat[p]
    PROVE  Ordered(m, p, nat)
<1> SUFFICES ASSUME NEW i \in Nat, NEW j \in Nat, m <= i, i <= j, j <= p
             PROVE  nat[i] <= nat[j]
  BY DEF Ordered
<1>1. CASE j <= q
  BY <1>1 DEF Ordered, Same
<1>2. CASE i <= q /\ j = p
  <2>1. at[i] <= at[q] /\ nat[i] = at[i]
    BY <1>2 DEF Ordered, Same
  <2> QED
    BY <1>2, <2>1
<1>3. CASE i = p /\ j = p
  BY <1>3
<1> QED
  BY <1>1, <1>2, <1>3

LEMMA KeptSent ==
    ASSUME NEW m \in Nat, NEW q \in Nat, NEW p \in Nat, p = q + 1,
           NEW cs, NEW ws, NEW ncs, NEW nws, NEW w \in Wants, NEW c \in Commands,
           FiltersKept(w, m, q, cs, ws),
           Same(q, cs, ncs), Same(p, ws, nws), ncs[q] = c, nws[p] = Asked(w, c)
    PROVE  FiltersKept(Asked(w, c), m, p, ncs, nws)
<1> SUFFICES ASSUME NEW k \in Nat, m <= k, k <= p
             PROVE  /\ NoneOf("F1", k, p, ncs) => nws[k].f1 = Asked(w, c).f1
                    /\ NoneOf("F2", k, p, ncs) => nws[k].f2 = Asked(w, c).f2
  BY DEF FiltersKept
<1>1. CASE k = p
  BY <1>1
<1>2. CASE k <= q
  <2>1. nws[k] = ws[k]
    BY <1>2 DEF Same
  <2>2. ASSUME NEW op, NoneOf(op, k, p, ncs) PROVE c[1] # op /\ NoneOf(op, k, q, cs)
    BY <1>2, <2>2 DEF NoneOf, Same
  <2>3. /\ c[1] # "F1" => Asked(w, c).f1 = w.f1
        /\ c[1] # "F2" => Asked(w, c).f2 = w.f2
    BY AskedFields DEF Effect
  <2>5. ASSUME NoneOf("F1", k, p, ncs) PROVE nws[k].f1 = Asked(w, c).f1
    <3>1. ws[k].f1 = w.f1
      BY <1>2, <2>2, <2>5 DEF FiltersKept
    <3> QED
      BY <2>1, <2>2, <2>3, <2>5, <3>1
  <2>6. ASSUME NoneOf("F2", k, p, ncs) PROVE nws[k].f2 = Asked(w, c).f2
    <3>1. ws[k].f2 = w.f2
      BY <1>2, <2>2, <2>6 DEF FiltersKept
    <3> QED
      BY <2>1, <2>2, <2>3, <2>6, <3>1
  <2> QED
    BY <2>5, <2>6
<1> QED
  BY <1>1, <1>2

LEMMA UnreadAllSent ==
    ASSUME NEW in \in Seq(Pairs), NEW c \in Seq(Pairs), NEW w,
           NEW m \in Nat, NEW q \in Nat, NEW p \in Nat, p = q + 1, NEW off \in Nat,
           NEW cs \in [Nat -> Strings], NEW at \in [Nat -> Nat], NEW ws, NEW ncs, NEW nat,
           Pending(in, w, m, q, off, cs, at, ws),
           Same(q, cs, ncs), Same(p, at, nat), ncs[q] = c
    PROVE  AllUnread(in \o c, m, p, off, ncs, nat)
<1> SUFFICES ASSUME NEW i \in Nat, m <= i, i < p
             PROVE  Unread(in \o c, nat[i], off, ncs[i])
  BY DEF AllUnread
<1>1. at[q] = off + Len(in)
  BY DEF Pending
<1>2. nat[i] = at[i]
  BY DEF Same
<1>3. CASE i < q
  <2>1. PICK j \in Nat : j = i + 1
    OBVIOUS
  <2>2. Follows(cs[i], at[i], at[j], ws[i], ws[j]) /\ at[j] <= at[q]
    BY <1>3, <2>1, PendingEnd
  <2>3. cs[i] \in Seq(Pairs)
    BY DEF Strings
  <2>4. Unread(in, at[i], off, cs[i])
    BY <1>3 DEF Pending, AllUnread
  <2>5. at[j] <= off + Len(in)
    BY <1>1, <2>2
  <2>6. Unread(in \o c, at[i], off, cs[i])
    BY <2>2, <2>3, <2>4, <2>5, UnreadSent
  <2>7. ncs[i] = cs[i]
    BY <1>3 DEF Same
  <2> QED
    BY <1>2, <2>6, <2>7
<1>4. CASE i = q
  BY <1>1, <1>2, <1>4, UnreadNew
<1> QED
  BY <1>3, <1>4

(* The host sends one command more, and only the last of the others may    *)
(* have been short.                                                        *)
Logs(cs, at, ws) == cs \in [Nat -> Strings] /\ at \in [Nat -> Nat] /\ ws \in [Nat -> Wants]

LEMMA PendingSent ==
    ASSUME NEW in \in Strings, NEW w, NEW m \in Nat, NEW q \in Nat, NEW off \in Nat,
           NEW cs, NEW at, NEW ws, Logs(cs, at, ws),
           NEW c \in Commands, NEW p \in Nat, p = q + 1,
           Pending(in, w, m, q, off, cs, at, ws), AllLong(m, q, cs)
    PROVE  \E ncs, nat, nws :
             /\ Logs(ncs, nat, nws)
             /\ Pending(in \o c, Asked(w, c), m, p, off, ncs, nat, nws)
             /\ Same(q, cs, ncs) /\ Same(p, at, nat) /\ Same(p, ws, nws)
             /\ ncs[q] = c
<1>0. cs \in [Nat -> Strings] /\ at \in [Nat -> Nat] /\ ws \in [Nat -> Wants]
  BY DEF Logs
<1>1. m <= q /\ at[q] = off + Len(in) /\ ws[q] = w
  BY DEF Pending
<1>2. w \in Wants /\ at[q] \in Nat
  BY <1>0, <1>1
<1>3. c \in Seq(Pairs) /\ c \in Strings /\ in \in Seq(Pairs)
  BY CommandShape DEF Strings
<1>4. Len(c) \in Nat /\ Len(in) \in Nat /\ Len(in \o c) = Len(in) + Len(c)
  BY <1>3
<1>5. Asked(w, c) \in Wants
  BY <1>2, AskedTyped
<1>6. PICK ncs \in [Nat -> Strings] : ncs[q] = c /\ Same(q, cs, ncs)
  BY <1>0, <1>3, Replaced
<1>7. PICK nws \in [Nat -> Wants] : nws[p] = Asked(w, c) /\ Same(p, ws, nws)
  BY <1>0, <1>5, Replaced
<1>8. PICK n \in Nat : n = at[q] + Len(c)
  BY <1>2, <1>4
<1>9. PICK nat \in [Nat -> Nat] : nat[p] = n /\ Same(p, at, nat)
  <2>1. at \in [Nat -> Nat]
    BY <1>0
  <2> QED
    BY <2>1, Replaced, ZenonT(30)
<1>10. Follows(ncs[q], at[q], nat[p], ws[q], nws[p])
  BY <1>1, <1>6, <1>7, <1>8, <1>9 DEF Follows
<1>11. at[q] <= nat[p] /\ nat[p] = off + Len(in \o c)
  BY <1>1, <1>2, <1>4, <1>8, <1>9
<1>12. Chained(m, p, ncs, nat, nws)
  BY <1>6, <1>7, <1>9, <1>10, ChainedSent DEF Pending
<1>13. Ordered(m, p, nat)
  BY <1>0, <1>1, <1>9, <1>11, OrderedSent DEF Pending
<1>14. AllUnread(in \o c, m, p, off, ncs, nat)
  BY <1>0, <1>3, <1>6, <1>9, UnreadAllSent
<1>15. ShortLast(m, p, ncs)
  BY <1>6 DEF ShortLast, AllLong, Same
<1>16. FiltersKept(Asked(w, c), m, p, ncs, nws)
  BY <1>2, <1>6, <1>7, KeptSent DEF Pending
<1>17. m <= p
  BY <1>1
<1>18. Pending(in \o c, Asked(w, c), m, p, off, ncs, nat, nws)
  BY <1>7, <1>11, <1>12, <1>13, <1>14, <1>15, <1>16, <1>17 DEF Pending
<1> QED
  BY <1>6, <1>7, <1>9, <1>18 DEF Logs

(* The loop task reads one pair more. *)
LEMMA PendingByte ==
    ASSUME NEW in \in Seq(Pairs), NEW w, NEW m \in Nat, NEW q \in Nat, NEW off \in Nat,
           NEW cs, NEW at, NEW ws, Logs(cs, at, ws),
           NEW o \in Nat, o = off + 1,
           Pending(in, w, m, q, off, cs, at, ws), in # <<>>
    PROVE  Pending(Tail(in), w, m, q, o, cs, at, ws)
<1>0. cs \in [Nat -> Strings] /\ at \in [Nat -> Nat]
  BY DEF Logs
<1>1. at[q] = o + Len(Tail(in)) /\ at[q] = off + Len(in)
  BY <1>0 DEF Pending
<1>2. AllUnread(Tail(in), m, q, o, cs, at)
  <2> SUFFICES ASSUME NEW i \in Nat, m <= i, i < q PROVE Unread(Tail(in), at[i], o, cs[i])
    BY DEF AllUnread
  <2>1. Unread(in, at[i], off, cs[i])
    BY DEF Pending, AllUnread
  <2>2. PICK j \in Nat : j = i + 1
    OBVIOUS
  <2>3. Follows(cs[i], at[i], at[j], ws[i], ws[j]) /\ at[j] <= at[q]
    BY <1>0, <2>2, PendingEnd
  <2>4. cs[i] \in Seq(Pairs)
    BY <1>0 DEF Strings
  <2>5. at[j] <= off + Len(in)
    BY <1>1, <2>3
  <2> QED
    BY <1>0, <2>1, <2>3, <2>4, <2>5, UnreadByte
<1> QED
  BY <1>1, <1>2 DEF Pending

(* It has read all of a command. *)
LEMMA PendingCommand ==
    ASSUME NEW in, NEW w, NEW m \in Nat, NEW q \in Nat, NEW off, NEW cs, NEW at, NEW ws,
           NEW p \in Nat, p = m + 1,
           Pending(in, w, m, q, off, cs, at, ws), m < q
    PROVE  Pending(in, w, p, q, off, cs, at, ws)
  BY DEF Pending, Chained, Ordered, AllUnread, ShortLast, FiltersKept

(* The next pair is pair k of the first command, when k - 1 of it have been *)
(* read.                                                                   *)
Nth(k, c, a, off) == k \in 1 .. Len(c) /\ a + k = off + 1

LEMMA NextPair ==
    ASSUME NEW in \in Seq(Pairs), in # <<>>, NEW a \in Nat, NEW off \in Nat, NEW c, NEW k \in Nat,
           Unread(in, a, off, c), Nth(k, c, a, off)
    PROVE  Head(in) = c[k]
<1>1. a + k > off /\ a + k - off = 1
  BY DEF Nth
<1>2. in[a + k - off] = c[k]
  BY <1>1 DEF Unread, Nth
<1> QED
  BY <1>1, <1>2

LEMMA HasCommand ==
    ASSUME NEW in \in Seq(Pairs), NEW w, NEW m \in Nat, NEW q \in Nat, NEW off \in Nat,
           NEW cs, NEW at, NEW ws, Logs(cs, at, ws),
           Pending(in, w, m, q, off, cs, at, ws), at[m] = off
    PROVE  m < q <=> in # <<>>
<1>1. at[m] \in Nat /\ at \in [Nat -> Nat]
  BY DEF Logs
<1>2. at[q] = off + Len(in) /\ m <= q
  BY DEF Pending
<1>3. CASE m = q
  <2>1. Len(in) = 0
    BY <1>1, <1>2, <1>3
  <2> QED
    BY <1>3, <2>1
<1>4. CASE m < q
  <2>1. PICK j \in Nat : j = m + 1
    OBVIOUS
  <2>2. Follows(cs[m], at[m], at[j], ws[m], ws[j]) /\ at[j] <= at[q]
    <3>1. m <= m
      OBVIOUS
    <3> QED
      BY <1>1, <1>4, <2>1, <3>1, PendingEnd
  <2>3. PICK n \in 1 .. 7 : Len(cs[m]) = n
    BY <2>2, CommandLength DEF Follows
  <2>4. at[j] = at[m] + n
    BY <2>2, <2>3 DEF Follows
  <2>5. at[j] <= at[q] /\ at[j] \in Nat
    BY <1>1, <2>2
  <2>6. Len(in) # 0
    <3>1. PICK a \in Nat, b \in Nat, l \in Nat : a = at[j] /\ b = at[q] /\ l = Len(in)
      BY <1>1, <2>5
    <3>2. b = off + l /\ a = off + n /\ a <= b
      BY <1>2, <2>4, <2>5, <3>1
    <3>3. l # 0
      BY <3>2
    <3> QED
      BY <3>1, <3>3
  <2> QED
    BY <1>4, <2>6
<1> QED
  BY <1>2, <1>3, <1>4

Ends(c, a, off) == off = a + Len(c)

LEMMA CommandDone ==
    ASSUME NEW in, NEW w, NEW m \in Nat, NEW q \in Nat, NEW off \in Nat,
           NEW cs, NEW at, NEW ws, Logs(cs, at, ws),
           Pending(in, w, m, q, off, cs, at, ws), m < q, Ends(cs[m], at[m], off),
           NEW p \in Nat, p = m + 1
    PROVE  /\ Pending(in, w, p, q, off, cs, at, ws)
           /\ at[p] = off
           /\ ws[p] = Asked(ws[m], cs[m]) /\ ws[m] \in Wants /\ ws[p] \in Wants
<1>1. at \in [Nat -> Nat] /\ ws \in [Nat -> Wants]
  BY DEF Logs
<1>2. Follows(cs[m], at[m], at[p], ws[m], ws[p])
  <2>1. m <= m
    OBVIOUS
  <2> QED
    BY <1>1, <2>1, PendingEnd
<1>3. Pending(in, w, p, q, off, cs, at, ws)
  BY PendingCommand
<1>4. ws[m] \in Wants /\ ws[p] \in Wants
  BY <1>1
<1> QED
  BY <1>2, <1>3, <1>4 DEF Follows, Ends

(* A command that has not been read begins in what has not been read.      *)
LEMMA OpCodeUnread ==
    ASSUME NEW in \in Seq(Pairs), NEW w, NEW m \in Nat, NEW q \in Nat, NEW off \in Nat,
           NEW cs, NEW at, NEW ws, Logs(cs, at, ws),
           Pending(in, w, m, q, off, cs, at, ws),
           NEW i \in Nat, m <= i, i < q, off <= at[i]
    PROVE  \E x \in DOMAIN in : x = at[i] + 1 - off /\ in[x] = cs[i][1]
<1>1. at \in [Nat -> Nat] /\ at[i] \in Nat
  BY DEF Logs
<1>2. PICK j \in Nat : j = i + 1
  OBVIOUS
<1>3. Follows(cs[i], at[i], at[j], ws[i], ws[j]) /\ at[j] <= at[q]
  BY <1>1, <1>2, PendingEnd
<1>4. PICK n \in 1 .. 7 : Len(cs[i]) = n
  BY <1>3, CommandLength DEF Follows
<1>5. at[j] = at[i] + n /\ at[q] = off + Len(in) /\ at[j] \in Nat
  BY <1>1, <1>3, <1>4 DEF Follows, Pending
<1>6. PICK x \in Nat : x = at[i] + 1 - off
  BY <1>1
<1>7. at[j] <= at[q]
  BY <1>3
<1>8. x \in 1 .. Len(in)
  <2>1. PICK a \in Nat, b \in Nat, d \in Nat, l \in Nat :
          a = at[i] /\ b = at[j] /\ d = at[q] /\ l = Len(in)
    <3>1. at[i] \in Nat /\ at[j] \in Nat /\ at[q] \in Nat
      BY <1>1
    <3>2. Len(in) \in Nat
      OBVIOUS
    <3> QED
      BY <3>1, <3>2
  <2>2. b = a + n /\ d = off + l /\ b <= d /\ x = a + 1 - off /\ off <= a
    BY <1>5, <1>6, <1>7, <2>1
  <2>3. x \in 1 .. l
    BY <2>2
  <2> QED
    BY <2>1, <2>3
<1>9. Unread(in, at[i], off, cs[i])
  BY DEF Pending, AllUnread
<1>10. 1 \in 1 .. Len(cs[i]) /\ at[i] + 1 > off
  <2>1. 1 \in 1 .. n
    OBVIOUS
  <2>2. at[i] + 1 > off
    BY <1>1
  <2> QED
    BY <1>4, <2>1, <2>2
<1>11. in[at[i] + 1 - off] = cs[i][1]
  BY <1>9, <1>10 DEF Unread
<1> QED
  BY <1>6, <1>8, <1>11

(* A command that has begun to be read is the first.                       *)
LEMMA BegunIsFirst ==
    ASSUME NEW in, NEW w, NEW m \in Nat, NEW q \in Nat, NEW off \in Nat,
           NEW cs, NEW at, NEW ws, Logs(cs, at, ws),
           Pending(in, w, m, q, off, cs, at, ws),
           m < q => off <= at[m] + Len(cs[m]),
           NEW i \in Nat, m <= i, i < q, at[i] < off
    PROVE  i = m
<1> SUFFICES ASSUME m < i PROVE FALSE
  OBVIOUS
<1>1. at \in [Nat -> Nat]
  BY DEF Logs
<1>2. PICK j \in Nat : j = m + 1
  OBVIOUS
<1>3. Follows(cs[m], at[m], at[j], ws[m], ws[j])
  <2>1. m <= m /\ m < q
    OBVIOUS
  <2> QED
    BY <1>1, <1>2, <2>1, PendingEnd
<1>4. off <= at[j]
  BY <1>3 DEF Follows
<1>5. at[j] <= at[i]
  BY <1>2 DEF Pending, Ordered
<1> QED
  BY <1>1, <1>4, <1>5

(* What the loop task has and is about to set is what the host has asked   *)
(* for with the commands that it has read.                                 *)
Applied(w) ==
    /\ w.run = (IF lpc = "start" THEN TRUE ELSE start)
    /\ w.out = outType
    /\ w.f1 = (IF lpc = "set1" THEN arg ELSE addr1Filter)
    /\ w.f2 = (IF lpc = "set2" THEN arg ELSE addr2Filter)
    /\ w.ch = selChannel

Taking == {"number", "addr1", "addr2"}

(* The loop task has read the op code of c, and arg of what follows it.    *)
OpOf(l) == IF l = "number" THEN "FC" ELSE IF l = "addr1" THEN "F1" ELSE "F2"

InHand(c, a, off) ==
    /\ c[1] = OpOf(lpc)
    /\ off = a + 1 + Len(arg)
    /\ Len(arg) < Len(c)
    /\ \A j \in 1 .. Len(arg) : arg[j] = c[j + 1]

Place(m, q, off, cs, at) ==
    /\ lpc \in Taking => m < q /\ InHand(cs[m], at[m], off)
    /\ lpc \notin Taking => at[m] = off
    /\ lpc \notin {"addr1", "addr2", "set1", "set2"} => arg = <<>>

(* While a packet is judged by filters that stay as they are, it has the   *)
(* addresses it has been seen to have.                                     *)
Judged(m, q, cs) ==
    steady =>
        /\ lpc \notin {"addr1", "addr2", "set1", "set2"}
        /\ NoneOf("F1", m, q, cs) /\ NoneOf("F2", m, q, cs)
        /\ IsPrefix(wanted.f1, pkt.a1)
        /\ wpc \in {"display", "type", "record"} => IsPrefix(wanted.f2, pkt.a2)

Explains(m, q, off, cs, at, ws) ==
    /\ Logs(cs, at, ws)
    /\ Pending(inbox, wanted, m, q, off, cs, at, ws)
    /\ Applied(ws[m])
    /\ Place(m, q, off, cs, at)
    /\ Judged(m, q, cs)

(* Every command of a host that pauses after a short address has been      *)
(* obeyed or will be read as it was sent.                                  *)
Served == hasty \/ \E m, q, off \in Nat : \E cs, at, ws : Explains(m, q, off, cs, at, ws)

RadioFollows == selChannel \in 1 .. 13 => radio = selChannel

LEMMA ServedInit == Init => Served
<1> SUFFICES ASSUME Init PROVE Served
  OBVIOUS
<1>1. wanted \in Wants
  BY SerialAssumption DEF Init, Wants
<1>2. <<>> \in Strings
  BY DEF Strings
<1> DEFINE cs == [i \in Nat |-> <<>>]
           at == [i \in Nat |-> 0]
           ws == [i \in Nat |-> wanted]
<1>3. Logs(cs, at, ws)
  BY <1>1, <1>2 DEF Logs
<1>4. at[0] = 0 /\ ws[0] = wanted
  OBVIOUS
<1> HIDE DEF cs, at, ws
<1>5. Pending(inbox, wanted, 0, 0, 0, cs, at, ws)
  BY <1>4 DEF Init, Pending, Chained, Ordered, AllUnread, ShortLast, FiltersKept
<1>6. Applied(ws[0])
  BY <1>4 DEF Init, Applied
<1>7. Place(0, 0, 0, cs, at)
  BY <1>4 DEF Init, Place, Taking
<1>8. Judged(0, 0, cs)
  BY DEF Init, Judged
<1> QED
  BY <1>3, <1>5, <1>6, <1>7, <1>8 DEF Served, Explains

LEMMA HastyServed == hasty /\ hasty' = hasty => Served'
  BY DEF Served

(* The state that Explains is about, but for what only Judged looks at.    *)
explained == <<inbox, wanted, lpc, arg, selChannel, modeVars>>

LEMMA ExplainsKept ==
    ASSUME NEW m \in Nat, NEW q \in Nat, NEW off \in Nat, NEW cs, NEW at, NEW ws,
           Explains(m, q, off, cs, at, ws), UNCHANGED explained, Judged(m, q, cs)'
    PROVE  Explains(m, q, off, cs, at, ws)'
<1>1. Logs(cs, at, ws)'
  BY DEF Explains
<1>2. Pending(inbox, wanted, m, q, off, cs, at, ws)'
  BY DEF Explains, explained
<1>3. Applied(ws[m])'
  BY DEF Explains, explained, modeVars, Applied
<1>4. Place(m, q, off, cs, at)'
  BY DEF Explains, explained, Place, InHand, OpOf, Taking
<1> QED
  BY <1>1, <1>2, <1>3, <1>4 DEF Explains

(* The first command, while some of it has been read. *)
LEMMA InHandCommand ==
    ASSUME Typed, NEW m \in Nat, NEW q \in Nat, NEW off \in Nat, NEW cs, NEW at, NEW ws,
           Explains(m, q, off, cs, at, ws), lpc \in Taking
    PROVE  /\ m < q /\ cs[m] \in Commands /\ ws[m] \in Wants /\ at[m] \in Nat
           /\ InHand(cs[m], at[m], off)
           /\ cs[m] \in Seq(Pairs)
<1>1. m < q /\ InHand(cs[m], at[m], off)
  BY DEF Explains, Place
<1>2. ws[m] \in Wants /\ at[m] \in Nat /\ at \in [Nat -> Nat]
  BY DEF Explains, Logs
<1>3. PICK j \in Nat : j = m + 1
  OBVIOUS
<1>4. Pending(inbox, wanted, m, q, off, cs, at, ws) /\ m <= m
  BY DEF Explains
<1>5. Follows(cs[m], at[m], at[j], ws[m], ws[j])
  BY <1>1, <1>2, <1>3, <1>4, PendingEnd
<1> QED
  BY <1>1, <1>2, <1>5, CommandShape DEF Follows

LEMMA NextArgument ==
    ASSUME Typed, NEW m \in Nat, NEW q \in Nat, NEW off \in Nat, NEW cs, NEW at, NEW ws,
           Explains(m, q, off, cs, at, ws), lpc \in Taking, inbox # <<>>,
           NEW k \in Nat, Nth(k, cs[m], at[m], off)
    PROVE  Head(inbox) = cs[m][k]
<1>1. inbox \in Seq(Pairs)
  BY DEF Typed, HostTyped
<1>2. m < q /\ at[m] \in Nat
  BY InHandCommand
<1>3. Unread(inbox, at[m], off, cs[m])
  BY <1>2 DEF Explains, Pending, AllUnread
<1>4. at[m] \in Nat
  BY <1>2
<1> QED
  BY <1>1, <1>3, <1>4, NextPair

(* No command that has not been begun is an address. *)
LEMMA NoAddress ==
    ASSUME Typed, NEW m \in Nat, NEW q \in Nat, NEW off \in Nat, NEW cs, NEW at, NEW ws,
           Explains(m, q, off, cs, at, ws), FiltersSet
    PROVE  /\ NoneOf("F1", m, q, cs) /\ NoneOf("F2", m, q, cs)
           /\ addr1Filter = wanted.f1 /\ addr2Filter = wanted.f2
           /\ wanted \in Wants
<1>0. inbox \in Seq(Pairs) /\ wanted \in Wants
  BY DEF Typed, HostTyped
<1>1. Pending(inbox, wanted, m, q, off, cs, at, ws) /\ Logs(cs, at, ws)
  BY DEF Explains
<1>2. ASSUME NEW i \in Nat, m <= i, i < q PROVE cs[i][1] \notin {"F1", "F2"}
  <2>0. at \in [Nat -> Nat] /\ at[i] \in Nat /\ at[m] \in Nat
    BY <1>1 DEF Logs
  <2>1. CASE off <= at[i]
    <3>1. PICK x \in DOMAIN inbox : x = at[i] + 1 - off /\ inbox[x] = cs[i][1]
      BY <1>0, <1>1, <1>2, <2>1, OpCodeUnread
    <3> QED
      BY <3>1 DEF FiltersSet
  <2>2. CASE at[i] < off
    <3>1. CASE lpc \in Taking
      <4>1. m < q /\ InHand(cs[m], at[m], off) /\ cs[m] \in Seq(Pairs)
        BY <3>1, InHandCommand
      <4>2. lpc = "number" /\ cs[m][1] = "FC"
        BY <3>1, <4>1 DEF InHand, OpOf, Taking, FiltersSet
      <4>3. arg \in Seq(Pairs)
        BY DEF Typed, LoopTyped
      <4>4. PICK l \in Nat, n \in Nat : l = Len(arg) /\ n = Len(cs[m])
        BY <4>1, <4>3
      <4>5. off = at[m] + 1 + l /\ l < n
        BY <4>1, <4>4 DEF InHand
      <4>6. off <= at[m] + n
        BY <2>0, <4>5
      <4>7. i = m
        BY <1>1, <1>2, <2>2, <4>4, <4>6, BegunIsFirst
      <4> QED
        BY <4>2, <4>7
    <3>2. CASE lpc \notin Taking
      <4>1. at[m] = off
        BY <3>2 DEF Explains, Place
      <4>2. at[m] <= at[i]
        BY <1>1, <1>2 DEF Pending, Ordered
      <4> QED
        BY <2>0, <2>2, <4>1, <4>2
    <3> QED
      BY <3>1, <3>2
  <2> QED
    BY <2>0, <2>1, <2>2
<1>3. NoneOf("F1", m, q, cs) /\ NoneOf("F2", m, q, cs)
  BY <1>2 DEF NoneOf
<1>4. ws[m].f1 = wanted.f1 /\ ws[m].f2 = wanted.f2
  <2>1. m <= m /\ m <= q
    BY <1>1 DEF Pending
  <2> QED
    BY <1>1, <1>3, <2>1 DEF Pending, FiltersKept
<1>5. ws[m].f1 = addr1Filter /\ ws[m].f2 = addr2Filter
  BY DEF Explains, Applied, FiltersSet
<1> QED
  BY <1>0, <1>3, <1>4, <1>5

(* The host sends. *)
LEMMA SendServed == Typed /\ Served /\ SendCommand => Served'
<1> SUFFICES ASSUME Typed, Served, SendCommand, hasty' # TRUE PROVE Served'
  BY DEF Served
<1>0. inbox \in Seq(Pairs) /\ arg \in Seq(Pairs) /\ inbox \in Strings
  BY DEF Typed, HostTyped, LoopTyped, Strings
<1>1. hasty = FALSE /\ ~ ShortPending
  BY DEF SendCommand, Typed, HostTyped
<1>2. PICK m \in Nat, q \in Nat, off \in Nat : \E cs, at, ws : Explains(m, q, off, cs, at, ws)
  BY <1>1 DEF Served
<1>3. PICK cs, at, ws : Explains(m, q, off, cs, at, ws)
  BY <1>2
<1>4. PICK c \in Commands :
        /\ inbox' = inbox \o c /\ wanted' = Asked(wanted, c)
        /\ steady' = (steady /\ c[1] \notin {"F1", "F2"})
  BY DEF SendCommand
<1>5. Pending(inbox, wanted, m, q, off, cs, at, ws) /\ Logs(cs, at, ws) /\ m <= q
  BY <1>3 DEF Explains, Pending
<1>6. AllLong(m, q, cs)
  <2> SUFFICES ASSUME NEW i \in Nat, m <= i, i < q, Short(cs[i]) PROVE FALSE
    BY DEF AllLong
  <2>1. PICK j \in Nat : j = i + 1
    OBVIOUS
  <2>2. j = q
    BY <1>5, <2>1 DEF Pending, ShortLast
  <2>3. at \in [Nat -> Nat]
    BY <1>5 DEF Logs
  <2>4. Follows(cs[i], at[i], at[j], ws[i], ws[j])
    BY <1>5, <2>1, <2>3, PendingEnd
  <2>5. PICK n \in 1 .. 7 : Len(cs[i]) = n
    BY <2>4, CommandLength DEF Follows
  <2>6. at[j] = at[i] + n /\ at[j] = off + Len(inbox) /\ n <= AddrSize
    BY <1>5, <2>2, <2>4, <2>5 DEF Follows, Pending, Short
  <2>7. PICK a \in Nat, b \in Nat, l \in Nat, k \in Nat :
          a = at[i] /\ b = at[j] /\ l = Len(inbox) /\ k = Len(arg)
    <3>1. at[i] \in Nat /\ at[j] \in Nat
      BY <2>3
    <3>2. Len(inbox) \in Nat /\ Len(arg) \in Nat
      BY <1>0
    <3> QED
      BY <3>1, <3>2
  <2>8. b = a + n /\ b = off + l /\ n <= 6
    BY <2>6, <2>7 DEF AddrSize
  <2>9. CASE off <= a
    <3>1. off <= at[i]
      BY <2>7, <2>9
    <3>2. PICK x \in DOMAIN inbox : x = at[i] + 1 - off /\ inbox[x] = cs[i][1]
      BY <1>0, <1>5, <3>1, OpCodeUnread
    <3>3. inbox[x] \in {"F1", "F2"}
      BY <3>2 DEF Short
    <3>4. l - x < 6
      BY <2>7, <2>8, <3>2, SMTT(30)
    <3> QED
      BY <1>1, <2>7, <3>3, <3>4 DEF ShortPending, AddrSize
  <2>10. CASE a < off
    <3>0. at[m] \in Nat /\ at[m] <= at[i]
      BY <1>5, <2>3 DEF Pending, Ordered
    <3>1. lpc \in Taking
      BY <1>3, <2>7, <2>10, <3>0 DEF Explains, Place
    <3>2. m < q /\ InHand(cs[m], at[m], off) /\ cs[m] \in Seq(Pairs)
      BY <1>3, <3>1, InHandCommand
    <3>3. PICK e \in Nat : e = Len(cs[m])
      BY <3>2
    <3>4. off = at[m] + 1 + k /\ k < e
      BY <2>7, <3>2, <3>3 DEF InHand
    <3>5. off <= at[m] + e /\ at[i] < off
      BY <2>7, <2>10, <3>0, <3>4
    <3>6. i = m
      BY <1>5, <3>3, <3>5, BegunIsFirst
    <3>7. lpc \in {"addr1", "addr2"}
      BY <3>1, <3>2, <3>6 DEF InHand, OpOf, Short, Taking
    <3>8. off = a + 1 + k
      BY <2>7, <3>4, <3>6
    <3>9. k + l < 6
      BY <2>8, <3>8
    <3> QED
      BY <1>1, <2>7, <3>7, <3>9 DEF ShortPending, AddrSize
  <2> QED
    BY <2>9, <2>10
<1>7. PICK p \in Nat : p = q + 1
  OBVIOUS
<1>8. PICK ncs, nat, nws :
        /\ Logs(ncs, nat, nws)
        /\ Pending(inbox \o c, Asked(wanted, c), m, p, off, ncs, nat, nws)
        /\ Same(q, cs, ncs) /\ Same(p, at, nat) /\ Same(p, ws, nws)
        /\ ncs[q] = c
  BY <1>0, <1>5, <1>6, <1>7, PendingSent
<1>9. m < p /\ nat[m] = at[m] /\ nws[m] = ws[m] /\ (m < q => ncs[m] = cs[m])
  BY <1>5, <1>7, <1>8 DEF Same
<1>10. UNCHANGED <<lpc, arg, selChannel, modeVars, wpc, pkt>>
  BY DEF SendCommand, loopVars, radioVars
<1>11. Applied(nws[m])'
  BY <1>3, <1>9, <1>10 DEF Explains, Applied, modeVars
<1>12. Place(m, p, off, ncs, nat)'
  BY <1>3, <1>9, <1>10 DEF Explains, Place, InHand, OpOf, Taking
<1>13. Judged(m, p, ncs)'
  <2> SUFFICES ASSUME steady, c[1] \notin {"F1", "F2"}
               PROVE  /\ lpc \notin {"addr1", "addr2", "set1", "set2"}
                      /\ NoneOf("F1", m, p, ncs) /\ NoneOf("F2", m, p, ncs)
                      /\ IsPrefix(wanted'.f1, pkt.a1)
                      /\ wpc \in {"display", "type", "record"} => IsPrefix(wanted'.f2, pkt.a2)
    BY <1>4, <1>10 DEF Judged
  <2>1. Judged(m, q, cs)
    BY <1>3 DEF Explains
  <2>2. wanted'.f1 = wanted.f1 /\ wanted'.f2 = wanted.f2
    <3>1. wanted \in Wants
      BY DEF Typed, HostTyped
    <3> QED
      BY <1>4, <3>1, AskedFields DEF Effect
  <2>3. ASSUME NEW op \in {"F1", "F2"} PROVE NoneOf(op, m, p, ncs)
    <3> SUFFICES ASSUME NEW i \in Nat, m <= i, i < p PROVE ncs[i][1] # op
      BY DEF NoneOf
    <3>1. CASE i < q
      <4>1. cs[i][1] # op
        BY <2>1, <3>1 DEF Judged, NoneOf
      <4> QED
        BY <1>8, <3>1, <4>1 DEF Same
    <3>2. CASE i = q
      BY <1>8, <3>2
    <3> QED
      BY <1>7, <3>1, <3>2
  <2> QED
    BY <2>1, <2>2, <2>3 DEF Judged
<1>14. Pending(inbox, wanted, m, p, off, ncs, nat, nws)'
  BY <1>4, <1>8
<1>15. Explains(m, p, off, ncs, nat, nws)'
  BY <1>8, <1>11, <1>12, <1>13, <1>14 DEF Explains
<1> QED
  BY <1>15 DEF Served

(* The loop task takes an op code: it is the one of the next command.      *)
LEMMA TakeNext ==
    ASSUME Typed, NEW m \in Nat, NEW q \in Nat, NEW off \in Nat, NEW cs, NEW at, NEW ws,
           Explains(m, q, off, cs, at, ws), NEW op, Take(op)
    PROVE  \E p, o \in Nat :
             /\ p = m + 1 /\ o = off + 1 /\ m < q
             /\ cs[m] \in Commands /\ cs[m][1] = op
             /\ Pending(inbox', wanted', m, q, o, cs, at, ws)
             /\ at[m] \in Nat /\ o = at[m] + 1
             /\ ws[m] \in Wants
<1>0. inbox \in Seq(Pairs) /\ inbox # <<>> /\ Head(inbox) = op
  BY DEF Typed, HostTyped, Take
<1>1. Pending(inbox, wanted, m, q, off, cs, at, ws) /\ Logs(cs, at, ws)
  BY DEF Explains
<1>2. at[m] = off /\ at \in [Nat -> Nat] /\ ws \in [Nat -> Wants]
  BY <1>1 DEF Explains, Place, Take, Taking, Logs
<1>3. m < q
  BY <1>0, <1>1, <1>2, HasCommand
<1>4. PICK p \in Nat, o \in Nat : p = m + 1 /\ o = off + 1
  OBVIOUS
<1>5. m <= m
  OBVIOUS
<1>6. Follows(cs[m], at[m], at[p], ws[m], ws[p])
  BY <1>1, <1>2, <1>3, <1>4, <1>5, PendingEnd
<1>7. PICK n \in 1 .. 7 : Len(cs[m]) = n
  BY <1>6, CommandLength DEF Follows
<1>8. PICK k \in Nat : k = 1
  OBVIOUS
<1>9. Nth(k, cs[m], at[m], off)
  BY <1>2, <1>7, <1>8 DEF Nth
<1>10. Head(inbox) = cs[m][1]
  <2>1. Head(inbox) = cs[m][k]
    <3>1. inbox \in Seq(Pairs) /\ inbox # <<>>
      BY <1>0
    <3>2. Unread(inbox, at[m], off, cs[m])
      BY <1>1, <1>3 DEF Pending, AllUnread
    <3>3. at[m] \in Nat
      BY <1>2
    <3> QED
      BY <1>9, <3>1, <3>2, <3>3, NextPair
  <2> QED
    BY <1>8, <2>1
<1>11. inbox' = Tail(inbox) /\ wanted' = wanted
  BY DEF Take
<1>12. Pending(inbox', wanted', m, q, o, cs, at, ws)
  BY <1>0, <1>1, <1>4, <1>11, PendingByte
<1>13. o = at[m] + 1 /\ at[m] \in Nat /\ ws[m] \in Wants
  BY <1>2, <1>4
<1> QED
  BY <1>0, <1>3, <1>4, <1>6, <1>10, <1>12, <1>13 DEF Follows

LEMMA TakeWhole ==
    ASSUME Typed, NEW m \in Nat, NEW q \in Nat, NEW off \in Nat, NEW cs, NEW at, NEW ws,
           Explains(m, q, off, cs, at, ws), NEW op \in {"S0", "S1", "OT", "OB"}, Take(op)
    PROVE  \E p, o \in Nat :
             /\ p = m + 1 /\ at[p] = o
             /\ cs[m] \in Commands /\ cs[m][1] = op
             /\ Pending(inbox', wanted', p, q, o, cs, at, ws)
             /\ ws[m] \in Wants /\ ws[p] = Asked(ws[m], cs[m])
<1>1. PICK p \in Nat, o \in Nat :
        /\ p = m + 1 /\ o = off + 1 /\ m < q
        /\ cs[m] \in Commands /\ cs[m][1] = op
        /\ Pending(inbox', wanted', m, q, o, cs, at, ws)
        /\ at[m] \in Nat /\ o = at[m] + 1
        /\ ws[m] \in Wants
  BY TakeNext
<1>2. Len(cs[m]) = 1
  BY <1>1, SerialAssumption
<1>3. Ends(cs[m], at[m], o)
  BY <1>1, <1>2 DEF Ends
<1>4. Logs(cs, at, ws)
  BY DEF Explains
<1>5. /\ Pending(inbox', wanted', p, q, o, cs, at, ws)
      /\ at[p] = o
      /\ ws[p] = Asked(ws[m], cs[m])
  <2>1. Pending(inbox', wanted', m, q, o, cs, at, ws) /\ m < q /\ p = m + 1
    BY <1>1
  <2> QED
    BY <1>3, <1>4, <2>1, CommandDone
<1> QED
  BY <1>1, <1>5

(* What is judged after a command of the chain has been read.              *)
LEMMA JudgedLater ==
    ASSUME NEW m \in Nat, NEW q \in Nat, NEW p \in Nat, m <= p, NEW cs,
           Judged(m, q, cs), UNCHANGED <<wanted, steady, wpc, pkt>>,
           steady => lpc' \notin {"addr1", "addr2", "set1", "set2"}
    PROVE  Judged(p, q, cs)'
<1>1. \A op : NoneOf(op, m, q, cs) => NoneOf(op, p, q, cs)
  BY DEF NoneOf
<1> QED
  BY <1>1 DEF Judged

LEMMA TakeWholeServed ==
    ASSUME Typed, Served, NEW op \in {"S0", "S1", "OT", "OB"}, Take(op),
           start' = (IF op = "S0" THEN FALSE ELSE start),
           lpc' = (IF op = "S0" THEN "hop" ELSE "start"),
           outType' = (IF op = "OT" THEN "TEXT" ELSE IF op = "OB" THEN "BINARY" ELSE outType)
    PROVE  Served'
<1>0. CASE hasty
  BY <1>0 DEF Served, Take
<1>1. CASE ~ hasty
  <2>1. PICK m \in Nat, q \in Nat, off \in Nat : \E cs, at, ws : Explains(m, q, off, cs, at, ws)
    BY <1>1 DEF Served
  <2>2. PICK cs, at, ws : Explains(m, q, off, cs, at, ws)
    BY <2>1
  <2>3. PICK p \in Nat, o \in Nat :
          /\ p = m + 1 /\ at[p] = o
          /\ cs[m] \in Commands /\ cs[m][1] = op
          /\ Pending(inbox', wanted', p, q, o, cs, at, ws)
          /\ ws[m] \in Wants /\ ws[p] = Asked(ws[m], cs[m])
    BY <2>2, TakeWhole
  <2>4. /\ lpc = "read" /\ lpc' \in {"hop", "start"}
        /\ UNCHANGED <<wanted, arg, selChannel, addr1Filter, addr2Filter, steady, wpc, pkt>>
    BY DEF Take, radioVars, wifiVars
  <2>5. Applied(ws[m]) /\ Judged(m, q, cs) /\ Logs(cs, at, ws) /\ arg = <<>>
    BY <2>2, <2>4 DEF Explains, Place
  <2>6. Applied(ws[p])'
    <3>1. /\ ws[p].run = (IF op = "S0" THEN FALSE ELSE TRUE)
          /\ ws[p].out = (IF op = "OT" THEN "TEXT" ELSE IF op = "OB" THEN "BINARY" ELSE ws[m].out)
          /\ ws[p].f1 = ws[m].f1 /\ ws[p].f2 = ws[m].f2 /\ ws[p].ch = ws[m].ch
      <4>1. Effect(cs[m], ws[m], ws[p]) /\ cs[m][1] = op
        BY <2>3, AskedFields
      <4> QED
        BY <4>1 DEF Effect
    <3> QED
      BY <2>4, <2>5, <3>1 DEF Applied
  <2>7. Place(p, q, o, cs, at)'
    BY <2>3, <2>4, <2>5 DEF Place, Taking
  <2>8. Judged(p, q, cs)'
    <3>1. m <= p
      BY <2>3
    <3> QED
      BY <2>4, <2>5, <3>1, JudgedLater
  <2>9. Explains(p, q, o, cs, at, ws)'
    BY <2>3, <2>5, <2>6, <2>7, <2>8 DEF Explains
  <2> QED
    BY <2>9 DEF Served
<1> QED
  BY <1>0, <1>1

LEMMA TakeArgumentServed ==
    ASSUME Typed, Served, NEW l \in Taking, TakeArgument(OpOf(l), l) PROVE Served'
<1>0. CASE hasty
  BY <1>0 DEF Served, TakeArgument, Take
<1>1. CASE ~ hasty
  <2>1. PICK m \in Nat, q \in Nat, off \in Nat : \E cs, at, ws : Explains(m, q, off, cs, at, ws)
    BY <1>1 DEF Served
  <2>2. PICK cs, at, ws : Explains(m, q, off, cs, at, ws)
    BY <2>1
  <2>3. PICK p \in Nat, o \in Nat :
          /\ p = m + 1 /\ o = off + 1 /\ m < q
          /\ cs[m] \in Commands /\ cs[m][1] = OpOf(l)
          /\ Pending(inbox', wanted', m, q, o, cs, at, ws)
          /\ at[m] \in Nat /\ o = at[m] + 1
          /\ ws[m] \in Wants
    BY <2>2, TakeNext DEF TakeArgument
  <2>4. /\ lpc = "read" /\ lpc' = l /\ arg = <<>>
        /\ UNCHANGED <<wanted, arg, selChannel, start, outType, addr1Filter, addr2Filter, steady,
                       wpc, pkt>>
    BY <2>2 DEF TakeArgument, Take, radioVars, wifiVars, Explains, Place
  <2>5. Applied(ws[m])'
    BY <2>2, <2>4 DEF Explains, Applied, Taking
  <2>6. InHand(cs[m], at[m], o)'
    <3>1. PICK n \in 1 .. 7 : Len(cs[m]) = n
      BY <2>3, CommandLength
    <3>2. Len(arg') = 0
      BY <2>4
    <3>3. o = at[m] + 1 + Len(arg') /\ Len(arg') < Len(cs[m])
      BY <2>3, <3>1, <3>2
    <3>4. \A j \in 1 .. Len(arg') : arg'[j] = cs[m][j + 1]
      BY <3>2
    <3> QED
      BY <2>3, <2>4, <3>3, <3>4 DEF InHand, OpOf
  <2>7. Place(m, q, o, cs, at)'
    BY <2>3, <2>4, <2>6 DEF Place, Taking
  <2>8. Judged(m, q, cs)'
    <3>1. steady => lpc' \notin {"addr1", "addr2", "set1", "set2"}
      <4> SUFFICES ASSUME steady PROVE lpc' \notin {"addr1", "addr2", "set1", "set2"}
        OBVIOUS
      <4>1. NoneOf("F1", m, q, cs) /\ NoneOf("F2", m, q, cs)
        BY <2>2 DEF Explains, Judged
      <4>2. m <= m
        OBVIOUS
      <4>3. cs[m][1] # "F1" /\ cs[m][1] # "F2"
        BY <2>3, <4>1, <4>2 DEF NoneOf
      <4> QED
        BY <2>3, <2>4, <4>3 DEF OpOf, Taking
    <3>2. Judged(m, q, cs) /\ m <= m
      BY <2>2 DEF Explains
    <3> QED
      BY <2>4, <3>1, <3>2, JudgedLater
  <2>9. Logs(cs, at, ws)
    BY <2>2 DEF Explains
  <2>10. Explains(m, q, o, cs, at, ws)'
    BY <2>3, <2>5, <2>7, <2>8, <2>9 DEF Explains
  <2> QED
    BY <2>10 DEF Served
<1> QED
  BY <1>0, <1>1

(* The next pair is always the op code of a command. *)
LEMMA UnknownServed == Typed /\ Served /\ Unknown => Served'
<1> SUFFICES ASSUME Typed, Served, Unknown, ~ hasty PROVE FALSE
  BY DEF Unknown, Take, Served
<1>1. PICK op \in Pairs \ OpCodes : Take(op)
  BY DEF Unknown
<1>2. PICK m \in Nat, q \in Nat, off \in Nat : \E cs, at, ws : Explains(m, q, off, cs, at, ws)
  BY DEF Served
<1>3. PICK cs, at, ws : Explains(m, q, off, cs, at, ws)
  BY <1>2
<1>4. cs[m] \in Commands /\ cs[m][1] = op
  BY <1>1, <1>3, TakeNext
<1> QED
  BY <1>1, <1>4, CommandShape

(* Started, and the steps of the loop task that set nothing the host has   *)
(* asked for.                                                              *)
LEMMA StartedServed ==
    Typed /\ Served /\ (Started \/ NoBytes \/ WriteHeader \/ Hop) => Served'
<1> SUFFICES ASSUME Typed, Served, Started \/ NoBytes \/ WriteHeader \/ Hop, ~ hasty PROVE Served'
  BY HastyServed DEF Started, NoBytes, WriteHeader, Hop, HopTo, hostVars
<1>1. PICK m \in Nat, q \in Nat, off \in Nat : \E cs, at, ws : Explains(m, q, off, cs, at, ws)
  BY DEF Served
<1>2. PICK cs, at, ws : Explains(m, q, off, cs, at, ws)
  BY <1>1
<1>3. /\ UNCHANGED <<inbox, wanted, arg, selChannel, outType, addr1Filter, addr2Filter, steady, wpc, pkt>>
      /\ lpc \in {"read", "start", "hop"} /\ lpc' \in {"read", "start", "hop"}
  BY DEF Started, NoBytes, WriteHeader, Hop, HopTo, hostVars, radioVars, modeVars, wifiVars
<1>4. \/ lpc = "start" /\ lpc' = "start" /\ start' = start
      \/ lpc = "start" /\ lpc' = "hop" /\ start' = TRUE
      \/ lpc # "start" /\ lpc' # "start" /\ start' = start
  BY DEF Started, NoBytes, WriteHeader, Hop, HopTo, modeVars
<1>5. Applied(ws[m])'
  <2>1. Applied(ws[m])
    BY <1>2 DEF Explains
  <2>2. (IF lpc' = "start" THEN TRUE ELSE start') = (IF lpc = "start" THEN TRUE ELSE start)
    BY <1>4
  <2> QED
    BY <1>3, <2>1, <2>2 DEF Applied
<1>6. Place(m, q, off, cs, at)'
  BY <1>2, <1>3 DEF Explains, Place, Taking
<1>7. Judged(m, q, cs)'
  BY <1>2, <1>3 DEF Explains, Judged
<1>8. Pending(inbox, wanted, m, q, off, cs, at, ws)' /\ Logs(cs, at, ws)'
  BY <1>2, <1>3 DEF Explains
<1>9. Explains(m, q, off, cs, at, ws)'
  BY <1>5, <1>6, <1>7, <1>8 DEF Explains
<1> QED
  BY <1>9 DEF Served

(* parseInt finds the number of its own command. *)
LEMMA SetChannelServed == Typed /\ Served /\ SetChannel => Served'
<1> SUFFICES ASSUME Typed, Served, SetChannel, ~ hasty PROVE Served'
  BY HastyServed DEF SetChannel
<1>0. inbox \in Seq(Pairs) /\ inbox # <<>> /\ inbox' = Tail(inbox) /\ inbox \in Strings
  BY DEF Typed, HostTyped, SetChannel, Strings
<1>1. PICK m \in Nat, q \in Nat, off \in Nat : \E cs, at, ws : Explains(m, q, off, cs, at, ws)
  BY DEF Served
<1>2. PICK cs, at, ws : Explains(m, q, off, cs, at, ws)
  BY <1>1
<1>3. /\ m < q /\ cs[m] \in Commands /\ ws[m] \in Wants /\ at[m] \in Nat
      /\ InHand(cs[m], at[m], off)
  BY <1>2, InHandCommand DEF SetChannel, Taking
<1>4. Pending(inbox, wanted, m, q, off, cs, at, ws) /\ Logs(cs, at, ws)
  BY <1>2 DEF Explains
<1>5. arg = <<>> /\ lpc = "number"
  BY <1>2 DEF Explains, Place, SetChannel
<1>6. cs[m][1] = "FC" /\ off = at[m] + 1
  <2>1. Len(arg) = 0
    BY <1>5
  <2> QED
    BY <1>3, <1>5, <2>1 DEF InHand, OpOf
<1>7. Len(cs[m]) = 2 /\ cs[m][2] \in DOMAIN Number
  BY <1>3, <1>6, SerialAssumption
<1>8. PICK k \in Nat : k = 2
  OBVIOUS
<1>9. Head(inbox) = cs[m][2]
  <2>1. Nth(k, cs[m], at[m], off)
    BY <1>3, <1>6, <1>7, <1>8 DEF Nth
  <2>2. Head(inbox) = cs[m][k]
    BY <1>0, <1>2, <2>1, NextArgument DEF SetChannel, Taking
  <2> QED
    BY <1>8, <2>2
<1>10. PICK p \in Nat, o \in Nat : p = m + 1 /\ o = off + 1
  OBVIOUS
<1>11. wanted' = wanted /\ Pending(inbox', wanted', m, q, o, cs, at, ws)
  <2>1. wanted' = wanted
    BY DEF SetChannel
  <2>2. Pending(Tail(inbox), wanted, m, q, o, cs, at, ws)
    BY <1>0, <1>4, <1>10, PendingByte
  <2> QED
    BY <1>0, <2>1, <2>2
<1>12. Ends(cs[m], at[m], o)
  BY <1>3, <1>6, <1>7, <1>10 DEF Ends
<1>13. Pending(inbox', wanted', p, q, o, cs, at, ws) /\ at[p] = o /\ ws[p] = Asked(ws[m], cs[m])
  BY <1>3, <1>4, <1>10, <1>11, <1>12, CommandDone
<1>14. /\ lpc' = "hop" /\ selChannel' = Number[cs[m][2]]
       /\ UNCHANGED <<arg, start, outType, addr1Filter, addr2Filter, steady, wpc, pkt>>
  BY <1>7, <1>9 DEF SetChannel, modeVars, wifiVars
<1>15. Applied(ws[p])'
  <2>1. Applied(ws[m])
    BY <1>2 DEF Explains
  <2>2. /\ ws[p].run = ws[m].run /\ ws[p].out = ws[m].out /\ ws[p].f1 = ws[m].f1
        /\ ws[p].f2 = ws[m].f2 /\ ws[p].ch = Number[cs[m][2]]
    <3>1. Effect(cs[m], ws[m], ws[p])
      BY <1>3, <1>13, AskedFields
    <3> QED
      BY <1>6, <3>1 DEF Effect
  <2> QED
    BY <1>5, <1>14, <2>1, <2>2 DEF Applied
<1>16. Place(p, q, o, cs, at)'
  BY <1>5, <1>13, <1>14 DEF Place, Taking
<1>17. Judged(p, q, cs)'
  <2>1. m <= p /\ Judged(m, q, cs)
    BY <1>2, <1>10 DEF Explains
  <2> QED
    BY <1>11, <1>14, <2>1, JudgedLater
<1>18. Explains(p, q, o, cs, at, ws)'
  BY <1>4, <1>13, <1>15, <1>16, <1>17 DEF Explains
<1> QED
  BY <1>18 DEF Served

(* The address in hand has not ended while it has no 6 bytes and there is  *)
(* something to read: a shorter one is the last that has been sent.        *)
LEMMA AddressGoesOn ==
    ASSUME Typed, NEW m \in Nat, NEW q \in Nat, NEW off \in Nat, NEW cs, NEW at, NEW ws,
           Explains(m, q, off, cs, at, ws), lpc \in {"addr1", "addr2"},
           inbox # <<>>, Len(arg) < AddrSize
    PROVE  \E k, n \in Nat : k = Len(arg) + 2 /\ n = Len(cs[m]) /\ k <= n
<1>0. inbox \in Seq(Pairs) /\ arg \in Seq(Pairs)
  BY DEF Typed, HostTyped, LoopTyped
<1>1. /\ m < q /\ cs[m] \in Commands /\ at[m] \in Nat
      /\ InHand(cs[m], at[m], off) /\ cs[m] \in Seq(Pairs)
  BY InHandCommand DEF Taking
<1>2. PICK l \in Nat, n \in Nat, k \in Nat : l = Len(arg) /\ n = Len(cs[m]) /\ k = l + 2
  <2>1. Len(arg) \in Nat /\ Len(cs[m]) \in Nat
    BY <1>0, <1>1
  <2>2. Len(arg) + 2 \in Nat
    BY <2>1
  <2> QED
    BY <2>1, <2>2
<1>3. l < n /\ l < 6
  BY <1>1, <1>2 DEF InHand, AddrSize
<1>4. CASE l + 1 = n
  <2>1. Short(cs[m])
    <3>1. n <= 6
      BY <1>3, <1>4
    <3> QED
      BY <1>1, <1>2, <3>1 DEF Short, InHand, OpOf, AddrSize
  <2>2. Pending(inbox, wanted, m, q, off, cs, at, ws) /\ Logs(cs, at, ws)
    BY DEF Explains
  <2>3. PICK p \in Nat : p = m + 1
    OBVIOUS
  <2>4. p = q
    BY <1>1, <2>1, <2>2, <2>3 DEF Pending, ShortLast
  <2>5. Ends(cs[m], at[m], off)
    <3>1. off = at[m] + 1 + l
      BY <1>1, <1>2 DEF InHand
    <3>2. off = at[m] + n
      BY <1>1, <1>4, <3>1
    <3> QED
      BY <1>2, <3>2 DEF Ends
  <2>6. at[p] = off /\ Pending(inbox, wanted, p, q, off, cs, at, ws)
    <3>1. m < q
      BY <1>1
    <3> QED
      BY <2>2, <2>3, <2>5, <3>1, CommandDone
  <2>7. FALSE
    BY <1>0, <2>2, <2>4, <2>6, HasCommand
  <2> QED
    BY <2>7
<1>5. k <= n
  BY <1>2, <1>3, <1>4
<1> QED
  BY <1>2, <1>5

LEMMA AddressByteServed == Typed /\ Served /\ AddressByte => Served'
<1> SUFFICES ASSUME Typed, Served, AddressByte, ~ hasty PROVE Served'
  BY HastyServed DEF AddressByte
<1>0. /\ inbox \in Seq(Pairs) /\ inbox # <<>> /\ inbox' = Tail(inbox) /\ inbox \in Strings
      /\ arg \in Seq(Pairs) /\ arg' = Append(arg, Head(inbox))
      /\ lpc \in {"addr1", "addr2"} /\ Len(arg) < AddrSize /\ lpc' = lpc
  BY DEF Typed, HostTyped, LoopTyped, AddressByte, Strings
<1>1. PICK m \in Nat, q \in Nat, off \in Nat : \E cs, at, ws : Explains(m, q, off, cs, at, ws)
  BY DEF Served
<1>2. PICK cs, at, ws : Explains(m, q, off, cs, at, ws)
  BY <1>1
<1>3. m < q /\ at[m] \in Nat /\ InHand(cs[m], at[m], off)
  BY <1>0, <1>2, InHandCommand DEF Taking
<1>4. Pending(inbox, wanted, m, q, off, cs, at, ws) /\ Logs(cs, at, ws)
  BY <1>2 DEF Explains
<1>5. PICK k \in Nat, n \in Nat : k = Len(arg) + 2 /\ n = Len(cs[m]) /\ k <= n
  BY <1>0, <1>2, AddressGoesOn
<1>6. Nth(k, cs[m], at[m], off)
  <2>1. off = at[m] + 1 + Len(arg) /\ Len(arg) \in Nat
    BY <1>0, <1>3 DEF InHand
  <2>2. k \in 1 .. n /\ at[m] + k = off + 1
    BY <1>3, <1>5, <2>1
  <2> QED
    BY <1>5, <2>2 DEF Nth
<1>7. Head(inbox) = cs[m][k]
  BY <1>0, <1>2, <1>6, NextArgument DEF Taking
<1>8. PICK o \in Nat : o = off + 1
  OBVIOUS
<1>9. UNCHANGED <<wanted, selChannel, start, outType, addr1Filter, addr2Filter, steady, wpc, pkt>>
  BY DEF AddressByte, radioVars, modeVars, wifiVars
<1>10. Pending(inbox', wanted', m, q, o, cs, at, ws)
  BY <1>0, <1>4, <1>8, <1>9, PendingByte
<1>11. InHand(cs[m], at[m], o)'
  <2>1. Len(arg') = Len(arg) + 1 /\ Len(arg) \in Nat /\ Head(inbox) \in Pairs
    BY <1>0
  <2>2. o = at[m] + 1 + Len(arg') /\ Len(arg') < Len(cs[m])
    <3>1. off = at[m] + 1 + Len(arg)
      BY <1>3 DEF InHand
    <3>2. Len(arg') < n
      BY <1>5, <2>1
    <3>3. o = at[m] + 1 + Len(arg')
      BY <1>3, <1>8, <2>1, <3>1
    <3> QED
      BY <1>5, <3>2, <3>3
  <2>3. ASSUME NEW j \in 1 .. Len(arg') PROVE arg'[j] = cs[m][j + 1]
    <3>1. CASE j \in 1 .. Len(arg)
      <4>1. arg'[j] = arg[j]
        BY <1>0, <3>1
      <4> QED
        BY <1>3, <3>1, <4>1 DEF InHand
    <3>2. CASE j = Len(arg) + 1
      <4>1. arg'[j] = Head(inbox)
        BY <1>0, <2>1, <3>2
      <4>2. j + 1 = k
        BY <1>5, <2>1, <3>2
      <4> QED
        BY <1>7, <4>1, <4>2
    <3> QED
      BY <2>1, <3>1, <3>2
  <2> QED
    BY <1>0, <1>3, <2>2, <2>3 DEF InHand, OpOf
<1>12. Applied(ws[m])'
  BY <1>0, <1>2, <1>9 DEF Explains, Applied
<1>13. Place(m, q, o, cs, at)'
  BY <1>0, <1>3, <1>11 DEF Place, Taking
<1>14. Judged(m, q, cs)'
  BY <1>0, <1>2, <1>9 DEF Explains, Judged
<1>15. Explains(m, q, o, cs, at, ws)'
  BY <1>4, <1>10, <1>12, <1>13, <1>14 DEF Explains
<1> QED
  BY <1>15 DEF Served

(* The address ends where its command does. *)
LEMMA AddressAllRead ==
    ASSUME Typed, NEW m \in Nat, NEW q \in Nat, NEW off \in Nat, NEW cs, NEW at, NEW ws,
           Explains(m, q, off, cs, at, ws), lpc \in {"addr1", "addr2"}, AddressHere
    PROVE  Ends(cs[m], at[m], off) /\ arg = Address(cs[m])
<1>0. inbox \in Seq(Pairs) /\ arg \in Seq(Pairs)
  BY DEF Typed, HostTyped, LoopTyped
<1>1. /\ m < q /\ cs[m] \in Commands /\ at[m] \in Nat
      /\ InHand(cs[m], at[m], off) /\ cs[m] \in Seq(Pairs)
  BY InHandCommand DEF Taking
<1>2. Pending(inbox, wanted, m, q, off, cs, at, ws) /\ Logs(cs, at, ws)
  BY DEF Explains
<1>3. PICK n \in 1 .. 7 : Len(cs[m]) = n
  BY <1>1, CommandLength
<1>4. PICK l \in Nat : l = Len(arg)
  BY <1>0
<1>5. l < n /\ off = at[m] + 1 + l
  BY <1>1, <1>3, <1>4 DEF InHand
<1>6. l + 1 = n
  <2>1. CASE Len(arg) = AddrSize
    BY <1>4, <1>5, <2>1 DEF AddrSize
  <2>2. CASE inbox = <<>>
    <3>1. PICK p \in Nat : p = m + 1
      OBVIOUS
    <3>2. at \in [Nat -> Nat] /\ m <= m /\ m < q
      <4>1. at \in [Nat -> Nat]
        BY <1>2 DEF Logs
      <4>2. m <= m
        OBVIOUS
      <4> QED
        BY <1>1, <4>1, <4>2
    <3>3. Follows(cs[m], at[m], at[p], ws[m], ws[p]) /\ at[p] <= at[q]
      BY <1>2, <3>1, <3>2, PendingEnd
    <3>4. at[p] = at[m] + n
      BY <1>3, <3>3 DEF Follows
    <3>5. Len(inbox) = 0 /\ at[q] = off + Len(inbox)
      BY <1>2, <2>2 DEF Pending
    <3>6. at[p] <= off
      BY <3>3, <3>5
    <3> QED
      BY <1>1, <1>5, <3>4, <3>6
  <2> QED
    BY <2>1, <2>2 DEF AddressHere
<1>7. Ends(cs[m], at[m], off)
  <2>1. off = at[m] + n
    BY <1>1, <1>5, <1>6
  <2> QED
    BY <1>3, <2>1 DEF Ends
<1>8. arg = Tail(cs[m])
  <2>1. Len(Tail(cs[m])) = l /\ Tail(cs[m]) \in Seq(Pairs)
    BY <1>1, <1>3, <1>6
  <2>2. ASSUME NEW i \in 1 .. l PROVE arg[i] = Tail(cs[m])[i]
    <3>1. Tail(cs[m])[i] = cs[m][i + 1]
      BY <1>1, <2>1
    <3> QED
      BY <1>1, <1>4, <3>1 DEF InHand
  <2> QED
    BY <1>0, <1>4, <2>1, <2>2, SameLength
<1> QED
  BY <1>7, <1>8 DEF Address

LEMMA AddressReadServed == Typed /\ Served /\ AddressRead => Served'
<1> SUFFICES ASSUME Typed, Served, AddressRead, ~ hasty PROVE Served'
  BY HastyServed DEF AddressRead, AddressEnds, hostVars
<1>0. lpc \in {"addr1", "addr2"} /\ AddressHere
  BY DEF AddressRead, AddressEnds
<1>1. PICK m \in Nat, q \in Nat, off \in Nat : \E cs, at, ws : Explains(m, q, off, cs, at, ws)
  BY DEF Served
<1>2. PICK cs, at, ws : Explains(m, q, off, cs, at, ws)
  BY <1>1
<1>3. /\ m < q /\ cs[m] \in Commands /\ ws[m] \in Wants
      /\ InHand(cs[m], at[m], off)
  BY <1>0, <1>2, InHandCommand DEF Taking
<1>4. Pending(inbox, wanted, m, q, off, cs, at, ws) /\ Logs(cs, at, ws)
  BY <1>2 DEF Explains
<1>5. Ends(cs[m], at[m], off) /\ arg = Address(cs[m])
  BY <1>0, <1>2, AddressAllRead
<1>6. PICK p \in Nat : p = m + 1
  OBVIOUS
<1>7. Pending(inbox, wanted, p, q, off, cs, at, ws) /\ at[p] = off /\ ws[p] = Asked(ws[m], cs[m])
  <2>1. m < q
    BY <1>3
  <2> QED
    BY <1>4, <1>5, <1>6, <2>1, CommandDone
<1>8. UNCHANGED <<inbox, wanted, selChannel, start, outType, addr1Filter, addr2Filter, steady, wpc, pkt>>
  BY DEF AddressRead, AddressEnds, hostVars, radioVars, modeVars, wifiVars
<1>9. IF IsHex(arg) THEN lpc' = (IF lpc = "addr1" THEN "set1" ELSE "set2") /\ arg' = arg
      ELSE lpc' = "hop" /\ arg' = <<>>
  BY DEF AddressRead, AddressEnds
<1>10. cs[m][1] = (IF lpc = "addr1" THEN "F1" ELSE "F2")
  BY <1>0, <1>3 DEF InHand, OpOf
<1>11. Applied(ws[p])'
  <2>1. Applied(ws[m])
    BY <1>2 DEF Explains
  <2>2. /\ ws[p].run = ws[m].run /\ ws[p].out = ws[m].out /\ ws[p].ch = ws[m].ch
        /\ ws[p].f1 = (IF lpc = "addr1" /\ IsHex(arg) THEN arg ELSE ws[m].f1)
        /\ ws[p].f2 = (IF lpc = "addr2" /\ IsHex(arg) THEN arg ELSE ws[m].f2)
    <3>1. Effect(cs[m], ws[m], ws[p]) /\ arg = Address(cs[m])
      BY <1>3, <1>5, <1>7, AskedFields
    <3>2. CASE lpc = "addr1"
      <4>1. cs[m][1] = "F1"
        BY <1>10, <3>2
      <4> QED
        BY <3>1, <3>2, <4>1 DEF Effect
    <3>3. CASE lpc = "addr2"
      <4>1. cs[m][1] = "F2"
        BY <1>10, <3>3
      <4> QED
        BY <3>1, <3>3, <4>1 DEF Effect
    <3> QED
      BY <1>0, <3>2, <3>3
  <2>3. CASE IsHex(arg)
    BY <1>0, <1>8, <1>9, <2>1, <2>2, <2>3 DEF Applied
  <2>4. CASE ~ IsHex(arg)
    BY <1>0, <1>8, <1>9, <2>1, <2>2, <2>4 DEF Applied
  <2> QED
    BY <2>3, <2>4
<1>12. Place(p, q, off, cs, at)'
  BY <1>7, <1>9 DEF Place, Taking
<1>13. ~ steady'
  BY <1>0, <1>2, <1>8 DEF Explains, Judged
<1>14. Judged(p, q, cs)'
  BY <1>13 DEF Judged
<1>15. Pending(inbox, wanted, p, q, off, cs, at, ws)'
  BY <1>7, <1>8
<1>16. Explains(p, q, off, cs, at, ws)'
  BY <1>4, <1>11, <1>12, <1>14, <1>15 DEF Explains
<1> QED
  BY <1>16 DEF Served

(* The half of an assignment is seen by nobody but the callback. *)
LEMMA SetFilterServed == Typed /\ Served /\ SetFilter => Served'
<1> SUFFICES ASSUME Typed, Served, SetFilter, ~ hasty PROVE Served'
  BY HastyServed DEF SetFilter, hostVars
<1>0. lpc \in {"set1", "set2"}
  BY DEF SetFilter
<1>1. PICK m \in Nat, q \in Nat, off \in Nat : \E cs, at, ws : Explains(m, q, off, cs, at, ws)
  BY DEF Served
<1>2. PICK cs, at, ws : Explains(m, q, off, cs, at, ws)
  BY <1>1
<1>3. UNCHANGED <<inbox, wanted, selChannel, start, outType, steady, wpc, pkt>>
  BY DEF SetFilter, hostVars, radioVars, wifiVars
<1>4. \/ UNCHANGED <<lpc, arg>>
      \/ Torn \notin {addr1Filter', addr2Filter'} /\ lpc' = "hop" /\ arg' = <<>>
  BY DEF SetFilter
<1>5. Applied(ws[m])'
  <2>1. Applied(ws[m])
    BY <1>2 DEF Explains
  <2>2. \/ lpc = "set1" /\ addr1Filter' \in {arg, Torn} /\ addr2Filter' = addr2Filter
        \/ lpc = "set2" /\ addr2Filter' \in {arg, Torn} /\ addr1Filter' = addr1Filter
    BY DEF SetFilter, Assigned
  <2> QED
    BY <1>3, <1>4, <2>1, <2>2 DEF Applied
<1>6. Place(m, q, off, cs, at)'
  BY <1>0, <1>2, <1>4 DEF Explains, Place, Taking
<1>7. ~ steady'
  BY <1>0, <1>2, <1>3 DEF Explains, Judged
<1>8. Judged(m, q, cs)'
  BY <1>7 DEF Judged
<1>9. Pending(inbox, wanted, m, q, off, cs, at, ws)' /\ Logs(cs, at, ws)
  BY <1>2, <1>3 DEF Explains
<1>10. Explains(m, q, off, cs, at, ws)'
  BY <1>5, <1>6, <1>8, <1>9 DEF Explains
<1> QED
  BY <1>10 DEF Served

(* The callback and the line. *)
LEMMA CallbackServed == Typed /\ Served /\ (Callback \/ Flush \/ UNCHANGED vars) => Served'
<1> SUFFICES ASSUME Typed, Served, Callback \/ Flush \/ UNCHANGED vars PROVE Served'
  OBVIOUS
<1>0. UNCHANGED explained /\ hasty' = hasty
  BY DEF Callback, Packet, PacketOf, Second, Display, ChooseType, WriteRecord, Flush, vars, hostVars,
     loopVars, radioVars, explained
<1>1. CASE hasty
  BY <1>0, <1>1, HastyServed
<1>2. CASE ~ hasty
  <2>1. PICK m \in Nat, q \in Nat, off \in Nat : \E cs, at, ws : Explains(m, q, off, cs, at, ws)
    BY <1>2 DEF Served
  <2>2. PICK cs, at, ws : Explains(m, q, off, cs, at, ws)
    BY <2>1
  <2>3. Judged(m, q, cs)
    BY <2>2 DEF Explains
  <2>4. Judged(m, q, cs)'
    <3>1. CASE ~ steady'
      BY <3>1 DEF Judged
    <3>2. CASE Packet /\ steady'
      <4>1. FiltersSet
        BY <3>2 DEF Packet, PacketOf
      <4>2. /\ NoneOf("F1", m, q, cs) /\ NoneOf("F2", m, q, cs)
            /\ addr1Filter = wanted.f1 /\ wanted \in Wants
        BY <2>2, <4>1, NoAddress
      <4>3. addr1Filter # Torn
        BY <4>2, SerialAssumption DEF Wants
      <4>4. IsPrefix(wanted.f1, pkt'.a1)
        BY <3>2, <4>2, <4>3 DEF Packet, PacketOf, Equal
      <4>5. wpc' = "second"
        BY <3>2 DEF Packet, PacketOf
      <4> QED
        BY <1>0, <4>1, <4>2, <4>4, <4>5 DEF Judged, explained, FiltersSet
    <3>3. CASE Second /\ steady'
      <4>1. wpc' = "display" /\ UNCHANGED <<pkt, steady>> /\ TRUE \in Equal(addr2Filter, pkt.a2)
        BY <3>3 DEF Second, Done
      <4>2. /\ lpc \notin {"addr1", "addr2", "set1", "set2"}
            /\ NoneOf("F2", m, q, cs)
        BY <2>3, <3>3, <4>1 DEF Judged
      <4>3. addr2Filter = wanted.f2 /\ wanted \in Wants
        <5>1. Pending(inbox, wanted, m, q, off, cs, at, ws) /\ m <= m /\ m <= q
          BY <2>2 DEF Explains, Pending
        <5>2. ws[m].f2 = wanted.f2
          BY <4>2, <5>1 DEF Pending, FiltersKept
        <5>3. ws[m].f2 = addr2Filter
          BY <2>2, <4>2 DEF Explains, Applied
        <5> QED
          BY <5>2, <5>3 DEF Typed, HostTyped
      <4>4. addr2Filter # Torn
        BY <4>3, SerialAssumption DEF Wants
      <4>5. IsPrefix(wanted.f2, pkt.a2)
        BY <4>1, <4>3, <4>4 DEF Equal
      <4> QED
        BY <1>0, <2>3, <3>3, <4>1, <4>5 DEF Judged, explained
    <3>4. CASE ~ Packet /\ ~ Second /\ steady'
      <4>1. steady /\ pkt' = pkt
        BY <3>4 DEF Callback, Display, ChooseType, WriteRecord, Flush, Done, vars, wifiVars
      <4>2. wpc' = wpc \/ wpc \in {"display", "type", "record"}
        BY <3>4 DEF Callback, Display, ChooseType, WriteRecord, Flush, vars, wifiVars
      <4> QED
        BY <1>0, <2>3, <4>1, <4>2 DEF Judged, explained
    <3> QED
      BY <3>1, <3>2, <3>3, <3>4
  <2>5. Explains(m, q, off, cs, at, ws)'
    BY <1>0, <2>2, <2>4, ExplainsKept
  <2> QED
    BY <2>5 DEF Served
<1> QED
  BY <1>1, <1>2

LEMMA ServedNext == Typed /\ Served /\ [Next]_vars => Served'
<1> SUFFICES ASSUME Typed, Served, [Next]_vars PROVE Served'
  OBVIOUS
<1>1. CASE SendCommand
  BY <1>1, SendServed
<1>2. CASE Stop
  BY <1>2, TakeWholeServed DEF Stop
<1>3. CASE Start("S1", outType) \/ Start("OT", "TEXT") \/ Start("OB", "BINARY")
  <2>1. CASE Start("S1", outType)
    BY <2>1, TakeWholeServed DEF Start
  <2>2. CASE Start("OT", "TEXT")
    BY <2>2, TakeWholeServed DEF Start
  <2>3. CASE Start("OB", "BINARY")
    BY <2>3, TakeWholeServed DEF Start
  <2> QED
    BY <1>3, <2>1, <2>2, <2>3
<1>4. CASE \/ TakeArgument("FC", "number")
           \/ TakeArgument("F1", "addr1") \/ TakeArgument("F2", "addr2")
  <2>1. PICK l \in Taking : TakeArgument(OpOf(l), l)
    BY <1>4 DEF Taking, OpOf
  <2> QED
    BY <2>1, TakeArgumentServed
<1>5. CASE Unknown
  BY <1>5, UnknownServed
<1>6. CASE Started \/ NoBytes \/ WriteHeader \/ Hop
  BY <1>6, StartedServed
<1>7. CASE SetChannel
  BY <1>7, SetChannelServed
<1>8. CASE AddressByte
  BY <1>8, AddressByteServed
<1>9. CASE AddressRead
  BY <1>9, AddressReadServed
<1>10. CASE SetFilter
  BY <1>10, SetFilterServed
<1>11. CASE Callback \/ Flush \/ UNCHANGED vars
  BY <1>11, CallbackServed
<1> QED
  BY <1>1, <1>2, <1>3, <1>4, <1>5, <1>6, <1>7, <1>8, <1>9, <1>10, <1>11 DEF Next, Loop

LEMMA RadioFollowsNext == RadioFollows /\ [Next]_vars => RadioFollows'
<1> SUFFICES ASSUME RadioFollows, [Next]_vars PROVE RadioFollows'
  OBVIOUS
<1>1. CASE UNCHANGED <<selChannel, radio>>
  BY <1>1 DEF RadioFollows
<1>2. CASE SetChannel
  BY <1>2 DEF SetChannel, RadioFollows
<1>3. CASE Hop
  BY <1>3 DEF Hop, HopTo, RadioFollows
<1>4. CASE ~ SetChannel /\ ~ Hop
  BY <1>1, <1>4 DEF Next, SendCommand, Loop, Callback, Take, Stop, Start, TakeArgument, Unknown,
     NoBytes, WriteHeader, Started, AddressByte, AddressRead, AddressEnds, SetFilter, Packet,
     PacketOf, Second, Display, ChooseType, WriteRecord, Flush, radioVars, vars
<1> QED
  BY <1>2, <1>3, <1>4

(* Obeyed: when it has read everything, the loop task has all that the     *)
(* commands have asked for, in whatever order and however fast they came,  *)
(* as long as the host pauses after an address of fewer than six bytes     *)
(* (main.cpp:161-311).                                                     *)
THEOREM CommandsObeyed == FairSpec => []Obeyed
<1>1. Typed /\ Served /\ RadioFollows => Obeyed
  <2> SUFFICES ASSUME Typed, Served, RadioFollows, ~ hasty, inbox = <<>>, lpc \in {"read", "hop"}
               PROVE  /\ start = wanted.run /\ outType = wanted.out
                      /\ addr1Filter = wanted.f1 /\ addr2Filter = wanted.f2
                      /\ selChannel = wanted.ch
                      /\ selChannel \in 1 .. 13 => radio = selChannel
    BY DEF Obeyed
  <2>1. PICK m \in Nat, q \in Nat, off \in Nat : \E cs, at, ws : Explains(m, q, off, cs, at, ws)
    BY DEF Served
  <2>2. PICK cs, at, ws : Explains(m, q, off, cs, at, ws)
    BY <2>1
  <2>3. Pending(inbox, wanted, m, q, off, cs, at, ws) /\ Logs(cs, at, ws) /\ at[m] = off
    BY <2>2 DEF Explains, Place, Taking
  <2>4. ~ (m < q)
    BY <2>3, HasCommand DEF Typed, HostTyped
  <2>5. m = q
    BY <2>3, <2>4 DEF Pending
  <2>6. ws[m] = wanted
    BY <2>3, <2>5 DEF Pending
  <2>7. Applied(wanted)
    BY <2>2, <2>6 DEF Explains
  <2> QED
    BY <2>7 DEF Applied, RadioFollows
<1>2. Init => RadioFollows
  BY DEF Init, RadioFollows
<1> QED
  BY <1>1, <1>2, TypedInit, TypedNext, ServedInit, ServedNext, RadioFollowsNext, PTL DEF FairSpec

(* Filtered: what the callback shows or sends on, while no address is on   *)
(* its way or being assigned, has both addresses the host has asked for,   *)
(* whatever assignment it may have met half done before                    *)
(* (main.cpp:86-108, 289-309).                                             *)
THEOREM PacketsFiltered == FairSpec => []Filtered
<1>1. Served => Filtered
  <2> SUFFICES ASSUME Served, ~ hasty, steady, wpc \in {"display", "type", "record"}
               PROVE  IsPrefix(wanted.f1, pkt.a1) /\ IsPrefix(wanted.f2, pkt.a2)
    BY DEF Filtered
  <2> QED
    BY DEF Served, Explains, Judged
<1> QED
  BY <1>1, TypedInit, TypedNext, ServedInit, ServedNext, PTL DEF FairSpec
=============================================================================
