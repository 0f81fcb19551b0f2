------------------------ MODULE SnifferConfigProofs -------------------------
(* Theorems about SnifferConfig, for every value of its constants. *)
EXTENDS SnifferConfig, TLAPS

(* A number cut to 8 bits is an int8_t (RssiArg). *)
LEMMA ToInt8Type == \A n \in Int : ToInt8(n) \in Int8
  BY DEF ToInt8, Int8

(* What a task carries while it sets a filter: an address filter that fits *)
(* the key, and after SaveFilter not the broken one.                       *)
CarriesFilter(p) ==
    pc[p] \in SetterSteps =>
        /\ val[p] \in Filters \cup {OwnMac, Broken}
        /\ key[p] = "addr2" => val[p] \in Filters \cup {Broken}
        /\ pc[p] = "give" => val[p] # Broken
        /\ p # "main" => key[p] = "addr2"

CarriesRssi(p) == pc[p] \in RssiSteps => val[p] \in Int8

(* The inductive invariant of the types: TypeOK, what the tasks carry in   *)
(* their local variables, and that the saved filter of the user is never   *)
(* the device's own address.                                               *)
Typed ==
    /\ TypeOK
    /\ val = [p \in Procs |-> val[p]]
    /\ flash["addr2"] \in Filters
    /\ \A p \in Procs : CarriesFilter(p) /\ CarriesRssi(p)

LEMMA TypedInit == Init => Typed
<1> SUFFICES ASSUME Init PROVE Typed
  OBVIOUS
<1> USE ConfigAssumption
<1>1. PICK f \in Filters : flash = [k \in Keys |-> IF k = "own" THEN NoFilter ELSE f]
  BY DEF Init
<1>2. flash \in [Keys -> Filters] /\ flash["addr2"] \in Filters
  BY <1>1 DEF Keys
<1>3. /\ pc \in [Procs -> MainSteps \cup ConsoleSteps \cup SetterSteps \cup RssiSteps]
      /\ \A p \in Procs : pc[p] \notin SetterSteps \cup RssiSteps
  BY DEF Init, Procs, MainSteps, ConsoleSteps, SetterSteps, RssiSteps
<1>4. flashRssi \in Int8 /\ rssi \in Int8 /\ prev \in [Procs -> Int8]
  BY DEF Init, Int8, RssiDefault
<1>5. /\ filter \in [Keys -> Filters \cup {OwnMac, Broken, Torn}]
      /\ key \in [Procs -> Keys]
      /\ val = [p \in Procs |-> val[p]]
  BY DEF Init, Keys
<1>6. flash \in [Keys -> Filters \cup {OwnMac}]
  BY <1>2
<1>7. typed \in 0 .. MaxCommands /\ restarts \in 0 .. MaxRestarts
  BY DEF Init
<1>8. \A p \in Procs : CarriesFilter(p) /\ CarriesRssi(p)
  BY <1>3 DEF CarriesFilter, CarriesRssi
<1> QED
  BY <1>2, <1>3, <1>4, <1>5, <1>6, <1>7, <1>8 DEF Init, Typed, TypeOK, DriverStates

(* A restart leaves flash alone and the tasks at their beginning. *)
LEMMA RestartTyped ==
    ASSUME Typed, Restart, restarts' \in 0 .. MaxRestarts
    PROVE  Typed'
<1> USE ConfigAssumption
<1>1. /\ pc' \in [Procs -> MainSteps \cup ConsoleSteps \cup SetterSteps \cup RssiSteps]
      /\ \A p \in Procs : pc'[p] \notin SetterSteps \cup RssiSteps
  BY DEF Restart, Procs, MainSteps, ConsoleSteps, SetterSteps, RssiSteps
<1>2. rssi' \in Int8 /\ prev' \in [Procs -> Int8]
  BY DEF Restart, Int8, RssiDefault
<1>3. /\ filter' \in [Keys -> Filters \cup {OwnMac, Broken, Torn}]
      /\ key' \in [Procs -> Keys]
      /\ val' = [p \in Procs |-> val'[p]]
  BY DEF Restart, Keys
<1> QED
  BY <1>1, <1>2, <1>3 DEF Restart, Typed, TypeOK, CarriesFilter, CarriesRssi, DriverStates, flashVars

LEMMA RestartsBounded == Typed /\ [Next]_vars => restarts' \in 0 .. MaxRestarts
<1> SUFFICES ASSUME Typed, [Next]_vars PROVE restarts' \in 0 .. MaxRestarts
  OBVIOUS
<1> USE ConfigAssumption DEF Typed, TypeOK, noteVars
<1>1. CASE Abort \/ Fault
  BY <1>1 DEF Abort, Fault
<1>2. CASE ~ (Abort \/ Fault)
  <2>1. ASSUME NEW p \in Procs, Setter(p) PROVE UNCHANGED restarts
    BY <1>2, <2>1 DEF Setter, TakeSem, CountTooFar, BeginSetRam, SetRam, SaveFilter, GiveSem,
                      SetRssi, ReadSavedRssi, SaveRssi, Undefined
  <2>2. CASE Main \/ ConfigWifi
    BY <1>2, <2>2 DEF Main, StartConsole, ConfigWifi, CreateSem, SetOwnMac, RegisterCallback,
                      RestoreRssi, RestoreAddr2, SetNoFilter
  <2>3. CASE Console \/ Click
    BY <1>2, <2>3 DEF Console, TypeCommand, RunCommand, SourceArg, OverrunArg, FrameTooEarly,
                      FrameArg, RssiArg, Click, Undefined
  <2>4. CASE Packet \/ Compare \/ PowerLoss
    BY <1>2, <2>4 DEF Packet, Compare, PowerLoss
  <2>5. CASE UNCHANGED vars
    BY <2>5 DEF vars
  <2> QED
    BY <2>1, <2>2, <2>3, <2>4, <2>5 DEF Next, Tasks
<1> QED
  BY <1>1, <1>2

(* Every step keeps Typed. *)
LEMMA TypedNext == Typed /\ [Next]_vars => Typed'
<1> SUFFICES ASSUME Typed, [Next]_vars PROVE Typed'
  OBVIOUS
<1> USE ConfigAssumption
<1> USE DEF Typed, TypeOK, CarriesFilter, CarriesRssi, Procs, Keys, Goto,
            MainSteps, ConsoleSteps, SetterSteps, RssiSteps, DriverStates,
            flashVars, ramVars, noteVars
<1>1. ASSUME NEW p \in Procs, Setter(p) PROVE Typed'
  <2>1. CASE Restart
    BY <2>1, RestartsBounded, RestartTyped
  <2>0. CASE CountTooFar(p)
    BY <2>0 DEF CountTooFar, Undefined, taskVars
  <2>2. CASE TakeSem(p) /\ ~ Restart
    BY <2>2 DEF TakeSem, Abort
  <2>3. CASE SetRam(p)
    BY <2>3 DEF SetRam
  <2>9. CASE BeginSetRam(p)
    BY <2>9 DEF BeginSetRam
  <2>4. CASE SaveFilter(p) /\ ~ Restart
    BY <2>4 DEF SaveFilter, Abort, Fault
  <2>5. CASE GiveSem(p)
    BY <2>5 DEF GiveSem, AfterSet
  <2>6. CASE SetRssi(p)
    <3>1. -96 \in Int8
      BY DEF Int8
    <3>2. pc[p] = "rssiRam" /\ val[p] \in Int8
      BY <2>6 DEF SetRssi
    <3>3. PICK r \in Int8 : r = IF val[p] = 0 THEN RssiDefault ELSE val[p]
      BY <3>1, <3>2, Zenon DEF RssiDefault
    <3>4. /\ rssi' = r
          /\ val' = [val EXCEPT ![p] = r]
          /\ pc' = [pc EXCEPT ![p] = "rssiRead"]
          /\ UNCHANGED <<flashVars, filter, frames, semCreated, lock, driver,
                         key, prev, cmd, noteVars>>
      BY <2>6, <3>3 DEF SetRssi
    <3>5. TypeOK'
      BY <3>4
    <3>6. \A q \in Procs : CarriesFilter(q)' /\ CarriesRssi(q)'
      BY <3>4
    <3>7. val' = [q \in Procs |-> val'[q]]
      BY <3>4
    <3> QED
      BY <3>4, <3>5, <3>6, <3>7
  <2>7. CASE ReadSavedRssi(p)
    BY <2>7 DEF ReadSavedRssi
  <2>8. CASE SaveRssi(p) /\ ~ Restart
    BY <2>8 DEF SaveRssi, AfterRssi, Fault
  <2> QED
    BY <1>1, <2>1, <2>2, <2>3, <2>4, <2>5, <2>6, <2>7, <2>8, <2>9, <2>0 DEF Setter
<1>2. CASE Main
  <2>1. CASE StartConsole
    BY <2>1 DEF StartConsole
  <2>2. CASE CreateSem
    BY <2>2 DEF CreateSem
  <2>3. CASE SetOwnMac
    BY <2>3, ZenonT(30) DEF SetOwnMac
  <2>4. CASE RegisterCallback
    BY <2>4 DEF RegisterCallback
  <2>5. CASE RestoreRssi
    BY <2>5, ZenonT(30) DEF RestoreRssi
  <2>6. CASE RestoreAddr2
    BY <2>6, ZenonT(30) DEF RestoreAddr2
  <2>7. CASE SetNoFilter
    BY <2>7 DEF SetNoFilter
  <2> QED
    BY <1>2, <2>1, <2>2, <2>3, <2>4, <2>5, <2>6, <2>7 DEF Main
<1>3. CASE Console
  <2>1. CASE TypeCommand
    BY <2>1 DEF TypeCommand
  <2>2. CASE SourceArg
    <3>1. CASE cmd.source # NoArg /\ Accepts(cmd.source)
      <4>1. ReadFilter(cmd.source) \in Filters \cup {Broken}
        BY <3>1 DEF ReadFilter, NoCommand
      <4>2. PICK f \in Filters \cup {Broken} : f = ReadFilter(cmd.source)
        BY <4>1
      <4>3. /\ key' = [key EXCEPT !["console"] = "addr2"]
            /\ val' = [val EXCEPT !["console"] = f]
            /\ asked' = f
            /\ pc' = [pc EXCEPT !["console"] = "take"]
            /\ UNCHANGED <<flashVars, ramVars, prev, cmd, acked, calm, typed, restarts, ub>>
        BY <2>2, <3>1, <4>2 DEF SourceArg
      <4> QED
        BY <4>3, ZenonT(30)
    <3>2. CASE ~ (cmd.source # NoArg /\ Accepts(cmd.source))
      BY <2>2, <3>2 DEF SourceArg
    <3> QED
      BY <3>1, <3>2
  <2>3. CASE FrameArg
    BY <2>3 DEF FrameArg
  <2>4. CASE RssiArg
    <3>1. CASE cmd.rssi # NoArg /\ ToInt8(cmd.rssi) <= 0
      <4>1. ToInt8(cmd.rssi) \in Int8
        BY <3>1, ToInt8Type DEF NoCommand
      <4> QED
        BY <2>4, <3>1, <4>1 DEF RssiArg
    <3>2. CASE ~ (cmd.rssi # NoArg /\ ToInt8(cmd.rssi) <= 0)
      BY <2>4, <3>2 DEF RssiArg
    <3> QED
      BY <3>1, <3>2
  <2>5. CASE OverrunArg
    BY <2>5 DEF OverrunArg, Undefined, taskVars
  <2>6. CASE FrameTooEarly
    BY <2>6, RestartsBounded, RestartTyped DEF FrameTooEarly, Abort
  <2> QED
    BY <1>3, <2>1, <2>2, <2>3, <2>4, <2>5, <2>6 DEF Console, RunCommand
<1>4. CASE Click
  <2>1. PICK r \in Int8 : r = NextRssi(rssi)
    BY DEF NextRssi, Int8
  <2>2. /\ val' = [val EXCEPT !["button"] = r]
        /\ pc' = [pc EXCEPT !["button"] = "rssiRam"]
        /\ UNCHANGED <<flashVars, ramVars, key, prev, cmd, asked, acked, restarts, ub>>
    BY <1>4, <2>1 DEF Click
  <2>3. typed' \in 0 .. MaxCommands /\ calm' \in BOOLEAN
    BY <1>4 DEF Click
  <2> QED
    BY <2>2, <2>3, ZenonT(30)
<1>5. CASE PowerLoss \/ ConfigWifi
  <2>1. CASE Restart
    BY <2>1, RestartsBounded, RestartTyped
  <2>2. CASE ConfigWifi /\ ~ Restart
    BY <2>2 DEF ConfigWifi, Fault
  <2> QED
    BY <1>5, <2>1, <2>2 DEF PowerLoss, Fault
<1>6. CASE UNCHANGED vars
  BY <1>6 DEF vars, taskVars
<1>7. CASE Packet \/ Compare
  BY <1>7 DEF Packet, Compare, taskVars
<1> QED
  BY <1>1, <1>2, <1>3, <1>4, <1>5, <1>6, <1>7 DEF Next, Tasks

(* TypeOK: whatever is typed and whenever the power fails, RAM, flash and  *)
(* the tasks' variables keep their types; in particular flash never holds  *)
(* the filter a wrong hex digit leaves (wifi_sniffer_nvs.c:24-36).         *)
THEOREM ConfigTypes == Spec => []TypeOK
<1>1. Typed => TypeOK
  BY DEF Typed
<1> QED
  BY <1>1, TypedInit, TypedNext, PTL DEF Spec

-----------------------------------------------------------------------------
(* The address filter in RAM and in flash. *)

Agree == filter["addr2"] = flash["addr2"]

(* Only the holder of the semaphore is between SetRam and GiveSem. *)
Mutex == \A p \in Procs : pc[p] \in {"ram", "half", "save", "give"} => lock = p

(* Between SetRam and SaveFilter RAM holds the value to be saved.  Whoever *)
(* makes RAM and flash differ is at that step, and after the main task has *)
(* restored the filter there is no other reason for a difference.          *)
AddrInv ==
    /\ Mutex
    /\ \A p \in Procs : pc[p] = "save" => filter[key[p]] = val[p]
    /\ pc["main"] = "give" /\ key["main"] = "addr2" => Agree
    /\ pc["main"] \in {"noFilter", "up"} =>
         Agree \/ \E p \in Procs : pc[p] \in {"half", "save"} /\ key[p] = "addr2"

LEMMA AddrInit == Init => AddrInv
  BY DEF Init, AddrInv, Mutex, Procs

LEMMA RestartAddr == ASSUME Restart PROVE AddrInv'
  BY DEF Restart, AddrInv, Mutex, Procs

LEMMA AddrNext == Typed /\ AddrInv /\ [Next]_vars => AddrInv'
<1> SUFFICES ASSUME Typed, AddrInv, [Next]_vars PROVE AddrInv'
  OBVIOUS
<1> USE DEF Typed, TypeOK, AddrInv, Mutex, Agree, CarriesFilter, Procs, Keys, Goto,
            SetterSteps, flashVars, ramVars
<1>1. ASSUME NEW p \in Procs, Setter(p) PROVE AddrInv'
  <2>1. CASE Restart
    BY <2>1, RestartAddr
  <2>0. CASE CountTooFar(p)
    BY <2>0 DEF CountTooFar, Undefined, taskVars
  <2>2. CASE TakeSem(p) /\ ~ Restart
    BY <2>2 DEF TakeSem, Abort
  <2>3. CASE SetRam(p)
    BY <2>3 DEF SetRam
  <2>9. CASE BeginSetRam(p)
    BY <2>9 DEF BeginSetRam
  <2>4. CASE SaveFilter(p) /\ ~ Restart
    BY <2>4 DEF SaveFilter, Abort, Fault
  <2>5. CASE GiveSem(p)
    BY <2>5 DEF GiveSem, AfterSet
  <2>6. CASE SetRssi(p)
    BY <2>6 DEF SetRssi
  <2>7. CASE ReadSavedRssi(p)
    BY <2>7 DEF ReadSavedRssi
  <2>8. CASE SaveRssi(p) /\ ~ Restart
    BY <2>8 DEF SaveRssi, AfterRssi, Fault
  <2> QED
    BY <1>1, <2>1, <2>2, <2>3, <2>4, <2>5, <2>6, <2>7, <2>8, <2>9, <2>0 DEF Setter
<1>2. CASE Main
  BY <1>2 DEF Main, StartConsole, CreateSem, SetOwnMac, RegisterCallback,
              RestoreRssi, RestoreAddr2, SetNoFilter
<1>3. CASE Console
  <2>1. CASE SourceArg
    <3>1. PICK f : f = ReadFilter(cmd.source)
      OBVIOUS
    <3>2. /\ pc["console"] = "source"
          /\ \/ /\ key' = [key EXCEPT !["console"] = "addr2"]
                /\ val' = [val EXCEPT !["console"] = f]
                /\ pc' = [pc EXCEPT !["console"] = "take"]
             \/ /\ pc' = [pc EXCEPT !["console"] = "frame"]
                /\ UNCHANGED <<key, val>>
          /\ UNCHANGED <<flashVars, ramVars>>
      BY <2>1, <3>1 DEF SourceArg
    <3> QED
      BY <3>2
  <2>2. CASE TypeCommand
    BY <2>2 DEF TypeCommand
  <2>3. CASE FrameArg
    BY <2>3 DEF FrameArg
  <2>4. CASE RssiArg
    BY <2>4 DEF RssiArg
  <2>5. CASE OverrunArg
    BY <2>5 DEF OverrunArg, Undefined, taskVars
  <2>6. CASE FrameTooEarly
    BY <2>6, RestartAddr DEF FrameTooEarly, Abort
  <2> QED
    BY <1>3, <2>1, <2>2, <2>3, <2>4, <2>5, <2>6 DEF Console, RunCommand
<1>4. CASE Click
  BY <1>4 DEF Click
<1>5. CASE PowerLoss \/ ConfigWifi
  <2>1. CASE Restart
    BY <2>1, RestartAddr
  <2>2. CASE ConfigWifi /\ ~ Restart
    BY <2>2 DEF ConfigWifi, Fault
  <2> QED
    BY <1>5, <2>1, <2>2 DEF PowerLoss, Fault
<1>6. CASE UNCHANGED vars
  BY <1>6 DEF vars, taskVars
<1>7. CASE Packet \/ Compare
  BY <1>7 DEF Packet, Compare, taskVars
<1> QED
  BY <1>1, <1>2, <1>3, <1>4, <1>5, <1>6, <1>7 DEF Next, Tasks

(* Addr2Agrees: whatever is typed or clicked and whenever the power fails, *)
(* also while the device boots, the address filter in force is the saved   *)
(* one as soon as the semaphore is free (wifi_sniffer.c:78-100).           *)
THEOREM FilterAgrees == Spec => []Addr2Agrees
<1>1. AddrInv => Addr2Agrees
  BY DEF AddrInv, Mutex, Agree, Addr2Agrees, Procs
<1> QED
  BY <1>1, TypedInit, TypedNext, AddrInit, AddrNext, PTL DEF Spec

-----------------------------------------------------------------------------
(* Once it is no longer calm it is so only again after a restart. *)
LEMMA CalmBefore == Typed /\ [Next]_vars /\ calm' => calm \/ Restart
<1> SUFFICES ASSUME Typed, [Next]_vars, calm', ~ Restart PROVE calm
  OBVIOUS
<1> USE DEF noteVars
<1>1. ASSUME NEW p \in Procs, Setter(p) PROVE calm
  BY <1>1 DEF Setter, TakeSem, CountTooFar, BeginSetRam, SetRam, SaveFilter, GiveSem, SetRssi,
              ReadSavedRssi, SaveRssi, Abort, Fault, Undefined
<1>2. CASE Main
  BY <1>2 DEF Main, StartConsole, CreateSem, SetOwnMac, RegisterCallback,
              RestoreRssi, RestoreAddr2, SetNoFilter
<1>3. CASE Console
  BY <1>3 DEF Console, RunCommand, TypeCommand, SourceArg, OverrunArg, FrameTooEarly,
              FrameArg, RssiArg, Abort, Undefined
<1>4. CASE Click
  BY <1>4 DEF Click
<1>5. CASE PowerLoss \/ ConfigWifi
  BY <1>5 DEF PowerLoss, ConfigWifi, Fault
<1>6. CASE UNCHANGED vars
  BY <1>6 DEF vars
<1>7. CASE Packet \/ Compare
  BY <1>7 DEF Packet, Compare
<1> QED
  BY <1>1, <1>2, <1>3, <1>4, <1>5, <1>6, <1>7 DEF Next, Tasks

(* A filter the console was told is set.  While it is calm, the saved      *)
(* filter, which the main task reads before it takes the semaphore, is     *)
(* still the saved one when it is written back.                            *)

AckBody ==
    /\ pc["console"] # "idle" => pc["main"] = "up"
    /\ pc["button"] \notin SetterSteps
    /\ pc["main"] \in SetterSteps /\ key["main"] = "addr2" => val["main"] = flash["addr2"]
    /\ pc["console"] \in SetterSteps => val["console"] = asked
    /\ flash["addr2"] = IF pc["console"] = "give" THEN asked ELSE acked

AckInv == calm => AckBody

LEMMA AckInit == Init => AckInv
<1> SUFFICES ASSUME Init PROVE AckInv
  OBVIOUS
<1> QED
  BY DEF Init, AckInv, AckBody, Procs, SetterSteps

LEMMA RestartAck == ASSUME Restart PROVE AckBody'
  BY DEF Restart, AckBody, Procs, SetterSteps, flashVars

LEMMA AckNext == Typed /\ AckInv /\ [Next]_vars => AckInv'
<1> SUFFICES ASSUME Typed, calm, calm', AckBody, [Next]_vars PROVE AckBody'
  BY CalmBefore, RestartAck DEF AckInv
<1> USE DEF Typed, TypeOK, AckBody, CarriesFilter, Procs, Keys, Goto,
            SetterSteps, flashVars, ramVars, noteVars
<1>1. ASSUME NEW p \in Procs, Setter(p) PROVE AckBody'
  <2>1. CASE Restart
    BY <2>1, RestartAck
  <2>0. CASE CountTooFar(p)
    BY <2>0 DEF CountTooFar, Undefined, taskVars
  <2>2. CASE TakeSem(p) /\ ~ Restart
    BY <2>2 DEF TakeSem, Abort
  <2>3. CASE SetRam(p)
    BY <2>3 DEF SetRam
  <2>9. CASE BeginSetRam(p)
    BY <2>9 DEF BeginSetRam
  <2>4. CASE SaveFilter(p) /\ ~ Restart
    BY <2>4, SMTT(60) DEF SaveFilter, Abort, Fault
  <2>5. CASE GiveSem(p)
    BY <2>5 DEF GiveSem, AfterSet
  <2>6. CASE SetRssi(p)
    BY <2>6 DEF SetRssi
  <2>7. CASE ReadSavedRssi(p)
    BY <2>7 DEF ReadSavedRssi
  <2>8. CASE SaveRssi(p) /\ ~ Restart
    BY <2>8 DEF SaveRssi, AfterRssi, Fault
  <2> QED
    BY <1>1, <2>1, <2>2, <2>3, <2>4, <2>5, <2>6, <2>7, <2>8, <2>9, <2>0 DEF Setter
<1>2. CASE Main
  BY <1>2 DEF Main, StartConsole, CreateSem, SetOwnMac, RegisterCallback,
              RestoreRssi, RestoreAddr2, SetNoFilter
<1>3. CASE Console
  <2>1. CASE SourceArg
    <3>1. PICK f : f = ReadFilter(cmd.source)
      OBVIOUS
    <3>2. /\ pc["console"] = "source"
          /\ \/ /\ key' = [key EXCEPT !["console"] = "addr2"]
                /\ val' = [val EXCEPT !["console"] = f]
                /\ asked' = f
                /\ pc' = [pc EXCEPT !["console"] = "take"]
             \/ /\ pc' = [pc EXCEPT !["console"] = "frame"]
                /\ UNCHANGED <<key, val, asked>>
          /\ UNCHANGED <<flashVars, ramVars, acked, calm>>
      BY <2>1, <3>1 DEF SourceArg
    <3> QED
      BY <3>2
  <2>2. CASE TypeCommand
    BY <2>2 DEF TypeCommand
  <2>3. CASE FrameArg
    BY <2>3 DEF FrameArg
  <2>4. CASE RssiArg
    BY <2>4 DEF RssiArg
  <2>5. CASE OverrunArg
    BY <2>5 DEF OverrunArg, Undefined, taskVars
  <2>6. CASE FrameTooEarly
    BY <2>6, RestartAck DEF FrameTooEarly, Abort
  <2> QED
    BY <1>3, <2>1, <2>2, <2>3, <2>4, <2>5, <2>6 DEF Console, RunCommand
<1>4. CASE Click
  BY <1>4 DEF Click
<1>5. CASE PowerLoss \/ ConfigWifi
  <2>1. CASE Restart
    BY <2>1, RestartAck
  <2>2. CASE ConfigWifi /\ ~ Restart
    BY <2>2 DEF ConfigWifi, Fault
  <2> QED
    BY <1>5, <2>1, <2>2 DEF PowerLoss, Fault
<1>6. CASE UNCHANGED vars
  BY <1>6 DEF vars, taskVars
<1>7. CASE Packet \/ Compare
  BY <1>7 DEF Packet, Compare, taskVars
<1> QED
  BY <1>1, <1>2, <1>3, <1>4, <1>5, <1>6, <1>7 DEF Next, Tasks

(* AckedKept: a filter that sniffer_set_filter returned for stays in flash *)
(* until a later one is asked for, however often the power fails; only     *)
(* what is typed during the boot is excepted (wifi_sniffer_nvs.c:24-36).   *)
THEOREM AcknowledgedKept == Spec => []AckedKept
<1>1. AckInv => AckedKept
  BY DEF AckInv, AckBody, AckedKept, SetterSteps
<1> QED
  BY <1>1, TypedInit, TypedNext, AckInit, AckNext, PTL DEF Spec

-----------------------------------------------------------------------------
(* The RSSI filter, which no lock protects: while it is calm one task at a *)
(* time sets it.                                                           *)

RssiBody ==
    /\ pc["console"] # "idle" \/ pc["button"] # "idle" => pc["main"] = "up"
    /\ pc["console"] = "idle" \/ pc["button"] = "idle"
    /\ pc["button"] \notin SetterSteps
    /\ \A p \in Procs : pc[p] \in {"rssiRead", "rssiSave"} => val[p] = rssi
    /\ \A p \in Procs : pc[p] = "rssiSave" => prev[p] = flashRssi
    /\ \/ pc["main"] \in {"restoreAddr2", "noFilter", "up"}
       \/ pc["main"] \in SetterSteps /\ key["main"] = "addr2"
       => rssi = flashRssi \/ \E p \in {"console", "button"} : pc[p] \in RssiSteps

RssiInv == calm => RssiBody

LEMMA RssiInit == Init => RssiInv
  BY DEF Init, RssiInv, RssiBody, Procs, SetterSteps, RssiSteps

LEMMA RestartRssi == ASSUME Restart PROVE RssiBody'
  BY DEF Restart, RssiBody, Procs, SetterSteps, RssiSteps

LEMMA RssiNext == Typed /\ RssiInv /\ [Next]_vars => RssiInv'
<1> SUFFICES ASSUME Typed, calm, calm', RssiBody, [Next]_vars PROVE RssiBody'
  BY CalmBefore, RestartRssi DEF RssiInv
<1> USE DEF Typed, TypeOK, RssiBody, CarriesFilter, Procs, Keys, Goto,
            SetterSteps, RssiSteps, flashVars, ramVars, noteVars
<1>1. ASSUME NEW p \in Procs, Setter(p) PROVE RssiBody'
  <2>1. CASE Restart
    BY <2>1, RestartRssi
  <2>0. CASE CountTooFar(p)
    BY <2>0 DEF CountTooFar, Undefined, taskVars
  <2>2. CASE TakeSem(p) /\ ~ Restart
    BY <2>2, SMTT(60) DEF TakeSem, Abort
  <2>3. CASE SetRam(p)
    BY <2>3 DEF SetRam
  <2>9. CASE BeginSetRam(p)
    BY <2>9 DEF BeginSetRam
  <2>4. CASE SaveFilter(p) /\ ~ Restart
    BY <2>4, SMTT(60) DEF SaveFilter, Abort, Fault
  <2>5. CASE GiveSem(p)
    BY <2>5 DEF GiveSem, AfterSet
  <2>6. CASE SetRssi(p)
    BY <2>6 DEF SetRssi
  <2>7. CASE ReadSavedRssi(p)
    BY <2>7 DEF ReadSavedRssi
  <2>8. CASE SaveRssi(p) /\ ~ Restart
    BY <2>8 DEF SaveRssi, AfterRssi, Fault
  <2> QED
    BY <1>1, <2>1, <2>2, <2>3, <2>4, <2>5, <2>6, <2>7, <2>8, <2>9, <2>0 DEF Setter
<1>2. CASE Main
  BY <1>2, SMTT(60) DEF Main, StartConsole, CreateSem, SetOwnMac, RegisterCallback,
              RestoreRssi, RestoreAddr2, SetNoFilter
<1>3. CASE Console
  <2>1. CASE SourceArg
    <3>1. PICK f : f = ReadFilter(cmd.source)
      OBVIOUS
    <3>2. /\ pc["console"] = "source"
          /\ \/ /\ key' = [key EXCEPT !["console"] = "addr2"]
                /\ val' = [val EXCEPT !["console"] = f]
                /\ pc' = [pc EXCEPT !["console"] = "take"]
             \/ /\ pc' = [pc EXCEPT !["console"] = "frame"]
                /\ UNCHANGED <<key, val>>
          /\ UNCHANGED <<flashVars, ramVars, prev, calm>>
      BY <2>1, <3>1 DEF SourceArg
    <3> QED
      BY <3>2
  <2>2. CASE TypeCommand
    BY <2>2 DEF TypeCommand
  <2>3. CASE FrameArg
    BY <2>3 DEF FrameArg
  <2>4. CASE RssiArg
    BY <2>4 DEF RssiArg
  <2>5. CASE OverrunArg
    BY <2>5 DEF OverrunArg, Undefined, taskVars
  <2>6. CASE FrameTooEarly
    BY <2>6, RestartRssi DEF FrameTooEarly, Abort
  <2> QED
    BY <1>3, <2>1, <2>2, <2>3, <2>4, <2>5, <2>6 DEF Console, RunCommand
<1>4. CASE Click
  BY <1>4 DEF Click
<1>5. CASE PowerLoss \/ ConfigWifi
  <2>1. CASE Restart
    BY <2>1, RestartRssi
  <2>2. CASE ConfigWifi /\ ~ Restart
    BY <2>2 DEF ConfigWifi, Fault
  <2> QED
    BY <1>5, <2>1, <2>2 DEF PowerLoss, Fault
<1>6. CASE UNCHANGED vars
  BY <1>6 DEF vars, taskVars
<1>7. CASE Packet \/ Compare
  BY <1>7 DEF Packet, Compare, taskVars
<1> QED
  BY <1>1, <1>2, <1>3, <1>4, <1>5, <1>6, <1>7 DEF Next, Tasks

(* RssiAgrees: while commands and clicks come one at a time and after the  *)
(* boot, the RSSI filter in RAM is the saved one when nobody is setting it *)
(* (wifi_sniffer.c:227-236).                                               *)
THEOREM RssiFilterAgrees == Spec => []RssiAgrees
<1>1. RssiInv => RssiAgrees
  BY DEF RssiInv, RssiBody, RssiAgrees, Procs
<1> QED
  BY <1>1, TypedInit, TypedNext, RssiInit, RssiNext, PTL DEF Spec

-----------------------------------------------------------------------------
(* What the driver's callback compares.  A filter is half written only by  *)
(* the holder of the semaphore, and a callback that judges alone took it   *)
(* before any task began to write.                                         *)

DriverInv ==
    /\ filter["addr2"] = Torn => \E p \in Procs : pc[p] = "half" /\ key[p] = "addr2"
    /\ driver = "alone" => \A p \in Procs : pc[p] # "half"
    /\ pc["main"] = "callback" \/ driver # "off" => filter["own"] = OwnMac
    /\ driver # "off" => pc["main"] \notin {"start", "wifi", "sem", "own", "callback"}
    /\ driver # "off" => \A p \in Procs : pc[p] \in SetterSteps => key[p] = "addr2"
    /\ key["main"] = "own" /\ pc["main"] \in SetterSteps => val["main"] = OwnMac
    /\ key["main"] = "own" /\ pc["main"] \in {"save", "give"} => filter["own"] = OwnMac

LEMMA DriverInit == Init => DriverInv
  BY ConfigAssumption DEF Init, DriverInv, Procs, Keys, SetterSteps

LEMMA RestartDriver == ASSUME Restart PROVE DriverInv'
  BY ConfigAssumption DEF Restart, DriverInv, Procs, Keys, SetterSteps

LEMMA DriverNext == Typed /\ AddrInv /\ DriverInv /\ [Next]_vars => DriverInv'
<1> SUFFICES ASSUME Typed, AddrInv, DriverInv, [Next]_vars PROVE DriverInv'
  OBVIOUS
<1> USE DEF Typed, TypeOK, AddrInv, Mutex, DriverInv, CarriesFilter, Procs, Keys, Goto,
            SetterSteps, DriverStates, flashVars, ramVars
<1>1. ASSUME NEW p \in Procs, Setter(p) PROVE DriverInv'
  <2>1. CASE Restart
    BY <2>1, RestartDriver
  <2>0. CASE CountTooFar(p)
    BY <2>0 DEF CountTooFar, Undefined, taskVars
  <2>2. CASE TakeSem(p) /\ ~ Restart
    BY <2>2 DEF TakeSem, Abort
  <2>3. CASE SetRam(p)
    BY <2>3, ConfigAssumption DEF SetRam
  <2>4. CASE SaveFilter(p) /\ ~ Restart
    BY <2>4 DEF SaveFilter, Abort, Fault
  <2>5. CASE GiveSem(p)
    BY <2>5 DEF GiveSem, AfterSet
  <2>6. CASE SetRssi(p)
    BY <2>6 DEF SetRssi, RssiSteps
  <2>7. CASE ReadSavedRssi(p)
    BY <2>7 DEF ReadSavedRssi
  <2>8. CASE SaveRssi(p) /\ ~ Restart
    BY <2>8 DEF SaveRssi, AfterRssi, Fault
  <2>9. CASE BeginSetRam(p)
    BY <2>9 DEF BeginSetRam
  <2> QED
    BY <1>1, <2>1, <2>2, <2>3, <2>4, <2>5, <2>6, <2>7, <2>8, <2>9, <2>0 DEF Setter
<1>2. CASE Main
  BY <1>2 DEF Main, StartConsole, CreateSem, SetOwnMac, RegisterCallback,
              RestoreRssi, RestoreAddr2, SetNoFilter
<1>3. CASE Console
  <2>1. CASE SourceArg
    <3>1. PICK f : f = ReadFilter(cmd.source)
      OBVIOUS
    <3>2. /\ pc["console"] = "source"
          /\ \/ /\ key' = [key EXCEPT !["console"] = "addr2"]
                /\ val' = [val EXCEPT !["console"] = f]
                /\ pc' = [pc EXCEPT !["console"] = "take"]
             \/ /\ pc' = [pc EXCEPT !["console"] = "frame"]
                /\ UNCHANGED <<key, val>>
          /\ UNCHANGED <<flashVars, ramVars>>
      BY <2>1, <3>1 DEF SourceArg
    <3> QED
      BY <3>2
  <2>2. CASE TypeCommand
    BY <2>2 DEF TypeCommand
  <2>3. CASE FrameArg
    BY <2>3 DEF FrameArg
  <2>4. CASE RssiArg
    BY <2>4 DEF RssiArg, RssiSteps
  <2>5. CASE OverrunArg
    BY <2>5 DEF OverrunArg, Undefined, taskVars
  <2>6. CASE FrameTooEarly
    BY <2>6, RestartDriver DEF FrameTooEarly, Abort
  <2> QED
    BY <1>3, <2>1, <2>2, <2>3, <2>4, <2>5, <2>6 DEF Console, RunCommand
<1>4. CASE Click
  BY <1>4 DEF Click, RssiSteps
<1>5. CASE PowerLoss \/ ConfigWifi
  <2>1. CASE Restart
    BY <2>1, RestartDriver
  <2>2. CASE ConfigWifi /\ ~ Restart
    BY <2>2 DEF ConfigWifi, Fault
  <2> QED
    BY <1>5, <2>1, <2>2 DEF PowerLoss, Fault
<1>6. CASE UNCHANGED vars
  BY <1>6 DEF vars, taskVars
<1>7. CASE Packet \/ Compare
  BY <1>7 DEF Packet, Compare, taskVars
<1> QED
  BY <1>1, <1>2, <1>3, <1>4, <1>5, <1>6, <1>7 DEF Next, Tasks

(* JudgedWhole: although the callback gives the semaphore back before it   *)
(* compares, a half-written filter is compared only when a task has begun  *)
(* to write it since, and the device's own address is in force whenever    *)
(* the callback runs (wifi_sniffer.c:255-267, 518-527).                    *)
THEOREM PacketsJudgedWhole == Spec => []JudgedWhole
<1>1. DriverInv => JudgedWhole
  BY DEF DriverInv, JudgedWhole
<1> QED
  BY <1>1, TypedInit, TypedNext, AddrInit, AddrNext, DriverInit, DriverNext, PTL DEF Spec

-----------------------------------------------------------------------------
(* The RSSI filter is never 0.  What is about to be set may be 0 only      *)
(* before SetRssi has put the default in its place, and flash holds a 0    *)
(* only until some task has saved; the main task has by the time it        *)
(* restores the address filter.                                            *)

RssiRestored ==
    \/ pc["main"] \in {"restoreAddr2", "noFilter", "up"}
    \/ pc["main"] \in SetterSteps /\ key["main"] = "addr2"

RssiOnInv ==
    /\ rssi < 0
    /\ flashRssi <= 0
    /\ RssiRestored => flashRssi < 0
    /\ \A p \in Procs :
         /\ pc[p] = "rssiRam" => val[p] <= 0
         /\ pc[p] \in {"rssiRead", "rssiSave"} => val[p] < 0
         /\ pc[p] = "rssiSave" /\ prev[p] < 0 => flashRssi < 0

LEMMA RssiOnInit == Init => RssiOnInv
  BY ConfigAssumption DEF Init, RssiOnInv, RssiRestored, RssiDefault, Procs, SetterSteps

LEMMA RestartRssiOn == ASSUME Typed, RssiOnInv, Restart PROVE RssiOnInv'
  BY DEF Restart, RssiOnInv, RssiRestored, RssiDefault, Procs, SetterSteps, flashVars

LEMMA RssiOnNext == Typed /\ RssiOnInv /\ [Next]_vars => RssiOnInv'
<1> SUFFICES ASSUME Typed, RssiOnInv, [Next]_vars PROVE RssiOnInv'
  OBVIOUS
<1> USE DEF Typed, TypeOK, RssiOnInv, RssiRestored, SetterSteps, CarriesRssi, Procs, Keys, Goto,
            RssiSteps, Int8, flashVars, ramVars
<1>1. ASSUME NEW p \in Procs, Setter(p) PROVE RssiOnInv'
  <2>1. CASE Restart
    BY <2>1, RestartRssiOn
  <2>0. CASE CountTooFar(p)
    BY <2>0 DEF CountTooFar, Undefined, taskVars
  <2>2. CASE TakeSem(p) /\ ~ Restart
    BY <2>2 DEF TakeSem, Abort
  <2>3. CASE SetRam(p)
    BY <2>3 DEF SetRam
  <2>9. CASE BeginSetRam(p)
    BY <2>9 DEF BeginSetRam
  <2>4. CASE SaveFilter(p) /\ ~ Restart
    BY <2>4 DEF SaveFilter, Abort, Fault
  <2>5. CASE GiveSem(p)
    BY <2>5 DEF GiveSem, AfterSet
  <2>6. CASE SetRssi(p)
    BY <2>6 DEF SetRssi, RssiDefault
  <2>7. CASE ReadSavedRssi(p)
    BY <2>7 DEF ReadSavedRssi
  <2>8. CASE SaveRssi(p) /\ ~ Restart
    BY <2>8 DEF SaveRssi, AfterRssi, Fault
  <2> QED
    BY <1>1, <2>1, <2>2, <2>3, <2>4, <2>5, <2>6, <2>7, <2>8, <2>9, <2>0 DEF Setter
<1>2. CASE Main
  BY <1>2 DEF Main, StartConsole, CreateSem, SetOwnMac, RegisterCallback,
              RestoreRssi, RestoreAddr2, SetNoFilter
<1>3. CASE Console
  <2>1. CASE SourceArg
    <3>1. PICK f : f = ReadFilter(cmd.source)
      OBVIOUS
    <3>2. /\ pc["console"] = "source"
          /\ \/ /\ val' = [val EXCEPT !["console"] = f]
                /\ pc' = [pc EXCEPT !["console"] = "take"]
             \/ /\ pc' = [pc EXCEPT !["console"] = "frame"]
                /\ UNCHANGED val
          /\ key'["main"] = key["main"]
          /\ UNCHANGED <<flashVars, ramVars, prev>>
      BY <2>1, <3>1 DEF SourceArg
    <3> QED
      BY <3>2
  <2>2. CASE TypeCommand
    BY <2>2 DEF TypeCommand
  <2>3. CASE FrameArg
    BY <2>3 DEF FrameArg
  <2>4. CASE RssiArg
    BY <2>4 DEF RssiArg
  <2>5. CASE OverrunArg
    BY <2>5 DEF OverrunArg, Undefined, taskVars
  <2>6. CASE FrameTooEarly
    BY <2>6, RestartRssiOn DEF FrameTooEarly, Abort
  <2> QED
    BY <1>3, <2>1, <2>2, <2>3, <2>4, <2>5, <2>6 DEF Console, RunCommand
<1>4. CASE Click
  <2>1. PICK r \in -128 .. -1 : r = NextRssi(rssi)
    BY DEF NextRssi
  <2> QED
    BY <1>4, <2>1 DEF Click
<1>5. CASE PowerLoss \/ ConfigWifi
  <2>1. CASE Restart
    BY <2>1, RestartRssiOn
  <2>2. CASE ConfigWifi /\ ~ Restart
    BY <2>2 DEF ConfigWifi, Fault
  <2> QED
    BY <1>5, <2>1, <2>2 DEF PowerLoss, Fault
<1>6. CASE UNCHANGED vars
  BY <1>6 DEF vars, taskVars
<1>7. CASE Packet \/ Compare
  BY <1>7 DEF Packet, Compare, taskVars
<1> QED
  BY <1>1, <1>2, <1>3, <1>4, <1>5, <1>6, <1>7 DEF Next, Tasks

(* RssiFilterOn: whatever is typed or clicked, at any time, the RSSI       *)
(* filter in RAM is negative, and once the device has booted the saved one *)
(* is, also if flash held a 0 before (wifi_sniffer.c:227-236, 528-529).    *)
(* DataBySource of PacketFilter relies on it.                              *)
THEOREM RssiFilterNeverZero == Spec => []RssiFilterOn
<1>1. RssiOnInv => RssiFilterOn
  BY DEF RssiOnInv, RssiRestored, RssiFilterOn
<1> QED
  BY <1>1, TypedInit, TypedNext, RssiOnInit, RssiOnNext, PTL DEF Spec

-----------------------------------------------------------------------------
(* The safety half of SemGivenBack. *)

(* The steps between taking the semaphore and giving it back; none of them *)
(* waits for anything.                                                     *)
Holding == {"ram", "half", "save", "give"}

HolderInv == \A p \in Procs : lock = p <=> pc[p] \in Holding

LEMMA HolderNext == Typed /\ HolderInv /\ [Next]_vars => HolderInv'
<1> SUFFICES ASSUME Typed, HolderInv, [Next]_vars PROVE HolderInv'
  OBVIOUS
<1> USE DEF HolderInv, Holding, Procs, Goto
<1>a. pc \in [Procs -> MainSteps \cup ConsoleSteps \cup SetterSteps \cup RssiSteps]
  BY DEF Typed, TypeOK
<1>1. CASE Restart
  BY <1>1 DEF Restart
<1>2. ASSUME NEW p \in Procs, Setter(p), ~ Restart PROVE HolderInv'
  <2>1. CASE TakeSem(p)
    <3>1. lock = "none" /\ lock' = p /\ pc' = [pc EXCEPT ![p] = "ram"]
      BY <1>2, <2>1 DEF TakeSem, Abort
    <3> QED
      BY <1>a, <3>1
  <2>0. CASE CountTooFar(p)
    BY <2>0 DEF CountTooFar, Undefined, ramVars, taskVars
  <2>2. CASE BeginSetRam(p) \/ SetRam(p) \/ SaveFilter(p)
    <3>1. /\ pc[p] \in Holding /\ lock' = lock
          /\ \E l \in Holding : pc' = [pc EXCEPT ![p] = l]
      BY <1>2, <2>2 DEF BeginSetRam, SetRam, SaveFilter, Abort, Fault, ramVars
    <3> QED
      BY <1>a, <3>1
  <2>3. CASE GiveSem(p)
    <3>1. pc[p] = "give" /\ lock' = "none"
          /\ \E l \in {"callback", "noFilter", "frame"} : pc' = [pc EXCEPT ![p] = l]
      BY <2>3 DEF GiveSem, AfterSet
    <3> QED
      BY <1>a, <3>1
  <2>4. CASE SetRssi(p) \/ ReadSavedRssi(p) \/ SaveRssi(p)
    <3>1. /\ pc[p] \notin Holding /\ lock' = lock
          /\ \E l \in {"rssiRead", "rssiSave", "restoreAddr2", "idle"} :
               pc' = [pc EXCEPT ![p] = l]
      BY <1>2, <2>4 DEF SetRssi, ReadSavedRssi, SaveRssi, AfterRssi, Fault, ramVars
    <3> QED
      BY <1>a, <3>1
  <2> QED
    BY <1>2, <2>0, <2>1, <2>2, <2>3, <2>4 DEF Setter
<1>3. CASE (Main \/ ConfigWifi \/ Console \/ Click) /\ ~ Restart /\ ~ Undefined
  <2>1. /\ lock' = lock
        /\ \E p \in Procs : \E l : /\ pc' = [pc EXCEPT ![p] = l]
                                   /\ pc[p] \notin Holding /\ l \notin Holding
    BY <1>3 DEF Main, StartConsole, ConfigWifi, CreateSem, SetOwnMac, RegisterCallback,
           RestoreRssi, RestoreAddr2, SetNoFilter, Console, RunCommand, TypeCommand,
           SourceArg, OverrunArg, FrameTooEarly, FrameArg, RssiArg, Click, Abort, Fault, ramVars
  <2> QED
    BY <1>a, <2>1
<1>4. CASE Packet \/ Compare \/ UNCHANGED vars
  BY <1>4 DEF Packet, Compare, vars, ramVars, taskVars
<1>5. CASE PowerLoss
  BY <1>1, <1>5 DEF PowerLoss, Fault
<1>6. CASE Undefined
  BY <1>6 DEF Undefined, ramVars, taskVars
<1> QED
  BY <1>1, <1>2, <1>3, <1>4, <1>5, <1>6 DEF Next, Tasks

(* What SemGivenBack rests on: the semaphore is held exactly by the one    *)
(* task that stands between taking it and giving it back, never by one     *)
(* that an error or a restart took out of there, so the callback and the   *)
(* other tasks wait for a task that waits for nothing, at most for the     *)
(* count that a wrong hex digit starts (wifi_sniffer.c:78-100, 255-267).   *)
THEOREM SemHeldWhileSetting ==
    Spec => [](\A p \in Procs : lock = p <=> pc[p] \in Holding)
<1>1. Init => HolderInv
  BY DEF Init, HolderInv, Holding, Procs
<1>2. HolderInv => \A p \in Procs : lock = p <=> pc[p] \in Holding
  BY DEF HolderInv
<1> QED
  BY <1>1, <1>2, TypedInit, TypedNext, HolderNext, PTL DEF Spec
=============================================================================
