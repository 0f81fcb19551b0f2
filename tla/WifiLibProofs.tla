--------------------------- MODULE WifiLibProofs ----------------------------
(* Theorems about WifiLib, for every value of its constants. *)
EXTENDS WifiLib, SequenceTheorems, TLAPS

(* Who holds which interface: pc and held are functions, every interface   *)
(* known was created, and nobody holds the null pointer to destroy it.     *)
Known ==
    /\ created \in Nat
    /\ pc = [p \in Procs |-> pc[p]]
    /\ held = [p \in Procs \cup {"handler"} |-> held[p]]
    /\ \A n \in live \cup {netif} : n.id \in Nat /\ n.id <= created
    /\ \A p \in Procs : held[p].id \in Nat /\ held[p].id <= created

(* A new interface exists and belongs to its creator alone until it is     *)
(* stored in _esp_netif: nobody else can have read it there.               *)
Private ==
    \A p \in Procs : pc[p] = "set" =>
        /\ held[p] \in live /\ held[p] # NoNetif
        /\ held[p] # netif
        /\ \A q \in Procs \ {p} : held[q] # held[p]

PointerInv == Known /\ Private /\ DanglesBriefly

LEMMA PointerInit == Init => PointerInv
  BY DEF Init, PointerInv, Known, Private, DanglesBriefly, UseDestroyed, NoNetif, Procs

LEMMA RestartPointer == ASSUME Restart PROVE PointerInv'
  BY DEF Restart, PointerInv, Known, Private, DanglesBriefly, UseDestroyed, NoNetif, Procs

(* A task that goes on to another step than set or clear, with interfaces  *)
(* and what the tasks hold of them unchanged. *)
LEMMA PointerGoto ==
    ASSUME PointerInv, NEW p \in Procs, NEW l, l # "set", pc[p] # "clear",
           pc' = [pc EXCEPT ![p] = l], UNCHANGED <<netifVars, held>>
    PROVE  PointerInv'
  BY DEF PointerInv, Known, Private, DanglesBriefly, UseDestroyed, Procs, netifVars

LEMMA PointerStutter ==
    ASSUME PointerInv, UNCHANGED <<netifVars, held, pc>>
    PROVE  PointerInv'
  BY DEF PointerInv, Known, Private, DanglesBriefly, UseDestroyed, Procs, netifVars

(* A task or the handler reads the pointer. *)
LEMMA PointerRead ==
    ASSUME PointerInv, NEW p \in Procs, NEW l, l \notin {"set", "clear"},
           pc[p] \notin {"set", "clear"},
           pc' = [pc EXCEPT ![p] = l],
           held' = [held EXCEPT ![p] = netif], UNCHANGED netifVars
    PROVE  PointerInv'
  BY DEF PointerInv, Known, Private, DanglesBriefly, UseDestroyed, Procs, netifVars

LEMMA PointerNext == PointerInv /\ [Next]_vars => PointerInv'
<1> SUFFICES ASSUME PointerInv, [Next]_vars PROVE PointerInv'
  OBVIOUS
<1>1. ASSUME NEW p \in Procs, Switch(p) PROVE PointerInv'
  <2>1. CASE Abort
    BY <2>1, RestartPointer DEF Abort
  <2>2. CASE Undefined
    BY <2>2, PointerStutter DEF Undefined
  <2>3. CASE LoadSetting(p)
    BY <2>3, PointerStutter DEF LoadSetting
  <2>4. CASE StopWifi(p) /\ ~ Abort
    BY <2>4, PointerGoto DEF StopWifi, Goto
  <2>5. CASE GetOld(p)
    BY <2>5, PointerRead DEF GetOld, Goto
  <2>6. CASE FreeOld(p) /\ ~ Undefined
    <3>1. /\ pc[p] = "free"
          /\ live' = live \ {held[p]}
          /\ pc' = [pc EXCEPT ![p] = "clear"]
          /\ UNCHANGED <<created, netif, held>>
      BY <2>6 DEF FreeOld, Goto
    <3> QED
      BY <3>1 DEF PointerInv, Known, Private, DanglesBriefly, UseDestroyed, Procs
  <2>7. CASE ClearPointer(p)
    <3>1. /\ pc[p] = "clear"
          /\ netif' = NoNetif
          /\ pc' = [pc EXCEPT ![p] = "conf"]
          /\ UNCHANGED <<live, created, held>>
      BY <2>7 DEF ClearPointer, Goto
    <3>2. NoNetif.id = 0
      BY DEF NoNetif
    <3>3. Known'
      <4>1. created' = created /\ created \in Nat
        BY <3>1 DEF PointerInv, Known
      <4>2. pc' = [q \in Procs |-> pc'[q]] /\ held' = [q \in Procs \cup {"handler"} |-> held'[q]]
        BY <3>1 DEF PointerInv, Known
      <4>3. \A n \in live' \cup {netif'} : n.id \in Nat /\ n.id <= created'
        BY <3>1, <3>2, <4>1 DEF PointerInv, Known
      <4>4. \A q \in Procs : held'[q].id \in Nat /\ held'[q].id <= created'
        BY <3>1, <4>1 DEF PointerInv, Known
      <4> QED
        BY <4>1, <4>2, <4>3, <4>4 DEF Known
    <3>4. Private'
      BY <3>1 DEF PointerInv, Known, Private
    <3>5. DanglesBriefly'
      BY <3>1 DEF DanglesBriefly, UseDestroyed
    <3> QED
      BY <3>3, <3>4, <3>5 DEF PointerInv
  <2>8. CASE Configure(p)
    BY <2>8, PointerGoto DEF Configure, Goto
  <2>9. CASE CreateNetif(p) /\ ~ Abort
    <3> DEFINE new == [id |-> created + 1, mode |-> target[p]]
    <3>1. /\ pc[p] = "create"
          /\ live' = live \cup {new}
          /\ created' = created + 1
          /\ held' = [held EXCEPT ![p] = new]
          /\ pc' = [pc EXCEPT ![p] = "set"]
          /\ UNCHANGED netif
      BY <2>9 DEF CreateNetif, Goto
    <3>2. /\ new.id = created + 1 /\ created \in Nat
          /\ new \notin live /\ new # netif /\ new # NoNetif
          /\ \A q \in Procs : new # held[q]
      <4>1. new.id = created + 1
        OBVIOUS
      <4> HIDE DEF new
      <4>2. new.id # NoNetif.id /\ \A n \in live \cup {netif} : n.id # new.id
        BY <4>1 DEF PointerInv, Known, NoNetif
      <4>3. \A q \in Procs : held[q].id # new.id
        BY <4>1 DEF PointerInv, Known
      <4> QED
        BY <4>1, <4>2, <4>3 DEF PointerInv, Known
    <3> HIDE DEF new
    <3>3. /\ held'[p] = new /\ pc'[p] = "set"
          /\ \A q \in Procs \ {p} : held'[q] = held[q] /\ pc'[q] = pc[q]
      BY <3>1 DEF PointerInv, Known
    <3>4. Known'
      <4>1. created' \in Nat /\ created <= created'
        BY <3>1, <3>2
      <4>2. pc' = [q \in Procs |-> pc'[q]] /\ held' = [q \in Procs \cup {"handler"} |-> held'[q]]
        BY <3>1 DEF PointerInv, Known
      <4>3. \A n \in live' \cup {netif'} : n.id \in Nat /\ n.id <= created'
        BY <3>1, <3>2 DEF PointerInv, Known
      <4>4. \A q \in Procs : held'[q].id \in Nat /\ held'[q].id <= created'
        BY <3>1, <3>2, <3>3 DEF PointerInv, Known
      <4> QED
        BY <4>1, <4>2, <4>3, <4>4 DEF Known
    <3>5. Private'
      BY <3>1, <3>2, <3>3 DEF PointerInv, Private
    <3>6. DanglesBriefly'
      BY <3>1, <3>3 DEF PointerInv, DanglesBriefly, UseDestroyed
    <3> QED
      BY <3>4, <3>5, <3>6 DEF PointerInv
  <2>10. CASE SetPointer(p)
    <3>1. /\ pc[p] = "set"
          /\ netif' = held[p]
          /\ pc' = [pc EXCEPT ![p] = "start"]
          /\ UNCHANGED <<live, created, held>>
      BY <2>10 DEF SetPointer, Goto
    <3> QED
      BY <3>1 DEF PointerInv, Known, Private, DanglesBriefly, UseDestroyed, Procs
  <2>11. CASE StartWifi(p)
    BY <2>11, PointerGoto DEF StartWifi, Goto
  <2>12. CASE SaveMode(p) /\ ~ Abort
    BY <2>12, PointerGoto DEF SaveMode, Goto, Last, AfterMode, End
  <2>13. CASE SaveChannel(p) /\ ~ Abort
    BY <2>13, PointerGoto DEF SaveChannel, Goto
  <2>14. CASE SaveSsid(p) /\ ~ Abort
    BY <2>14, PointerGoto DEF SaveSsid, Goto
  <2>15. CASE SavePassword(p) /\ ~ Abort /\ ~ Undefined
    BY <2>15, PointerGoto DEF SavePassword, Goto
  <2>16. CASE WaitStarted(p)
    BY <2>16, PointerGoto DEF WaitStarted, Goto
  <2>17. CASE Connect(p) /\ ~ Abort /\ ~ Undefined
    BY <2>17, PointerGoto DEF Connect, Goto
  <2>18. CASE GetForIp(p)
    BY <2>18, PointerRead DEF GetForIp, Goto, Last, AfterMode, End
  <2>19. CASE (StopDhcp(p) \/ SetIp(p) \/ StartDhcp(p)) /\ ~ Abort /\ ~ Undefined
    BY <2>19, PointerGoto DEF StopDhcp, SetIp, StartDhcp, Goto
  <2>20. CASE SaveIp(p) /\ ~ Abort
    BY <2>20, PointerGoto DEF SaveIp, Goto
  <2>21. CASE SaveGateway(p) /\ ~ Abort
    BY <2>21, PointerGoto DEF SaveGateway, Goto
  <2>22. CASE PostGotIp(p)
    BY <2>22, PointerGoto DEF PostGotIp, Goto, Last, AfterMode, End
  <2>23. CASE Report(p) /\ ~ Undefined
    BY <2>23, PointerGoto DEF Report, Goto, AfterMode, End
  <2> QED
    BY <1>1, <2>1, <2>2, <2>3, <2>4, <2>5, <2>6, <2>7, <2>8, <2>9, <2>10, <2>11, <2>12,
       <2>13, <2>14, <2>15, <2>16, <2>17, <2>18, <2>19, <2>20, <2>21, <2>22, <2>23
    DEF Switch
<1>2. CASE WifiInit
  BY <1>2, PointerGoto DEF WifiInit, Goto, Procs
<1>3. CASE ReadMode
  BY <1>3, PointerGoto DEF ReadMode, Goto, Procs
<1>4. CASE TypeCommand
  BY <1>4, PointerGoto DEF TypeCommand, Goto, Procs
<1>5. CASE StationNews
  BY <1>5, PointerStutter DEF StationNews
<1>6. CASE HandleEvent
  BY <1>6, PointerStutter DEF HandleEvent
<1>7. CASE GetForDisplay
  <2>1. /\ held' = [held EXCEPT !["handler"] = netif]
        /\ UNCHANGED <<netifVars, pc>>
    BY <1>7 DEF GetForDisplay
  <2>2. \A p \in Procs : held'[p] = held[p]
    BY <2>1 DEF PointerInv, Known, Procs
  <2> QED
    BY <2>1, <2>2 DEF PointerInv, Known, Private, DanglesBriefly, UseDestroyed, Procs, netifVars
<1>8. CASE Display
  <2>1. CASE Undefined
    BY <2>1, PointerStutter DEF Undefined
  <2>2. CASE ~ Undefined
    BY <1>8, <2>2, PointerStutter DEF Display
  <2> QED
    BY <2>1, <2>2
<1>9. CASE PowerLoss
  BY <1>9, RestartPointer DEF PowerLoss
<1>10. CASE UNCHANGED vars
  BY <1>10, PointerStutter DEF vars
<1> QED
  BY <1>1, <1>2, <1>3, <1>4, <1>5, <1>6, <1>7, <1>8, <1>9, <1>10 DEF Next

(* DanglesBriefly: however commands overlap with the boot, with each       *)
(* other's events and with losses of power, _esp_netif names a destroyed   *)
(* interface only until the task that destroyed it has cleared it          *)
(* (wifi_lib.c:69-78).                                                     *)
THEOREM PointerNeverStale == Spec => []DanglesBriefly
<1>1. PointerInv => DanglesBriefly
  BY DEF PointerInv
<1> QED
  BY <1>1, PointerInit, PointerNext, PTL DEF Spec

-----------------------------------------------------------------------------
(* Type correctness.  A setting that was not given must not reach the      *)
(* driver or flash: what is known of the settings at each step is part of  *)
(* the invariant, which is split by the variables it is about.             *)

Full == SettingsOr({})

SavedOK  == flash \in Full /\ flashMode \in Modes

DriverOK ==
    /\ inited \in BOOLEAN
    /\ mode \in Modes
    /\ running \in Modes \cup {"off"}
    /\ ap \in [ssid : Strings, pw : Strings, ch : 0 .. 255]
    /\ refused \in BOOLEAN
    /\ addr \in [{"ip", "gw"} -> Addresses]

NetifOK ==
    /\ created \in Nat
    /\ live \subseteq Netifs
    /\ netif \in Netifs
    /\ held \in [Procs \cup {"handler"} -> Netifs]

EventOK ==
    /\ events \in Seq(Modes \cup {"STATION"})
    /\ bits \subseteq Modes
    /\ posted \in 0 .. MaxPosted

(* A task at step l may switch to mode m with settings a: set-ip never     *)
(* gets into the switch, the steps that save are wifi_ap's, and all that   *)
(* wifi_ap was not given it has read from flash.                           *)
Allowed(l, m, a) ==
    /\ m = "IP" => l \in {"idle", "ipGet", "dhcpStop", "ipSet", "dhcpStart", "saveIp", "saveGw",
                        "gotIp"}
    /\ l \in {"saveMode", "saveCh", "saveSsid", "savePw"} => m = "AP"
    /\ m = "AP" /\ l \notin {"init", "readMode", "idle", "load"} => a \in Full
    /\ l \in {"ipGet", "dhcpStop", "ipSet", "dhcpStart", "saveIp", "saveGw"} =>
         a.ip \in Addresses /\ a.gw \in Addresses

TaskOK ==
    /\ pc \in [Procs -> Steps]
    /\ target \in [Procs -> Modes \cup {"IP"}]
    /\ arg \in [Procs -> SettingsOr({NotGiven})]
    /\ target["main"] # "IP"
    /\ \A p \in Procs : Allowed(pc[p], target[p], arg[p])

DataInv == SavedOK /\ DriverOK /\ NetifOK /\ EventOK /\ TaskOK

(* What settings are, field by field. *)
LEMMA FullFields ==
    ASSUME NEW a \in Full
    PROVE  /\ a.ssid \in Strings /\ a.pw \in Strings /\ a.ch \in 0 .. 255
           /\ a.ip \in Addresses /\ a.gw \in Addresses
           /\ a \in SettingsOr({NotGiven})
  BY DEF Full, SettingsOr

LEMMA DefaultFull == Default \in Full
  BY WifiAssumption DEF Full

(* At power-on, and after a restart. *)
LEMMA PowerOnData ==
    /\ Init => DataInv
    /\ DataInv /\ Restart => DataInv'
<1>0. /\ Default.ssid \in Strings /\ Default.pw \in Strings /\ Default.ch \in 0 .. 255
      /\ Default.ip \in Addresses /\ Default.gw \in Addresses
      /\ Default \in SettingsOr({NotGiven})
      /\ DOMAIN Default = {"ssid", "pw", "ch", "ip", "gw"}
  BY DefaultFull, FullFields DEF Full, SettingsOr
<1>1. [k \in ApKeys |-> Default[k]] \in [ssid : Strings, pw : Strings, ch : 0 .. 255]
  BY <1>0 DEF ApKeys
<1>2. [ip |-> NewAddress, gw |-> NewAddress] \in [{"ip", "gw"} -> Addresses]
  BY WifiAssumption
<1>3. [p \in Procs |-> Default] \in [Procs -> SettingsOr({NotGiven})]
  BY <1>0
<1>4. MaxPosted \in Nat
  BY WifiAssumption
<1>5. ASSUME Init PROVE DataInv
  <2>1. SavedOK
    BY <1>5, DefaultFull DEF Init, SavedOK, Modes
  <2>2. DriverOK
    BY <1>5, <1>1, <1>2 DEF Init, DriverOK, Modes
  <2>3. NetifOK
    BY <1>5 DEF Init, NetifOK, Netifs, NoNetif, Modes
  <2>4. EventOK
    BY <1>5, <1>4, EmptySeq DEF Init, EventOK
  <2>5. TaskOK
    BY <1>5, <1>3 DEF Init, TaskOK, Allowed, Procs, Steps, Modes
  <2> QED
    BY <2>1, <2>2, <2>3, <2>4, <2>5 DEF DataInv
<1>6. ASSUME DataInv, Restart PROVE DataInv'
  <2>1. SavedOK'
    BY <1>6 DEF Restart, SavedOK, flashVars, DataInv
  <2>2. DriverOK'
    BY <1>6, <1>1, <1>2 DEF Restart, DriverOK, Modes
  <2>3. NetifOK'
    BY <1>6 DEF Restart, NetifOK, Netifs, NoNetif, Modes
  <2>4. EventOK'
    BY <1>6, <1>4, EmptySeq DEF Restart, EventOK
  <2>5. TaskOK'
    BY <1>6, <1>3 DEF Restart, TaskOK, Allowed, Procs, Steps, Modes
  <2> QED
    BY <2>1, <2>2, <2>3, <2>4, <2>5 DEF DataInv
<1> QED
  BY <1>5, <1>6

(* What a step does not touch stays right. *)
LEMMA DataSame ==
    ASSUME DataInv
    PROVE  /\ UNCHANGED flashVars => SavedOK'
           /\ UNCHANGED driverVars => DriverOK'
           /\ UNCHANGED <<netifVars, held>> => NetifOK'
           /\ UNCHANGED <<events, bits, posted>> => EventOK'
           /\ UNCHANGED <<taskVars, pc>> => TaskOK'
<1>1. UNCHANGED flashVars => SavedOK'
  BY DEF DataInv, SavedOK, flashVars
<1>2. UNCHANGED driverVars => DriverOK'
  BY DEF DataInv, DriverOK, driverVars
<1>3. UNCHANGED <<netifVars, held>> => NetifOK'
  BY DEF DataInv, NetifOK, netifVars, Netifs
<1>4. UNCHANGED <<events, bits, posted>> => EventOK'
  BY DEF DataInv, EventOK
<1>5. UNCHANGED <<taskVars, pc>> => TaskOK'
  BY DEF DataInv, TaskOK, taskVars
<1> QED
  BY <1>1, <1>2, <1>3, <1>4, <1>5

(* A task goes on with the settings it has. *)
LEMMA DataGoto ==
    ASSUME DataInv, NEW p \in Procs, NEW l \in Steps, Goto(p, l), UNCHANGED taskVars,
           Allowed(l, target[p], arg[p])
    PROVE  TaskOK'
<1>1. pc' \in [Procs -> Steps] /\ UNCHANGED <<target, arg>>
  BY DEF Goto, DataInv, TaskOK, taskVars
<1>2. \A q \in Procs : Allowed(pc'[q], target[q], arg[q])
  BY DEF Goto, DataInv, TaskOK
<1> QED
  BY <1>1, <1>2 DEF DataInv, TaskOK

(* A task takes up new settings. *)
LEMMA DataTake ==
    ASSUME DataInv, NEW p \in Procs, NEW l \in Steps, NEW m \in Modes \cup {"IP"},
           NEW a \in SettingsOr({NotGiven}), Allowed(l, m, a),
           p = "main" => m # "IP",
           Goto(p, l), target' = [target EXCEPT ![p] = m], arg' = [arg EXCEPT ![p] = a]
    PROVE  TaskOK'
<1>1. /\ pc' \in [Procs -> Steps] /\ target' \in [Procs -> Modes \cup {"IP"}]
      /\ arg' \in [Procs -> SettingsOr({NotGiven})]
  BY DEF Goto, DataInv, TaskOK
<1>2. \A q \in Procs : Allowed(pc'[q], target'[q], arg'[q])
  BY DEF Goto, DataInv, TaskOK
<1>3. target'["main"] # "IP"
  BY DEF DataInv, TaskOK, Procs
<1> QED
  BY <1>1, <1>2, <1>3 DEF TaskOK

(* Where a step of a task may go on from. *)
LEMMA AllowedOn ==
    ASSUME DataInv, NEW p \in Procs
    PROVE  /\ Allowed(pc[p], target[p], arg[p])
           /\ target[p] \in Modes \cup {"IP"}
           /\ arg[p] \in SettingsOr({NotGiven})
           /\ target[p] = "IP" => p = "console"
           /\ Last(p) \in Steps
           /\ End(p) \in {"up", "idle"}
           /\ p = "console" => End(p) = "idle"
           /\ Last(p) \in {"report", "bootReport", "idle"}
           /\ AfterMode(p) \in {"bootReport", "idle"}
           /\ target[p] = "IP" => Last(p) = "idle"
  BY DEF DataInv, TaskOK, Last, AfterMode, End, Procs, Steps

(* The interfaces known stay known when one more is created. *)
LEMMA NetifsGrow == ASSUME created \in Nat, created' \in {created, created + 1}
                    PROVE  Netifs \subseteq Netifs'
  BY DEF Netifs

(* The steps of a switch. *)
LEMMA SwitchData ==
    ASSUME DataInv, NEW p \in Procs, Switch(p)
    PROVE  DataInv'
<1> USE DEF DataInv
<1>a. /\ Allowed(pc[p], target[p], arg[p])
      /\ target[p] \in Modes \cup {"IP"}
      /\ arg[p] \in SettingsOr({NotGiven})
      /\ target[p] = "IP" => p = "console"
      /\ Last(p) \in Steps
      /\ End(p) \in {"up", "idle"}
      /\ p = "console" => End(p) = "idle"
      /\ Last(p) \in {"report", "bootReport", "idle"}
      /\ AfterMode(p) \in {"bootReport", "idle"}
      /\ target[p] = "IP" => Last(p) = "idle"
  BY AllowedOn
<1>b. p \in Procs \cup {"handler"}
  OBVIOUS
<1>1. CASE Abort
  BY <1>1, PowerOnData DEF Abort
<1>2. CASE Undefined
  BY <1>2, DataSame DEF Undefined, eventVars
<1>3. CASE LoadSetting(p)
  <2>1. PICK i \in Missing(p) :
          /\ pc[p] = "load" /\ target[p] = "AP"
          /\ arg' = [arg EXCEPT ![p][Order[i]] = flash[Order[i]]]
          /\ UNCHANGED <<flashVars, driverVars, netifVars, eventVars, target, held, pc>>
    BY <1>3 DEF LoadSetting
  <2>2. i \in 1 .. 5
    BY DEF Missing
  <2>3. [arg[p] EXCEPT ![Order[i]] = flash[Order[i]]] \in SettingsOr({NotGiven})
    <3>1. /\ flash.ssid \in Strings /\ flash.pw \in Strings /\ flash.ch \in 0 .. 255
          /\ flash.ip \in Addresses /\ flash.gw \in Addresses
      BY FullFields DEF SavedOK
    <3>2. Order[1] = "ssid" /\ Order[2] = "pw" /\ Order[3] = "ch" /\ Order[4] = "ip" /\ Order[5] = "gw"
      BY DEF Order
    <3>3. i = 1 \/ i = 2 \/ i = 3 \/ i = 4 \/ i = 5
      BY <2>2
    <3> QED
      BY <1>a, <3>1, <3>2, <3>3 DEF SettingsOr
  <2>4. arg' = [arg EXCEPT ![p] = [arg[p] EXCEPT ![Order[i]] = flash[Order[i]]]]
    BY <2>1
  <2>5. TaskOK'
    <3>1. \A q \in Procs : Allowed(pc'[q], target'[q], arg'[q])
      <4> SUFFICES ASSUME NEW q \in Procs PROVE Allowed(pc'[q], target'[q], arg'[q])
        OBVIOUS
      <4>1. CASE q = p
        BY <2>1, <4>1 DEF Allowed
      <4>2. CASE q # p
        BY <2>1, <2>4, <4>2 DEF TaskOK
      <4> QED
        BY <4>1, <4>2
    <3>2. arg' \in [Procs -> SettingsOr({NotGiven})]
      BY <2>3, <2>4 DEF TaskOK
    <3> QED
      BY <2>1, <3>1, <3>2 DEF TaskOK
  <2> QED
    BY <2>1, <2>5, DataSame DEF eventVars
<1>4. CASE StopWifi(p) /\ ~ Abort
  <2>1. /\ pc[p] = "load"
        /\ target[p] = "AP" => Missing(p) = {}
        /\ running' = "off" /\ Goto(p, "get")
        /\ events' \in {events, Append(events, "STATION")}
        /\ UNCHANGED <<flashVars, inited, mode, ap, refused, addr, netifVars, bits, posted, taskVars, held>>
    BY <1>4 DEF StopWifi
  <2>2. target[p] = "AP" => arg[p] \in Full
    <3>1. Order[1] = "ssid" /\ Order[2] = "pw" /\ Order[3] = "ch" /\ Order[4] = "ip" /\ Order[5] = "gw"
      BY DEF Order
    <3>2. Missing(p) = {} => /\ arg[p].ssid # NotGiven /\ arg[p].pw # NotGiven
                             /\ arg[p].ch # NotGiven
                             /\ arg[p].ip # NotGiven /\ arg[p].gw # NotGiven
      BY <3>1 DEF Missing
    <3>3. \A a \in SettingsOr({NotGiven}) :
             /\ a.ssid # NotGiven /\ a.pw # NotGiven /\ a.ch # NotGiven
             /\ a.ip # NotGiven /\ a.gw # NotGiven
             => a \in Full
      BY DEF Full, SettingsOr
    <3> QED
      BY <1>a, <2>1, <3>2, <3>3
  <2>3. TaskOK'
    <3>1. Allowed("get", target[p], arg[p])
      BY <1>a, <2>1, <2>2 DEF Allowed
    <3> QED
      BY <2>1, <3>1, DataGoto DEF Steps
  <2>4. DriverOK'
    BY <2>1 DEF DriverOK
  <2>5. EventOK'
    <3>1. Append(events, "STATION") \in Seq(Modes \cup {"STATION"})
      BY AppendProperties DEF EventOK
    <3> QED
      BY <2>1, <3>1 DEF EventOK
  <2> QED
    BY <2>1, <2>3, <2>4, <2>5, DataSame
<1>5. CASE GetOld(p)
  <2>1. /\ pc[p] = "get" /\ held' = [held EXCEPT ![p] = netif]
        /\ Goto(p, "conf") \/ Goto(p, "free")
        /\ UNCHANGED <<flashVars, driverVars, netifVars, eventVars, taskVars>>
    BY <1>5 DEF GetOld
  <2>2. TaskOK'
    BY <1>a, <2>1, DataGoto DEF Allowed, Steps
  <2>3. NetifOK'
    BY <2>1, <1>b DEF NetifOK, netifVars, Netifs
  <2> QED
    BY <2>1, <2>2, <2>3, DataSame DEF eventVars
<1>6. CASE FreeOld(p) /\ ~ Undefined
  <2>1. /\ pc[p] = "free" /\ live' = live \ {held[p]} /\ Goto(p, "clear")
        /\ UNCHANGED <<flashVars, driverVars, created, netif, eventVars, taskVars, held>>
    BY <1>6 DEF FreeOld
  <2>2. TaskOK'
    BY <1>a, <2>1, DataGoto DEF Allowed, Steps
  <2>3. NetifOK'
    BY <2>1 DEF NetifOK, Netifs
  <2> QED
    BY <2>1, <2>2, <2>3, DataSame DEF eventVars
<1>7. CASE ClearPointer(p)
  <2>1. /\ pc[p] = "clear" /\ netif' = NoNetif /\ Goto(p, "conf")
        /\ UNCHANGED <<flashVars, driverVars, live, created, eventVars, taskVars, held>>
    BY <1>7 DEF ClearPointer
  <2>2. TaskOK'
    BY <1>a, <2>1, DataGoto DEF Allowed, Steps
  <2>3. NetifOK'
    BY <2>1 DEF NetifOK, Netifs, NoNetif, Modes
  <2> QED
    BY <2>1, <2>2, <2>3, DataSame DEF eventVars
<1>8. CASE Configure(p)
  <2>1. /\ pc[p] = "conf" /\ mode' = target[p] /\ Goto(p, "create")
        /\ IF target[p] = "AP"
           THEN /\ refused' = ~ Accepted(arg[p])
                /\ ap' = [k \in ApKeys |-> IF Accepted(arg[p]) THEN arg[p][k] ELSE Default[k]]
           ELSE UNCHANGED <<ap, refused>>
        /\ \/ UNCHANGED <<running, events>>
           \/ running' = target[p] /\ events' = Append(events, target[p])
        /\ UNCHANGED <<flashVars, inited, addr, netifVars, bits, posted, taskVars, held>>
    BY <1>8 DEF Configure
  <2>2. target[p] \in Modes
    BY <1>a, <2>1 DEF Allowed
  <2>3. TaskOK'
    BY <1>a, <2>1, DataGoto DEF Allowed, Steps
  <2>4. EventOK'
    <3>1. Append(events, target[p]) \in Seq(Modes \cup {"STATION"})
      BY <2>2, AppendProperties DEF EventOK
    <3> QED
      BY <2>1, <3>1 DEF EventOK
  <2>5. ap' \in [ssid : Strings, pw : Strings, ch : 0 .. 255]
    <3>1. CASE target[p] = "AP"
      <4>1. arg[p] \in Full
        BY <1>a, <2>1, <3>1 DEF Allowed
      <4>2. \A a \in Full : [k \in ApKeys |-> a[k]] \in [ssid : Strings, pw : Strings, ch : 0 .. 255]
        BY FullFields DEF ApKeys
      <4>3. \/ ap' = [k \in ApKeys |-> arg[p][k]]
            \/ ap' = [k \in ApKeys |-> Default[k]]
        BY <2>1, <3>1
      <4> QED
        BY <4>1, <4>2, <4>3, DefaultFull
    <3>2. CASE target[p] # "AP"
      BY <2>1, <3>2 DEF DriverOK
    <3> QED
      BY <3>1, <3>2
  <2>6. DriverOK'
    <3>1. running' \in Modes \cup {"off"}
      BY <2>1, <2>2 DEF DriverOK
    <3>2. refused' \in BOOLEAN
      BY <2>1 DEF DriverOK
    <3> QED
      BY <2>1, <2>2, <2>5, <3>1, <3>2 DEF DriverOK
  <2> QED
    BY <2>1, <2>3, <2>4, <2>6, DataSame
<1>9. CASE CreateNetif(p) /\ ~ Abort
  <2> DEFINE new == [id |-> created + 1, mode |-> target[p]]
  <2>1. /\ pc[p] = "create" /\ live' = live \cup {new} /\ created' = created + 1
        /\ held' = [held EXCEPT ![p] = new] /\ Goto(p, "set")
        /\ addr' = [ip |-> NewAddress, gw |-> NewAddress]
        /\ UNCHANGED <<flashVars, inited, mode, running, ap, refused, netif, eventVars, taskVars>>
    BY <1>9 DEF CreateNetif
  <2>2. target[p] \in Modes
    BY <1>a, <2>1 DEF Allowed
  <2>3. TaskOK'
    BY <1>a, <2>1, DataGoto DEF Allowed, Steps
  <2>4. NetifOK'
    <3>1. created \in Nat /\ created' \in Nat
      BY <2>1 DEF NetifOK
    <3>2. new \in Netifs'
      BY <2>1, <2>2, <3>1 DEF Netifs
    <3>3. Netifs \subseteq Netifs'
      BY <2>1, <3>1, NetifsGrow
    <3> HIDE DEF new
    <3>4. held' \in [Procs \cup {"handler"} -> Netifs']
      BY <2>1, <3>2, <3>3, <1>b DEF NetifOK
    <3> QED
      BY <2>1, <3>1, <3>2, <3>3, <3>4 DEF NetifOK
  <2>5. DriverOK'
    <3>1. addr' \in [{"ip", "gw"} -> Addresses]
      BY <2>1, WifiAssumption
    <3> QED
      BY <2>1, <3>1 DEF DriverOK
  <2> QED
    BY <2>1, <2>3, <2>4, <2>5, DataSame DEF eventVars
<1>10. CASE SetPointer(p)
  <2>1. /\ pc[p] = "set" /\ netif' = held[p] /\ Goto(p, "start")
        /\ UNCHANGED <<flashVars, driverVars, live, created, eventVars, taskVars, held>>
    BY <1>10 DEF SetPointer
  <2>2. TaskOK'
    BY <1>a, <2>1, DataGoto DEF Allowed, Steps
  <2>3. NetifOK'
    BY <2>1, <1>b DEF NetifOK, Netifs
  <2> QED
    BY <2>1, <2>2, <2>3, DataSame DEF eventVars
<1>11. CASE StartWifi(p)
  <2>1. /\ pc[p] = "start" /\ running' = mode
        /\ events' \in {events, Append(events, mode)}
        /\ Goto(p, IF target[p] = "AP" THEN "saveMode" ELSE "wait")
        /\ UNCHANGED <<flashVars, inited, mode, ap, refused, addr, netifVars, bits, posted, taskVars, held>>
    BY <1>11 DEF StartWifi
  <2>2. TaskOK'
    <3>1. CASE target[p] = "AP"
      BY <1>a, <2>1, <3>1, DataGoto DEF Allowed, Steps
    <3>2. CASE target[p] # "AP"
      BY <1>a, <2>1, <3>2, DataGoto DEF Allowed, Steps
    <3> QED
      BY <3>1, <3>2
  <2>3. EventOK'
    <3>1. Append(events, mode) \in Seq(Modes \cup {"STATION"})
      BY AppendProperties DEF EventOK, DriverOK
    <3> QED
      BY <2>1, <3>1 DEF EventOK
  <2>4. DriverOK'
    BY <2>1 DEF DriverOK
  <2> QED
    BY <2>1, <2>2, <2>3, <2>4, DataSame
<1>12. CASE SaveMode(p) /\ ~ Abort
  <2>1. /\ pc[p] \in {"saveMode", "staMode"} /\ flashMode' = target[p]
        /\ Goto(p, IF pc[p] = "saveMode" THEN "saveCh" ELSE Last(p))
        /\ UNCHANGED <<flash, driverVars, netifVars, eventVars, taskVars, held>>
    BY <1>12 DEF SaveMode
  <2>2. TaskOK'
    <3>1. CASE pc[p] = "saveMode"
      BY <1>a, <2>1, <3>1, DataGoto DEF Allowed, Steps
    <3>2. CASE pc[p] = "staMode"
      <4>1. Goto(p, Last(p))
        BY <2>1, <3>2
      <4> HIDE DEF DataInv
      <4>2. Allowed(Last(p), target[p], arg[p])
        BY <1>a, <3>2 DEF Allowed
      <4> QED
        BY <1>a, <2>1, <4>1, <4>2, DataGoto
    <3> QED
      BY <2>1, <3>1, <3>2
  <2>3. SavedOK'
    BY <1>a, <2>1 DEF SavedOK, Allowed
  <2> QED
    BY <2>1, <2>2, <2>3, DataSame DEF eventVars
<1>13. CASE (SaveChannel(p) \/ SaveSsid(p) \/ SavePassword(p)) /\ ~ Abort /\ ~ Undefined
  <2>1. /\ pc[p] \in {"saveCh", "saveSsid", "savePw"}
        /\ Goto(p, "saveSsid") \/ Goto(p, "savePw") \/ Goto(p, "wait")
        /\ \/ UNCHANGED flash
           \/ flash' = [flash EXCEPT !.ch = arg[p].ch]
           \/ flash' = [flash EXCEPT !.ssid = arg[p].ssid]
           \/ flash' = [flash EXCEPT !.pw = arg[p].pw]
        /\ UNCHANGED <<flashMode, driverVars, netifVars, eventVars, taskVars, held>>
    BY <1>13 DEF SaveChannel, SaveSsid, SavePassword
  <2>2. target[p] = "AP" /\ arg[p] \in Full
    BY <1>a, <2>1 DEF Allowed
  <2>3. TaskOK'
    BY <2>1, <2>2, DataGoto DEF Allowed, Steps
  <2>4. SavedOK'
    BY <2>1, <2>2, FullFields DEF SavedOK, Full, SettingsOr
  <2> QED
    BY <2>1, <2>3, <2>4, DataSame DEF eventVars
<1>14. CASE WaitStarted(p)
  <2>1. /\ pc[p] = "wait" /\ Goto(p, IF target[p] = "AP" THEN "ipGet" ELSE "connect")
        /\ UNCHANGED <<flashVars, driverVars, netifVars, eventVars, taskVars, held>>
    BY <1>14 DEF WaitStarted
  <2>2. CASE target[p] = "AP"
    <3>1. arg[p].ip \in Addresses /\ arg[p].gw \in Addresses /\ arg[p] \in Full
      BY <1>a, <2>1, <2>2, FullFields DEF Allowed
    <3>2. TaskOK'
      BY <2>1, <2>2, <3>1, DataGoto DEF Allowed, Steps
    <3> QED
      BY <2>1, <3>2, DataSame DEF eventVars
  <2>3. CASE target[p] # "AP"
    <3>2. TaskOK'
      BY <1>a, <2>1, <2>3, DataGoto DEF Allowed, Steps
    <3> QED
      BY <2>1, <3>2, DataSame DEF eventVars
  <2> QED
    BY <2>2, <2>3
<1>15. CASE Connect(p) /\ ~ Abort /\ ~ Undefined
  <2>1. /\ pc[p] = "connect" /\ Goto(p, "staMode")
        /\ UNCHANGED <<flashVars, driverVars, netifVars, eventVars, taskVars, held>>
    BY <1>15 DEF Connect
  <2>2. TaskOK'
    BY <1>a, <2>1, DataGoto DEF Allowed, Steps
  <2> QED
    BY <2>1, <2>2, DataSame DEF eventVars
<1>16. CASE GetForIp(p)
  <2>1. /\ pc[p] = "ipGet" /\ held' = [held EXCEPT ![p] = netif]
        /\ Goto(p, Last(p)) \/ Goto(p, "dhcpStop")
        /\ UNCHANGED <<flashVars, driverVars, netifVars, eventVars, taskVars>>
    BY <1>16 DEF GetForIp
  <2>2. TaskOK'
    <3>1. CASE Goto(p, Last(p))
      <4>1. Allowed(Last(p), target[p], arg[p])
        BY <1>a, <2>1 DEF Allowed
      <4> QED
        BY <1>a, <2>1, <3>1, <4>1, DataGoto
    <3>2. CASE Goto(p, "dhcpStop")
      BY <1>a, <2>1, <3>2, DataGoto DEF Allowed, Steps
    <3> QED
      BY <2>1, <3>1, <3>2
  <2>3. NetifOK'
    BY <2>1, <1>b DEF NetifOK, netifVars, Netifs
  <2> QED
    BY <2>1, <2>2, <2>3, DataSame DEF eventVars
<1>17. CASE (StopDhcp(p) \/ StartDhcp(p)) /\ ~ Abort /\ ~ Undefined
  <2>1. /\ \/ pc[p] = "dhcpStop" /\ Goto(p, "ipSet")
           \/ pc[p] = "dhcpStart" /\ Goto(p, "saveIp")
        /\ UNCHANGED <<flashVars, driverVars, netifVars, eventVars, taskVars, held>>
    BY <1>17 DEF StopDhcp, StartDhcp
  <2>2. TaskOK'
    BY <1>a, <2>1, DataGoto DEF Allowed, Steps
  <2> QED
    BY <2>1, <2>2, DataSame DEF eventVars
<1>21. CASE SetIp(p) /\ ~ Abort /\ ~ Undefined
  <2>1. /\ pc[p] = "ipSet" /\ addr' = [ip |-> arg[p].ip, gw |-> arg[p].gw]
        /\ Goto(p, "dhcpStart")
        /\ UNCHANGED <<flashVars, inited, mode, running, ap, refused, netifVars, eventVars,
                       taskVars, held>>
    BY <1>21 DEF SetIp
  <2>2. arg[p].ip \in Addresses /\ arg[p].gw \in Addresses
    BY <1>a, <2>1 DEF Allowed
  <2>3. TaskOK'
    BY <1>a, <2>1, DataGoto DEF Allowed, Steps
  <2>4. addr' \in [{"ip", "gw"} -> Addresses]
    BY <2>1, <2>2
  <2>5. DriverOK'
    BY <2>1, <2>4 DEF DriverOK
  <2> QED
    BY <2>1, <2>3, <2>5, DataSame DEF eventVars
<1>18. CASE (SaveIp(p) \/ SaveGateway(p)) /\ ~ Abort
  <2>1. /\ pc[p] \in {"saveIp", "saveGw"}
        /\ Goto(p, "gotIp") \/ Goto(p, "saveGw")
        /\ \/ UNCHANGED flash
           \/ flash' = [flash EXCEPT !.ip = arg[p].ip]
           \/ flash' = [flash EXCEPT !.gw = arg[p].gw]
        /\ UNCHANGED <<flashMode, driverVars, netifVars, eventVars, taskVars, held>>
    BY <1>18 DEF SaveIp, SaveGateway, flashVars
  <2>2. arg[p].ip \in Addresses /\ arg[p].gw \in Addresses
    BY <1>a, <2>1 DEF Allowed
  <2>3. TaskOK'
    BY <1>a, <2>1, DataGoto DEF Allowed, Steps
  <2>4. SavedOK'
    BY <2>1, <2>2 DEF SavedOK, Full, SettingsOr
  <2> QED
    BY <2>1, <2>3, <2>4, DataSame DEF eventVars
<1>19. CASE PostGotIp(p)
  <2>1. /\ pc[p] = "gotIp" /\ posted' = Posted(posted) /\ Goto(p, Last(p))
        /\ UNCHANGED <<flashVars, driverVars, netifVars, events, bits, taskVars, held>>
    BY <1>19 DEF PostGotIp
  <2>2. Allowed(Last(p), target[p], arg[p])
    BY <1>a, <2>1 DEF Allowed
  <2>3. TaskOK'
    BY <1>a, <2>1, <2>2, DataGoto
  <2>4. EventOK'
    BY <2>1, WifiAssumption DEF EventOK, Posted
  <2> QED
    BY <2>1, <2>3, <2>4, DataSame
<1>20. CASE Report(p) /\ ~ Undefined
  <2>1. /\ pc[p] \in {"report", "bootReport"}
        /\ Goto(p, AfterMode(p)) \/ Goto(p, End(p))
        /\ UNCHANGED <<flashVars, driverVars, netifVars, eventVars, taskVars, held>>
    BY <1>20 DEF Report
  <2>2. \A l \in {AfterMode(p), End(p)} : Allowed(l, target[p], arg[p]) /\ l \in Steps
    BY <1>a, <2>1 DEF Allowed, Steps
  <2>3. TaskOK'
    BY <2>1, <2>2, DataGoto
  <2> QED
    BY <2>1, <2>3, DataSame DEF eventVars
<1> QED
  BY <1>1, <1>2, <1>3, <1>4, <1>5, <1>6, <1>7, <1>8, <1>9, <1>10, <1>11, <1>12, <1>13,
     <1>14, <1>15, <1>16, <1>17, <1>18, <1>19, <1>20, <1>21 DEF Switch

(* What wifi_ap takes the channel as. *)
LEMMA ByteRange == ASSUME NEW n \in Int \cup {NotGiven}
                   PROVE  ToByte(n) \in 0 .. 255 \cup {NotGiven}
  BY DEF ToByte

(* Every step keeps the invariant. *)
LEMMA DataNext == DataInv /\ [Next]_vars => DataInv'
<1> SUFFICES ASSUME DataInv, [Next]_vars PROVE DataInv'
  OBVIOUS
<1> USE DEF DataInv
<1>1. ASSUME NEW p \in Procs, Switch(p) PROVE DataInv'
  BY <1>1, SwitchData
<1>2. CASE WifiInit
  <2>1. /\ pc["main"] = "init" /\ inited' = TRUE /\ Goto("main", "readMode")
        /\ UNCHANGED <<flashVars, mode, running, ap, refused, addr, netifVars, eventVars, taskVars,
                       held>>
    BY <1>2 DEF WifiInit
  <2>2. TaskOK'
    BY <2>1, AllowedOn, DataGoto DEF Allowed, Steps, Procs
  <2>3. DriverOK'
    BY <2>1 DEF DriverOK
  <2> QED
    BY <2>1, <2>2, <2>3, DataSame DEF eventVars
<1>3. CASE ReadMode
  <2> DEFINE a == [k \in DOMAIN Default |-> NotGiven]
  <2>1. /\ target' = [target EXCEPT !["main"] = flashMode]
        /\ arg' = [arg EXCEPT !["main"] = a] /\ Goto("main", "load")
        /\ UNCHANGED <<flashVars, driverVars, netifVars, eventVars, held>>
    BY <1>3 DEF ReadMode
  <2>2. a \in SettingsOr({NotGiven})
    <3>1. DOMAIN Default = {"ssid", "pw", "ch", "ip", "gw"}
      BY DefaultFull DEF Full, SettingsOr
    <3> QED
      BY <3>1 DEF SettingsOr
  <2> HIDE DEF a
  <2>3. flashMode \in Modes /\ flashMode # "IP" /\ Allowed("load", flashMode, a)
    BY DEF SavedOK, Modes, Allowed
  <2>4. TaskOK'
    BY <2>1, <2>2, <2>3, DataTake DEF Procs, Steps
  <2> QED
    BY <2>1, <2>4, DataSame DEF eventVars
<1>4. CASE TypeCommand
  <2>1. PICK c \in Commands :
         IF c.cmd = "ip"
         THEN /\ flashMode = "AP" /\ c.arg.ip # NotGiven
              /\ arg' = [arg EXCEPT !["console"] =
                                    [c.arg EXCEPT !.gw = c.arg.ip, !.ch = ToByte(@)]]
              /\ target' = [target EXCEPT !["console"] = "IP"]
              /\ Goto("console", "ipGet")
         ELSE /\ arg' = [arg EXCEPT !["console"] = [c.arg EXCEPT !.ch = ToByte(@)]]
              /\ target' = [target EXCEPT !["console"] = IF c.cmd = "ap" THEN "AP" ELSE "STA"]
              /\ Goto("console", "load")
    BY <1>4 DEF TypeCommand
  <2>2. UNCHANGED <<flashVars, driverVars, netifVars, eventVars, held>>
    BY <1>4 DEF TypeCommand
  <2>3. c.arg \in CommandSettings /\ ToByte(c.arg.ch) \in 0 .. 255 \cup {NotGiven}
    BY WifiAssumption, ByteRange DEF CommandSettings
  <2>4. TaskOK'
    <3>1. CASE c.cmd = "ip"
      <4> DEFINE b == [c.arg EXCEPT !.gw = c.arg.ip]
                 a == [c.arg EXCEPT !.gw = c.arg.ip, !.ch = ToByte(@)]
      <4>0. c.arg.ip \in Addresses
        BY <2>1, <2>3, <3>1 DEF CommandSettings
      <4>1. a \in SettingsOr({NotGiven}) /\ a.ip = c.arg.ip /\ a.gw = c.arg.ip
        <5>1. /\ b \in CommandSettings /\ b.ch = c.arg.ch
              /\ b.ip = c.arg.ip /\ b.gw = c.arg.ip
          BY <2>3, <4>0 DEF CommandSettings
        <5>2. a = [b EXCEPT !.ch = ToByte(b.ch)]
          BY <2>3 DEF CommandSettings
        <5> HIDE DEF a, b
        <5> QED
          BY <2>3, <5>1, <5>2 DEF SettingsOr, CommandSettings
      <4>3. arg' = [arg EXCEPT !["console"] = a]
        BY <2>1, <3>1
      <4> HIDE DEF a
      <4>2. Allowed("ipGet", "IP", a)
        BY <4>0, <4>1 DEF Allowed
      <4> QED
        BY <2>1, <3>1, <4>1, <4>2, <4>3, DataTake DEF Procs, Steps
    <3>2. CASE c.cmd # "ip"
      <4> DEFINE a == [c.arg EXCEPT !.ch = ToByte(@)]
      <4>1. PICK m \in Modes : target' = [target EXCEPT !["console"] = m]
        BY <2>1, <3>2 DEF Modes
      <4>2. a \in SettingsOr({NotGiven})
        BY <2>3 DEF SettingsOr, CommandSettings
      <4>3. arg' = [arg EXCEPT !["console"] = a]
        BY <2>1, <3>2
      <4> HIDE DEF a
      <4>4. Allowed("load", m, a)
        BY DEF Allowed, Modes
      <4> QED
        BY <2>1, <3>2, <4>1, <4>2, <4>3, <4>4, DataTake DEF Procs, Steps
    <3> QED
      BY <3>1, <3>2
  <2> QED
    BY <2>2, <2>4, DataSame DEF eventVars
<1>5. CASE StationNews
  <2>1. /\ events' = Append(events, "STATION")
        /\ UNCHANGED <<flashVars, driverVars, netifVars, bits, posted, taskVars, held, pc>>
    BY <1>5 DEF StationNews
  <2>2. EventOK'
    BY <2>1, AppendProperties DEF EventOK
  <2> QED
    BY <2>1, <2>2, DataSame
<1>6. CASE HandleEvent
  <2>1. /\ events # <<>> /\ bits' = bits \cup StartBit(Head(events))
        /\ posted' \in {posted, Posted(posted)} /\ events' = Tail(events)
        /\ UNCHANGED <<flashVars, driverVars, netifVars, taskVars, held, pc>>
    BY <1>6 DEF HandleEvent
  <2>2. Tail(events) \in Seq(Modes \cup {"STATION"})
    BY <2>1, HeadTailProperties DEF EventOK
  <2>3. posted' \in 0 .. MaxPosted
    BY <2>1, WifiAssumption DEF EventOK, Posted
  <2>4. bits' \subseteq Modes
    BY <2>1 DEF EventOK, StartBit
  <2>5. EventOK'
    BY <2>1, <2>2, <2>3, <2>4 DEF EventOK
  <2> QED
    BY <2>1, <2>5, DataSame
<1>7. CASE GetForDisplay
  <2>1. /\ posted > 0 /\ posted' = posted - 1 /\ held' = [held EXCEPT !["handler"] = netif]
        /\ UNCHANGED <<flashVars, driverVars, netifVars, events, bits, taskVars, pc>>
    BY <1>7 DEF GetForDisplay
  <2>2. EventOK'
    BY <2>1, WifiAssumption DEF EventOK
  <2>3. NetifOK'
    BY <2>1 DEF NetifOK, netifVars, Netifs
  <2> QED
    BY <2>1, <2>2, <2>3, DataSame
<1>8. CASE Display
  <2>1. UNCHANGED <<flashVars, driverVars, netifVars, events, bits, posted, taskVars, held, pc>>
    BY <1>8 DEF Display, Undefined, eventVars
  <2> QED
    BY <2>1, DataSame
<1>9. CASE PowerLoss
  BY <1>9, PowerOnData DEF PowerLoss
<1>10. CASE UNCHANGED vars
  BY <1>10, DataSame DEF vars, eventVars
<1> QED
  BY <1>1, <1>2, <1>3, <1>4, <1>5, <1>6, <1>7, <1>8, <1>9, <1>10 DEF Next

(* TypeOK: every variable has its type.  For the driver, flash and the     *)
(* static address this says that an option nobody gave is replaced by the  *)
(* saved value before it is used (wifi_lib.c:453-518, wifi_lib_nvs.c).     *)
THEOREM WifiTypes == Spec => []TypeOK
<1>1. DataInv => TypeOK
  BY DEF DataInv, SavedOK, DriverOK, NetifOK, EventOK, TaskOK, TypeOK, Full
<1> QED
  BY <1>1, PowerOnData, DataNext, PTL DEF Spec

-----------------------------------------------------------------------------
(* A user who waits for the boot and for one command before the next: one  *)
(* task at a time is at work, whatever events are under way.               *)

Late ==
    {"saveMode", "saveCh", "saveSsid", "savePw", "wait", "connect", "staMode", "ipGet",
     "dhcpStop", "ipSet", "dhcpStart", "saveIp", "saveGw", "gotIp", "report", "bootReport"}

Gone    == live = {} /\ netif = NoNetif
Present == live = {netif} /\ netif # NoNetif
Settled == Present /\ netif.mode = running

(* The interfaces when a task that holds n and switches to mode m is at    *)
(* step l.                                                                 *)
Shape(l, n, m) ==
    /\ l \in {"init", "readMode"} => Gone
    /\ l \in {"load", "get"} => Gone \/ Present
    /\ l \in {"get", "free", "clear", "conf", "create", "set"} => running = "off"
    /\ l = "free" => Present /\ n = netif
    /\ l = "clear" => live = {}
    /\ l \in {"conf", "create"} => Gone
    /\ l \in {"create", "set", "start"} => mode = m
    /\ l = "set" => live = {n} /\ n # NoNetif /\ n.mode = m
    /\ l = "start" => Present /\ netif.mode = m
    /\ l \in {"start", "saveMode", "saveCh", "saveSsid", "savePw", "wait", "connect",
              "dhcpStop", "ipSet", "dhcpStart"} => n = netif
    /\ l \in Late => Settled

Calm == pc["main"] = "up" \/ pc["console"] = "idle"

PatientInv ==
    /\ Calm
    /\ pc["main"] # "idle" /\ pc["console"] \notin {"up", "init", "readMode"}
    /\ \A p \in Procs : Shape(pc[p], held[p], target[p])
    /\ AtRest => Settled

(* A step of the loops, of a station or of nobody. *)
LEMMA NothingNew ==
    ASSUME PatientInv, UNCHANGED <<netifVars, running, mode, pc, target>>,
           \A p \in Procs : held'[p] = held[p]
    PROVE  PatientInv'
<1>1. ASSUME NEW p \in Procs PROVE Shape(pc[p], held[p], target[p])'
  BY <1>1 DEF PatientInv, Shape, Gone, Present, Settled, netifVars
<1> QED
  BY <1>1 DEF PatientInv, Calm, AtRest, Settled, Present, netifVars

(* The task at work goes on. *)
LEMMA PatientGoto ==
    ASSUME DataInv, PatientInv, NEW p \in Procs, pc[p] \notin {"up", "idle"},
           NEW l, Goto(p, l), l \notin {"init", "readMode"},
           p = "main" => l # "idle", p = "console" => l # "up",
           UNCHANGED target,
           Shape(l, held[p], target[p])',
           l \in {"up", "idle"} => Settled'
    PROVE  PatientInv'
<1>1. /\ pc'[p] = l
      /\ \A q \in Procs \ {p} : pc'[q] = pc[q] /\ pc[q] \in {"up", "idle"}
  BY DEF Goto, DataInv, TaskOK, PatientInv, Calm, Procs
<1>2. ASSUME NEW q \in Procs, q # p PROVE Shape(pc[q], held[q], target[q])'
  <2>1. pc'[q] \in {"up", "idle"}
    BY <1>1, <1>2
  <2> QED
    BY <2>1 DEF Shape, Late
<1>3. \A q \in Procs : Shape(pc[q], held[q], target[q])'
  BY <1>1, <1>2
<1>4. /\ Calm'
      /\ pc'["main"] # "idle" /\ pc'["console"] \notin {"up", "init", "readMode"}
      /\ AtRest' => l \in {"up", "idle"}
  BY <1>1 DEF PatientInv, Calm, AtRest, Procs
<1> QED
  BY <1>3, <1>4 DEF PatientInv

LEMMA PatientStart ==
    /\ Init => PatientInv
    /\ PatientInv /\ Restart => PatientInv'
<1> USE DEF Shape, Late, Gone, Calm, AtRest, Procs
<1>1. Init => PatientInv
  BY DEF Init, PatientInv
<1>2. PatientInv /\ Restart => PatientInv'
  BY DEF Restart, PatientInv
<1> QED
  BY <1>1, <1>2

(* The steps of a switch. *)
LEMMA PatientSwitch ==
    ASSUME DataInv, PatientInv, NEW p \in Procs, Switch(p)
    PROVE  PatientInv'
<1> DEFINE S == Shape(pc[p], held[p], target[p])
<1>a. /\ S
      /\ target[p] \in Modes \cup {"IP"}
      /\ End(p) \in {"up", "idle"}
      /\ p = "console" => End(p) = "idle"
      /\ p = "main" => End(p) = "up"
      /\ p = "console" => Last(p) \in {"report", "idle"} /\ AfterMode(p) = "idle"
      /\ p = "main" => Last(p) \in {"report", "bootReport"} /\ AfterMode(p) = "bootReport"
      /\ p \in Procs \cup {"handler"} /\ p # "handler"
      /\ Allowed(pc[p], target[p], arg[p])
  BY DEF PatientInv, DataInv, TaskOK, End, AfterMode, Last, Procs
<1> USE DEF Shape, Late
<1>1. CASE Abort
  BY <1>1, PatientStart DEF Abort
<1>2. CASE Undefined
  BY <1>2, NothingNew DEF Undefined, driverVars, taskVars
<1>3. CASE LoadSetting(p)
  BY <1>3, NothingNew DEF LoadSetting, driverVars
<1>4. CASE StopWifi(p) /\ ~ Abort
  <2>1. /\ pc[p] = "load" /\ running' = "off" /\ Goto(p, "get")
        /\ UNCHANGED <<netifVars, target, held>>
    BY <1>4 DEF StopWifi, taskVars
  <2> QED
    BY <1>a, <2>1, PatientGoto DEF Gone, Present, netifVars
<1>5. CASE GetOld(p)
  <2>1. /\ pc[p] = "get" /\ held' = [held EXCEPT ![p] = netif]
        /\ Goto(p, IF netif = NoNetif THEN "conf" ELSE "free")
        /\ UNCHANGED <<running, netifVars, target>>
    BY <1>5 DEF GetOld, driverVars, eventVars, taskVars
  <2>2. held'[p] = netif
    BY <1>a, <2>1 DEF DataInv, NetifOK
  <2>3. CASE netif = NoNetif
    BY <1>a, <2>1, <2>2, <2>3, PatientGoto DEF Gone, Present, netifVars
  <2>4. CASE netif # NoNetif
    BY <1>a, <2>1, <2>2, <2>4, PatientGoto DEF Gone, Present, netifVars
  <2> QED
    BY <2>3, <2>4
<1>6. CASE FreeOld(p) /\ ~ Undefined
  <2>1. /\ pc[p] = "free" /\ live' = live \ {held[p]} /\ Goto(p, "clear")
        /\ UNCHANGED <<running, target, held>>
    BY <1>6 DEF FreeOld, driverVars, eventVars, taskVars
  <2>2. live' = {}
    BY <1>a, <2>1 DEF Present
  <2> QED
    BY <1>a, <2>1, <2>2, PatientGoto
<1>7. CASE ClearPointer(p)
  <2>1. /\ pc[p] = "clear" /\ netif' = NoNetif /\ Goto(p, "conf")
        /\ UNCHANGED <<running, live, target, held>>
    BY <1>7 DEF ClearPointer, driverVars, eventVars, taskVars
  <2> QED
    BY <1>a, <2>1, PatientGoto DEF Gone
<1>8. CASE Configure(p)
  <2>1. /\ pc[p] = "conf" /\ mode' = target[p] /\ Goto(p, "create")
        /\ running = "off" => UNCHANGED running
        /\ UNCHANGED <<netifVars, target, held>>
    BY <1>8 DEF Configure, taskVars
  <2> QED
    BY <1>a, <2>1, PatientGoto DEF Gone, netifVars
<1>9. CASE CreateNetif(p) /\ ~ Abort
  <2> DEFINE new == [id |-> created + 1, mode |-> target[p]]
  <2>1. /\ pc[p] = "create" /\ live' = live \cup {new}
        /\ held' = [held EXCEPT ![p] = new] /\ Goto(p, "set")
        /\ UNCHANGED <<running, mode, netif, target>>
    BY <1>9 DEF CreateNetif, driverVars, eventVars, taskVars
  <2>2. new # NoNetif /\ new.mode = target[p]
    <3>1. created + 1 # 0
      BY DEF DataInv, NetifOK
    <3> QED
      BY <3>1 DEF NoNetif
  <2> HIDE DEF new
  <2>3. held'[p] = new
    BY <1>a, <2>1 DEF DataInv, NetifOK
  <2>4. live' = {new}
    BY <1>a, <2>1 DEF Gone
  <2> QED
    BY <1>a, <2>1, <2>2, <2>3, <2>4, PatientGoto
<1>10. CASE SetPointer(p)
  <2>1. /\ pc[p] = "set" /\ netif' = held[p] /\ Goto(p, "start")
        /\ UNCHANGED <<running, mode, live, target, held>>
    BY <1>10 DEF SetPointer, driverVars, eventVars, taskVars
  <2> QED
    BY <1>a, <2>1, PatientGoto DEF Present
<1>11. CASE StartWifi(p)
  <2>1. /\ pc[p] = "start" /\ running' = mode
        /\ Goto(p, IF target[p] = "AP" THEN "saveMode" ELSE "wait")
        /\ UNCHANGED <<netifVars, target, held>>
    BY <1>11 DEF StartWifi, taskVars
  <2>2. Settled'
    BY <1>a, <2>1 DEF Settled, Present, netifVars
  <2>3. held'[p] = netif'
    BY <1>a, <2>1 DEF netifVars
  <2>4. CASE target[p] = "AP"
    BY <1>a, <2>1, <2>2, <2>3, <2>4, PatientGoto DEF netifVars
  <2>5. CASE target[p] # "AP"
    BY <1>a, <2>1, <2>2, <2>3, <2>5, PatientGoto DEF netifVars
  <2> QED
    BY <2>4, <2>5
<1>b. ASSUME NEW l \in Late \cup {"up", "idle"}, pc[p] \in Late, Goto(p, l),
             p = "main" => l # "idle", p = "console" => l # "up",
             l \in {"saveMode", "saveCh", "saveSsid", "savePw", "wait", "connect",
                   "dhcpStop", "ipSet", "dhcpStart"} => held'[p] = netif,
             UNCHANGED <<netifVars, running, target>>
      PROVE  PatientInv'
  <2>1. Settled'
    BY <1>a, <1>b DEF Settled, Present, netifVars
  <2> QED
    BY <1>a, <1>b, <2>1, PatientGoto DEF netifVars
<1>c. ASSUME pc[p] \in Late,
             Goto(p, Last(p)) \/ Goto(p, End(p)) \/ Goto(p, AfterMode(p)),
             UNCHANGED <<netifVars, running, target>>
      PROVE  PatientInv'
  <2>1. PICK l \in {"report", "bootReport", "up", "idle"} :
          /\ Goto(p, l)
          /\ p = "main" => l # "idle"
          /\ p = "console" => l # "up"
    BY <1>a, <1>c DEF Procs
  <2> QED
    BY <1>b, <1>c, <2>1
<1>12. CASE SaveMode(p) /\ ~ Abort
  <2>1. /\ pc[p] \in {"saveMode", "staMode"}
        /\ Goto(p, IF pc[p] = "saveMode" THEN "saveCh" ELSE Last(p))
        /\ UNCHANGED <<running, netifVars, target, held>>
    BY <1>12 DEF SaveMode, driverVars, eventVars, taskVars
  <2>2. CASE pc[p] = "saveMode"
    BY <1>a, <1>b, <2>1, <2>2
  <2>3. CASE pc[p] = "staMode"
    BY <1>c, <2>1, <2>3
  <2> QED
    BY <2>1, <2>2, <2>3
<1>13. CASE (SaveChannel(p) \/ SaveSsid(p) \/ SavePassword(p)) /\ ~ Abort /\ ~ Undefined
  <2>1. /\ pc[p] \in {"saveCh", "saveSsid", "savePw"}
        /\ Goto(p, "saveSsid") \/ Goto(p, "savePw") \/ Goto(p, "wait")
        /\ UNCHANGED <<running, netifVars, target, held>>
    BY <1>13 DEF SaveChannel, SaveSsid, SavePassword, driverVars, eventVars, taskVars
  <2> QED
    BY <1>a, <1>b, <2>1
<1>14. CASE WaitStarted(p) \/ (Connect(p) /\ ~ Abort /\ ~ Undefined)
  <2>1. /\ pc[p] \in {"wait", "connect"}
        /\ Goto(p, "ipGet") \/ Goto(p, "staMode") \/ (Goto(p, "connect") /\ pc[p] = "wait")
        /\ UNCHANGED <<running, netifVars, target, held>>
    BY <1>14 DEF WaitStarted, Connect, driverVars, eventVars, taskVars
  <2> QED
    BY <1>a, <1>b, <2>1
<1>15. CASE GetForIp(p)
  <2>1. /\ pc[p] = "ipGet" /\ held' = [held EXCEPT ![p] = netif]
        /\ Goto(p, Last(p)) \/ Goto(p, "dhcpStop")
        /\ UNCHANGED <<running, netifVars, target>>
    BY <1>15 DEF GetForIp, driverVars, eventVars, taskVars
  <2>2. held'[p] = netif
    BY <1>a, <2>1 DEF DataInv, NetifOK
  <2> QED
    BY <1>a, <1>b, <1>c, <2>1, <2>2
<1>16. CASE \/ (StopDhcp(p) \/ SetIp(p) \/ StartDhcp(p)) /\ ~ Abort /\ ~ Undefined
            \/ (SaveIp(p) \/ SaveGateway(p)) /\ ~ Abort
  <2>1. /\ \/ pc[p] = "dhcpStop" /\ Goto(p, "ipSet")
           \/ pc[p] = "ipSet" /\ Goto(p, "dhcpStart")
           \/ /\ pc[p] \in {"dhcpStart", "saveIp", "saveGw"}
              /\ Goto(p, "saveIp") \/ Goto(p, "saveGw") \/ Goto(p, "gotIp")
        /\ UNCHANGED <<running, netifVars, target, held>>
    BY <1>16 DEF StopDhcp, SetIp, StartDhcp, SaveIp, SaveGateway, driverVars, taskVars
  <2> QED
    BY <1>a, <1>b, <2>1
<1>17. CASE PostGotIp(p) \/ (Report(p) /\ ~ Undefined)
  <2>1. /\ pc[p] \in {"gotIp", "report", "bootReport"}
        /\ Goto(p, Last(p)) \/ Goto(p, End(p)) \/ Goto(p, AfterMode(p))
        /\ UNCHANGED <<running, netifVars, target, held>>
    BY <1>17 DEF PostGotIp, Report, driverVars, taskVars
  <2> QED
    BY <1>c, <2>1
<1> QED
  BY <1>1, <1>2, <1>3, <1>4, <1>5, <1>6, <1>7, <1>8, <1>9, <1>10, <1>11, <1>12, <1>13,
     <1>14, <1>15, <1>16, <1>17 DEF Switch

LEMMA PatientNext ==
    ASSUME ~ EarlyCommands, DataInv, PatientInv, [Next]_vars
    PROVE  PatientInv'
<1>1. ASSUME NEW p \in Procs, Switch(p) PROVE PatientInv'
  BY <1>1, PatientSwitch
<1>a. Shape(pc["main"], held["main"], target["main"])
  BY DEF PatientInv, Procs
<1>2. CASE WifiInit \/ ReadMode
  <2>1. /\ pc["main"] \in {"init", "readMode"}
        /\ \/ pc["main"] = "init" /\ Goto("main", "readMode") /\ UNCHANGED target
           \/ pc["main"] = "readMode" /\ Goto("main", "load")
        /\ UNCHANGED <<running, netifVars, held>>
        /\ \A p \in Procs \ {"main"} : target'[p] = target[p]
    BY <1>2 DEF WifiInit, ReadMode, driverVars, taskVars, DataInv, TaskOK, Procs
  <2>2. Gone'
    BY <1>a, <2>1 DEF Shape, Gone, netifVars
  <2>3. /\ pc'["main"] \in {"readMode", "load"}
        /\ pc'["console"] = pc["console"] /\ pc["console"] = "idle"
    BY <2>1 DEF Goto, DataInv, TaskOK, PatientInv, Calm, Procs
  <2>4. \A p \in Procs : Shape(pc[p], held[p], target[p])'
    BY <2>2, <2>3 DEF Shape, Late, Procs
  <2> QED
    BY <2>1, <2>2, <2>3, <2>4 DEF PatientInv, Calm, AtRest
<1>3. CASE TypeCommand
  <2>1. /\ pc["console"] = "idle" /\ pc["main"] = "up"
        /\ Goto("console", "load") \/ Goto("console", "ipGet")
        /\ UNCHANGED <<running, netifVars, held>>
    BY <1>3 DEF TypeCommand, driverVars
  <2>2. Settled'
    BY <2>1 DEF PatientInv, AtRest, Settled, Present, netifVars
  <2>3. pc'["main"] = "up" /\ pc'["console"] \in {"load", "ipGet"}
    BY <2>1 DEF Goto, DataInv, TaskOK, Procs
  <2>4. \A p \in Procs : Shape(pc[p], held[p], target[p])'
    BY <2>2, <2>3 DEF Shape, Late, Procs, Settled
  <2> QED
    BY <2>1, <2>2, <2>3, <2>4 DEF PatientInv, Calm, AtRest
<1>4. CASE StationNews \/ HandleEvent \/ Display \/ UNCHANGED vars
  <2>1. UNCHANGED <<running, mode, netifVars, held, pc, target>>
    BY <1>4 DEF StationNews, HandleEvent, Display, Undefined, vars, driverVars, taskVars
  <2> QED
    BY <2>1, NothingNew
<1>5. CASE GetForDisplay
  <2>1. /\ held' = [held EXCEPT !["handler"] = netif]
        /\ UNCHANGED <<running, mode, netifVars, pc, target>>
    BY <1>5 DEF GetForDisplay, driverVars, taskVars
  <2>2. \A p \in Procs : held'[p] = held[p]
    BY <2>1 DEF DataInv, NetifOK, Procs
  <2> QED
    BY <2>1, <2>2, NothingNew
<1>6. CASE PowerLoss
  BY <1>6, PatientStart DEF PowerLoss
<1> QED
  BY <1>1, <1>2, <1>3, <1>4, <1>5, <1>6 DEF Next

(* When commands come after the boot and one after the other, the task at  *)
(* work finds the one interface that exists, or none, whatever events are  *)
(* under way (wifi_lib.c:69-78, 453-518).                                  *)
THEOREM Patience ==
    ASSUME ~ EarlyCommands
    PROVE  Spec => []PatientInv
<1>1. DataInv /\ PatientInv /\ [Next]_vars => PatientInv'
  BY PatientNext
<1> QED
  BY <1>1, PatientStart, PowerOnData, DataNext, PTL DEF Spec

(* OneNetif: when commands come after the boot there is one interface      *)
(* between them, the one _esp_netif names, of the kind that runs, wherever *)
(* the power was lost or a save failed before (wifi_lib.c:69-78, 470-475,  *)
(* 503-508).                                                               *)
THEOREM OneInterface ==
    ASSUME ~ EarlyCommands
    PROVE  Spec => []OneNetif
<1>1. PatientInv => OneNetif
  BY DEF PatientInv, OneNetif, Settled, Present
<1> QED
  BY <1>1, Patience, PTL

(* TasksUseLive: nor does a task use or destroy an interface that was      *)
(* destroyed, whatever events are under way (wifi_lib.c:69-78, 84-115,     *)
(* 410-421, 464-488, 498-514).                                             *)
THEOREM TasksKeepToLive ==
    ASSUME ~ EarlyCommands
    PROVE  Spec => []TasksUseLive
<1>1. PatientInv => TasksUseLive
  <2> SUFFICES ASSUME PatientInv, NEW p \in Procs
               PROVE  /\ pc[p] \in {"free", "connect", "dhcpStop", "ipSet", "dhcpStart"} =>
                             ~ UseDestroyed(held[p])
                      /\ pc[p] \in {"report", "bootReport"} => ~ UseDestroyed(netif)
    BY DEF TasksUseLive
  <2>1. Shape(pc[p], held[p], target[p])
    BY DEF PatientInv
  <2>2. Present => ~ UseDestroyed(netif)
    BY DEF Present, UseDestroyed
  <2> QED
    BY <2>1, <2>2 DEF Shape, Late, Settled
<1> QED
  BY <1>1, Patience, PTL

-----------------------------------------------------------------------------
(* The same user: what is in force is what is saved, or menuconfig's       *)
(* access point when the driver refused the one that was asked for.        *)

ApSaved ==
    ~ refused => /\ ap.ch = flash.ch
                 /\ SamePrefix(ap.ssid, flash.ssid)
                 /\ SamePrefix(ap.pw, flash.pw)

AddressSaved == addr.ip = flash.ip /\ addr.gw = flash.gw

InForce ==
    /\ mode = flashMode /\ running = flashMode
    /\ flashMode = "AP" => ApSaved /\ AddressSaved

(* How far the task at step l, which switches to mode m with settings a,   *)
(* has got with putting them into force and saving them.                   *)
Progress(l, m, a) ==
    /\ l \in {"ipGet", "dhcpStop", "ipSet", "dhcpStart", "saveIp", "saveGw", "gotIp"} => m # "STA"
    /\ l \in {"connect", "staMode"} => m = "STA"
    /\ l \in Late => mode = running /\ running = IF m = "IP" THEN "AP" ELSE m
    /\ /\ ~ refused /\ m = "AP"
       /\ l \in {"create", "set", "start", "saveMode", "saveCh", "saveSsid", "savePw"}
       => ap.ssid = a.ssid /\ ap.pw = a.pw /\ ap.ch = a.ch
    /\ m # "STA" /\ l \in Late \ {"saveMode"} => flashMode = "AP"
    /\ ~ refused /\ l \in {"saveSsid", "savePw"} => ap.ch = flash.ch
    /\ ~ refused /\ l = "savePw" => SamePrefix(ap.ssid, flash.ssid)
    /\ /\ m # "STA"
       /\ l \in {"wait", "ipGet", "dhcpStop", "ipSet", "dhcpStart", "saveIp", "saveGw", "gotIp"}
       => ApSaved
    /\ l \in {"dhcpStart", "saveIp", "saveGw", "gotIp"} => addr.ip = a.ip /\ addr.gw = a.gw
    /\ l = "saveGw" => flash.ip = a.ip
    /\ l = "gotIp" => AddressSaved
    /\ l \in {"report", "bootReport"} => InForce

RefusedDefault == refused => ap = [k \in ApKeys |-> Default[k]]

ForceInv ==
    /\ RefusedDefault
    /\ \A p \in Procs : Progress(pc[p], target[p], arg[p])
    /\ AtRest => InForce

(* A string is its own beginning. *)
LEMMA SamePrefixSelf == ASSUME NEW s \in Strings PROVE SamePrefix(s, s)
<1>1. s \in Seq(Nat) /\ Len(s) \in Nat
  BY WifiAssumption
<1>2. SubSeq(s, 1, Len(s)) = s
  BY <1>1, SubSeqFull
<1> QED
  BY <1>1, <1>2 DEF SamePrefix

LEMMA ForceStart ==
    /\ Init => ForceInv
    /\ ForceInv /\ Restart => ForceInv'
<1> USE DEF Progress, Late, AtRest, Procs, RefusedDefault
<1>1. Init => ForceInv
  BY DEF Init, ForceInv
<1>2. ForceInv /\ Restart => ForceInv'
  BY DEF Restart, ForceInv, flashVars
<1> QED
  BY <1>1, <1>2

(* The task at work goes on; the other has nothing at stake. *)
LEMMA ForceGoto ==
    ASSUME DataInv, PatientInv, ForceInv, NEW p \in Procs, pc[p] \notin {"up", "idle"},
           NEW l, Goto(p, l), UNCHANGED taskVars,
           RefusedDefault', Progress(l, target[p], arg[p])',
           l \in {"up", "idle"} => InForce'
    PROVE  ForceInv'
<1>1. /\ pc'[p] = l
      /\ \A q \in Procs \ {p} : pc'[q] = pc[q] /\ pc[q] \in {"up", "idle"}
  BY DEF Goto, DataInv, TaskOK, PatientInv, Calm, Procs
<1>2. ASSUME NEW q \in Procs, q # p PROVE Progress(pc[q], target[q], arg[q])'
  <2>1. pc'[q] \in {"up", "idle"}
    BY <1>1, <1>2
  <2> QED
    BY <2>1 DEF Progress, Late
<1>3. \A q \in Procs : Progress(pc[q], target[q], arg[q])'
  BY <1>1, <1>2 DEF taskVars
<1>4. AtRest' => l \in {"up", "idle"}
  BY <1>1 DEF AtRest, Procs
<1> QED
  BY <1>3, <1>4 DEF ForceInv

(* A step of the driver, of a loop or of nobody. *)
LEMMA ForceSame ==
    ASSUME ForceInv, UNCHANGED <<flashVars, driverVars, taskVars, pc>>
    PROVE  ForceInv'
<1>1. \A p \in Procs : Progress(pc[p], target[p], arg[p])'
  BY DEF ForceInv, Progress, InForce, ApSaved, AddressSaved, SamePrefix, RefusedDefault,
         flashVars, driverVars, taskVars
<1> QED
  BY <1>1 DEF ForceInv, InForce, ApSaved, AddressSaved, SamePrefix, RefusedDefault, AtRest,
              flashVars, driverVars, taskVars

LEMMA ForceSwitch ==
    ASSUME DataInv, PatientInv, ForceInv, NEW p \in Procs, Switch(p)
    PROVE  ForceInv'
<1>a. /\ Progress(pc[p], target[p], arg[p])
      /\ Shape(pc[p], held[p], target[p])
      /\ Allowed(pc[p], target[p], arg[p])
      /\ target[p] \in Modes \cup {"IP"}
      /\ RefusedDefault
      /\ arg[p] \in SettingsOr({NotGiven})
  BY DEF PatientInv, ForceInv, DataInv, TaskOK
<1>b. /\ target[p] = "IP" => Last(p) = "idle"
      /\ Last(p) \in {"report", "bootReport", "idle"}
      /\ AfterMode(p) \in {"bootReport", "idle"}
      /\ End(p) \in {"up", "idle"}
  BY AllowedOn
<1>c. UNCHANGED <<ap, refused>> => RefusedDefault'
  BY <1>a DEF RefusedDefault
<1>d. flash \in Full
  BY DEF DataInv, SavedOK
<1> USE DEF Progress, Late
<1>1. CASE Abort
  BY <1>1, ForceStart DEF Abort
<1>2. CASE Undefined
  BY <1>2, ForceSame DEF Undefined
<1>3. CASE LoadSetting(p)
  <2>1. PICK i \in Missing(p) :
          /\ pc[p] = "load" /\ target[p] = "AP"
          /\ arg' = [arg EXCEPT ![p][Order[i]] = flash[Order[i]]]
          /\ UNCHANGED <<flashVars, driverVars, target, pc>>
    BY <1>3 DEF LoadSetting
  <2>2. i \in 1 .. 5
    BY DEF Missing
  <2>3. arg'[p] = [arg[p] EXCEPT ![Order[i]] = flash[Order[i]]]
    BY <2>1 DEF DataInv, TaskOK
  <2>4. Progress(pc[p], target[p], arg[p])'
    BY <2>1
  <2>5. \A q \in Procs \ {p} : Progress(pc[q], target[q], arg[q])'
    <3> SUFFICES ASSUME NEW q \in Procs \ {p} PROVE Progress(pc[q], target[q], arg[q])'
      OBVIOUS
    <3>1. pc'[q] \in {"up", "idle"}
      BY <2>1 DEF PatientInv, Calm, Procs
    <3> QED
      BY <3>1
  <2>6. ~ AtRest'
    BY <2>1 DEF AtRest, Procs
  <2> QED
    BY <1>c, <2>1, <2>4, <2>5, <2>6 DEF ForceInv, driverVars
<1>4. CASE \/ StopWifi(p) /\ ~ Abort
           \/ GetOld(p)
           \/ FreeOld(p) /\ ~ Undefined
           \/ ClearPointer(p)
  <2>1. PICK l \in {"get", "conf", "free", "clear"} : Goto(p, l)
    BY <1>4 DEF StopWifi, GetOld, FreeOld, ClearPointer
  <2>2. /\ UNCHANGED taskVars /\ pc[p] \notin {"up", "idle"}
        /\ UNCHANGED <<ap, refused>>
    BY <1>4 DEF StopWifi, GetOld, FreeOld, ClearPointer, driverVars
  <2>3. Progress(l, target[p], arg[p])'
    OBVIOUS
  <2> QED
    BY <1>c, <2>1, <2>2, <2>3, ForceGoto
<1>5. CASE Configure(p)
  <2>1. /\ pc[p] = "conf" /\ Goto(p, "create") /\ UNCHANGED <<flashVars, taskVars>>
        /\ target[p] = "AP" =>
             /\ refused' = ~ Accepted(arg[p])
             /\ ap' = [k \in ApKeys |-> IF Accepted(arg[p]) THEN arg[p][k] ELSE Default[k]]
        /\ target[p] # "AP" => UNCHANGED <<ap, refused>>
    BY <1>5 DEF Configure
  <2>2. ASSUME target[p] = "AP", ~ refused'
        PROVE  ap'.ssid = arg[p].ssid /\ ap'.pw = arg[p].pw /\ ap'.ch = arg[p].ch
    BY <2>1, <2>2 DEF ApKeys
  <2>3. Progress("create", target[p], arg[p])'
    BY <2>1, <2>2 DEF taskVars
  <2>4. RefusedDefault'
    <3>1. CASE target[p] = "AP"
      BY <2>1, <3>1 DEF RefusedDefault
    <3>2. CASE target[p] # "AP"
      BY <1>c, <2>1, <3>2
    <3> QED
      BY <3>1, <3>2
  <2> QED
    BY <2>1, <2>3, <2>4, ForceGoto
<1>6. CASE (CreateNetif(p) /\ ~ Abort) \/ SetPointer(p)
  <2>1. PICK l \in {"set", "start"} : Goto(p, l)
    BY <1>6 DEF CreateNetif, SetPointer
  <2>2. /\ UNCHANGED flashVars /\ UNCHANGED taskVars /\ UNCHANGED <<ap, refused>>
        /\ pc[p] \in {"create", "set"}
    BY <1>6 DEF CreateNetif, SetPointer, driverVars
  <2>3. Progress(l, target[p], arg[p])'
    BY <1>a, <2>2 DEF taskVars
  <2> QED
    BY <1>c, <2>1, <2>2, <2>3, ForceGoto
<1>7. CASE StartWifi(p)
  <2>1. /\ pc[p] = "start" /\ running' = mode /\ UNCHANGED mode /\ UNCHANGED <<ap, refused>>
        /\ UNCHANGED flashVars /\ UNCHANGED taskVars
    BY <1>7 DEF StartWifi
  <2>2. Goto(p, IF target[p] = "AP" THEN "saveMode" ELSE "wait")
    BY <1>7 DEF StartWifi
  <2>3. mode = target[p] /\ target[p] # "IP"
    BY <1>a, <2>1 DEF Shape, Allowed
  <2>4. CASE target[p] = "AP"
    <3>1. Progress("saveMode", target[p], arg[p])'
      BY <1>a, <2>1, <2>3, <2>4 DEF taskVars
    <3> QED
      BY <1>c, <2>1, <2>2, <2>4, <3>1, ForceGoto
  <2>5. CASE target[p] # "AP"
    <3>1. target[p] = "STA"
      BY <1>a, <2>3, <2>5 DEF Modes
    <3>2. Progress("wait", target[p], arg[p])'
      BY <1>a, <2>1, <2>3, <3>1 DEF taskVars
    <3> QED
      BY <1>c, <2>1, <2>2, <2>5, <3>2, ForceGoto
  <2> QED
    BY <2>4, <2>5
<1>8. CASE SaveMode(p) /\ ~ Abort
  <2>1. /\ pc[p] \in {"saveMode", "staMode"} /\ flashMode' = target[p] /\ UNCHANGED flash
        /\ Goto(p, IF pc[p] = "saveMode" THEN "saveCh" ELSE Last(p))
        /\ UNCHANGED <<mode, running, ap, refused, addr>> /\ UNCHANGED taskVars
    BY <1>8 DEF SaveMode, driverVars
  <2>2. CASE pc[p] = "saveMode"
    <3>1. target[p] = "AP"
      BY <1>a, <2>2 DEF Allowed
    <3>2. Progress("saveCh", target[p], arg[p])'
      BY <1>a, <2>1, <2>2, <3>1 DEF taskVars
    <3> QED
      BY <1>c, <2>1, <2>2, <3>2, ForceGoto
  <2>3. CASE pc[p] = "staMode"
    <3>1. target[p] = "STA" /\ Goto(p, Last(p))
      BY <1>a, <2>1, <2>3
    <3>2. InForce'
      BY <1>a, <2>1, <2>3, <3>1 DEF InForce
    <3>3. Progress(Last(p), target[p], arg[p])'
      <4>1. PICK l \in {"report", "bootReport", "idle"} : l = Last(p)
        BY <1>b
      <4>2. Last(p)' = Last(p)
        BY <2>1 DEF Last, AfterMode, End, taskVars
      <4>3. Progress(l, target[p], arg[p])'
        BY <1>a, <2>1, <2>3, <3>1, <3>2 DEF taskVars
      <4> QED
        BY <4>1, <4>2, <4>3
    <3>4. PICK l : l = Last(p)
      OBVIOUS
    <3>5. Last(p)' = Last(p)
      BY <2>1 DEF Last, AfterMode, End, taskVars
    <3> QED
      BY <1>c, <2>1, <2>3, <3>1, <3>2, <3>3, <3>4, <3>5, ForceGoto
  <2> QED
    BY <2>1, <2>2, <2>3
<1>e. ASSUME pc[p] \in {"saveCh", "saveSsid", "savePw"}
      PROVE  target[p] = "AP" /\ arg[p] \in Full
  BY <1>a, <1>e DEF Allowed
<1>9. CASE SaveChannel(p) /\ ~ Abort
  <2>1. /\ pc[p] = "saveCh" /\ flash' = [flash EXCEPT !.ch = arg[p].ch] /\ Goto(p, "saveSsid")
        /\ UNCHANGED <<flashMode, mode, running, ap, refused, addr>> /\ UNCHANGED taskVars
    BY <1>9 DEF SaveChannel, driverVars
  <2>2. flash'.pw = flash.pw /\ flash'.ch = arg[p].ch
    BY <1>d, <2>1 DEF Full, SettingsOr
  <2>3. Progress("saveSsid", target[p], arg[p])'
    BY <1>a, <1>e, <2>1, <2>2 DEF taskVars
  <2> QED
    BY <1>c, <2>1, <2>2, <2>3, ForceGoto
<1>10. CASE SaveSsid(p) /\ ~ Abort
  <2>1. /\ pc[p] = "saveSsid" /\ Goto(p, "savePw")
        /\ flash' = IF SamePrefix(arg[p].ssid, flash.ssid) THEN flash
                    ELSE [flash EXCEPT !.ssid = arg[p].ssid]
        /\ UNCHANGED <<flashMode, mode, running, ap, refused, addr>> /\ UNCHANGED taskVars
    BY <1>10 DEF SaveSsid, driverVars
  <2>2. flash'.pw = flash.pw /\ flash'.ch = flash.ch
        /\ flash'.ssid = IF SamePrefix(arg[p].ssid, flash.ssid) THEN flash.ssid ELSE arg[p].ssid
    BY <1>d, <2>1 DEF Full, SettingsOr
  <2>3. SamePrefix(arg[p].ssid, flash'.ssid)
    BY <1>e, <2>1, <2>2, FullFields, SamePrefixSelf
  <2>4. Progress("savePw", target[p], arg[p])'
    BY <1>a, <1>e, <2>1, <2>2, <2>3 DEF taskVars, SamePrefix
  <2> QED
    BY <1>c, <2>1, <2>2, <2>4, ForceGoto
<1>11. CASE SavePassword(p) /\ ~ Abort /\ ~ Undefined
  <2>1. /\ pc[p] = "savePw" /\ Goto(p, "wait")
        /\ flash' = IF SamePrefix(arg[p].pw, flash.pw) THEN flash
                    ELSE [flash EXCEPT !.pw = arg[p].pw]
        /\ UNCHANGED <<flashMode, mode, running, ap, refused, addr>> /\ UNCHANGED taskVars
    BY <1>11 DEF SavePassword, driverVars
  <2>2. flash'.ssid = flash.ssid /\ flash'.ch = flash.ch
        /\ flash'.pw = IF SamePrefix(arg[p].pw, flash.pw) THEN flash.pw ELSE arg[p].pw
    BY <1>d, <2>1 DEF Full, SettingsOr
  <2>3. SamePrefix(arg[p].pw, flash'.pw)
    BY <1>e, <2>1, <2>2, FullFields, SamePrefixSelf
  <2>4. ApSaved'
    BY <1>a, <1>e, <2>1, <2>2, <2>3 DEF ApSaved, SamePrefix
  <2>5. Progress("wait", target[p], arg[p])'
    BY <1>a, <1>e, <2>1, <2>4 DEF taskVars
  <2> QED
    BY <1>c, <2>1, <2>5, ForceGoto
<1>12. CASE WaitStarted(p) \/ (Connect(p) /\ ~ Abort /\ ~ Undefined)
  <2>1. /\ UNCHANGED <<flash, flashMode, mode, running, ap, refused, addr>> /\ UNCHANGED taskVars
        /\ \/ pc[p] = "wait" /\ target[p] = "AP" /\ Goto(p, "ipGet")
           \/ pc[p] = "wait" /\ target[p] # "AP" /\ Goto(p, "connect")
           \/ pc[p] = "connect" /\ Goto(p, "staMode")
    BY <1>12 DEF WaitStarted, Connect, flashVars, driverVars
  <2>2. PICK l \in {"ipGet", "connect", "staMode"} :
          /\ Goto(p, l)
          /\ \/ pc[p] = "wait" /\ target[p] = "AP" /\ l = "ipGet"
             \/ pc[p] = "wait" /\ target[p] # "AP" /\ l = "connect"
             \/ pc[p] = "connect" /\ l = "staMode"
    BY <2>1
  <2>3. l # "ipGet" => target[p] = "STA"
    BY <1>a, <2>2 DEF Allowed, Modes
  <2>4. Progress(l, target[p], arg[p])'
    BY <1>a, <2>1, <2>2, <2>3 DEF taskVars, ApSaved, SamePrefix
  <2> QED
    BY <1>c, <2>1, <2>2, <2>4, ForceGoto
<1>13. CASE GetForIp(p)
  <2>1. /\ pc[p] = "ipGet"
        /\ Goto(p, IF netif = NoNetif \/ flashMode # "AP" THEN Last(p) ELSE "dhcpStop")
        /\ UNCHANGED <<flash, flashMode, mode, running, ap, refused, addr>> /\ UNCHANGED taskVars
    BY <1>13 DEF GetForIp, flashVars, driverVars
  <2>2. netif # NoNetif /\ flashMode = "AP"
    BY <1>a, <2>1 DEF Shape, Settled, Present
  <2>3. Progress("dhcpStop", target[p], arg[p])'
    BY <1>a, <2>1 DEF taskVars, ApSaved, SamePrefix
  <2> QED
    BY <1>c, <2>1, <2>2, <2>3, ForceGoto
<1>14. CASE SetIp(p) /\ ~ Abort /\ ~ Undefined
  <2>1. /\ pc[p] = "ipSet" /\ Goto(p, "dhcpStart")
        /\ addr'.ip = arg[p].ip /\ addr'.gw = arg[p].gw
        /\ UNCHANGED <<flash, flashMode, mode, running, ap, refused>> /\ UNCHANGED taskVars
    BY <1>14 DEF SetIp, flashVars
  <2>2. Progress("dhcpStart", target[p], arg[p])'
    BY <1>a, <2>1 DEF taskVars, ApSaved, SamePrefix
  <2> QED
    BY <1>c, <2>1, <2>2, ForceGoto
<1>18. CASE (StopDhcp(p) \/ StartDhcp(p)) /\ ~ Abort /\ ~ Undefined
  <2>1. /\ UNCHANGED <<flash, flashMode, mode, running, ap, refused, addr>> /\ UNCHANGED taskVars
        /\ \/ pc[p] = "dhcpStop" /\ Goto(p, "ipSet")
           \/ pc[p] = "dhcpStart" /\ Goto(p, "saveIp")
    BY <1>18 DEF StopDhcp, StartDhcp, flashVars, driverVars
  <2>2. PICK l \in {"ipSet", "saveIp"} :
          /\ Goto(p, l)
          /\ \/ pc[p] = "dhcpStop" /\ l = "ipSet"
             \/ pc[p] = "dhcpStart" /\ l = "saveIp"
    BY <2>1
  <2>3. Progress(l, target[p], arg[p])'
    BY <1>a, <2>1, <2>2 DEF taskVars, ApSaved, SamePrefix
  <2> QED
    BY <1>c, <2>1, <2>2, <2>3, ForceGoto
<1>15. CASE SaveIp(p) /\ ~ Abort
  <2>1. /\ pc[p] = "saveIp"
        /\ \/ Goto(p, "gotIp") /\ flash.ip = arg[p].ip /\ flash.gw = arg[p].gw /\ UNCHANGED flash
           \/ Goto(p, "saveGw") /\ flash' = [flash EXCEPT !.ip = arg[p].ip]
        /\ UNCHANGED <<flashMode, mode, running, ap, refused, addr>> /\ UNCHANGED taskVars
    BY <1>15 DEF SaveIp, flashVars, driverVars
  <2>2. CASE Goto(p, "gotIp") /\ flash.ip = arg[p].ip /\ flash.gw = arg[p].gw /\ UNCHANGED flash
    <3>1. Progress("gotIp", target[p], arg[p])'
      BY <1>a, <2>1, <2>2 DEF taskVars, ApSaved, SamePrefix, AddressSaved
    <3> QED
      BY <1>c, <2>1, <2>2, <3>1, ForceGoto
  <2>3. CASE Goto(p, "saveGw") /\ flash' = [flash EXCEPT !.ip = arg[p].ip]
    <3>1. /\ flash'.ssid = flash.ssid /\ flash'.pw = flash.pw /\ flash'.ch = flash.ch
          /\ flash'.ip = arg[p].ip
      BY <1>d, <2>3 DEF Full, SettingsOr
    <3>2. Progress("saveGw", target[p], arg[p])'
      BY <1>a, <2>1, <3>1 DEF taskVars, ApSaved, SamePrefix
    <3> QED
      BY <1>c, <2>1, <2>3, <3>1, <3>2, ForceGoto
  <2> QED
    BY <2>1, <2>2, <2>3
<1>16. CASE SaveGateway(p) /\ ~ Abort
  <2>1. /\ pc[p] = "saveGw" /\ Goto(p, "gotIp") /\ flash' = [flash EXCEPT !.gw = arg[p].gw]
        /\ UNCHANGED <<flashMode, mode, running, ap, refused, addr>> /\ UNCHANGED taskVars
    BY <1>16 DEF SaveGateway, driverVars
  <2>2. /\ flash'.ssid = flash.ssid /\ flash'.pw = flash.pw /\ flash'.ch = flash.ch
        /\ flash'.ip = flash.ip /\ flash'.gw = arg[p].gw
    BY <1>d, <2>1 DEF Full, SettingsOr
  <2>3. Progress("gotIp", target[p], arg[p])'
    BY <1>a, <2>1, <2>2 DEF taskVars, ApSaved, SamePrefix, AddressSaved
  <2> QED
    BY <1>c, <2>1, <2>2, <2>3, ForceGoto
<1>17. CASE PostGotIp(p) \/ (Report(p) /\ ~ Undefined)
  <2>1. /\ pc[p] \in {"gotIp", "report", "bootReport"}
        /\ Goto(p, Last(p)) \/ Goto(p, End(p)) \/ Goto(p, AfterMode(p))
        /\ UNCHANGED <<flash, flashMode, mode, running, ap, refused, addr>> /\ UNCHANGED taskVars
    BY <1>17 DEF PostGotIp, Report, flashVars, driverVars
  <2>2. PICK l \in {"report", "bootReport", "idle", "up"} : Goto(p, l)
    BY <1>b, <2>1
  <2>3. InForce
    <3>1. CASE pc[p] = "gotIp"
      <4>1. target[p] \in {"AP", "IP"}
        BY <1>a, <3>1 DEF Modes
      <4> QED
        BY <1>a, <3>1, <4>1 DEF InForce
    <3>2. CASE pc[p] \in {"report", "bootReport"}
      BY <1>a, <3>2
    <3> QED
      BY <2>1, <3>1, <3>2
  <2>4. InForce'
    BY <2>1, <2>3 DEF InForce, ApSaved, AddressSaved, SamePrefix
  <2>5. Progress(l, target[p], arg[p])'
    BY <1>a, <2>1, <2>2, <2>4 DEF taskVars
  <2> QED
    BY <1>c, <2>1, <2>2, <2>4, <2>5, ForceGoto
<1> QED
  BY <1>1, <1>2, <1>3, <1>4, <1>5, <1>6, <1>7, <1>8, <1>9, <1>10, <1>11, <1>12, <1>13,
     <1>14, <1>15, <1>16, <1>17, <1>18 DEF Switch

LEMMA ForceNext ==
    ASSUME ~ EarlyCommands, DataInv, PatientInv, ForceInv, [Next]_vars
    PROVE  ForceInv'
<1>1. ASSUME NEW p \in Procs, Switch(p) PROVE ForceInv'
  BY <1>1, ForceSwitch
<1>a. UNCHANGED driverVars => RefusedDefault'
  BY DEF ForceInv, RefusedDefault, driverVars
<1>2. CASE WifiInit \/ ReadMode
  <2>1. /\ pc["main"] \in {"init", "readMode"}
        /\ Goto("main", "readMode") \/ Goto("main", "load")
        /\ UNCHANGED <<ap, refused>>
    BY <1>2 DEF WifiInit, ReadMode, driverVars
  <2>2. pc'["main"] \in {"readMode", "load"} /\ pc'["console"] = "idle"
    BY <2>1 DEF Goto, DataInv, TaskOK, PatientInv, Calm, Procs
  <2>3. \A p \in Procs : Progress(pc[p], target[p], arg[p])'
    BY <2>2 DEF Progress, Late, Procs
  <2> QED
    BY <2>1, <2>2, <2>3 DEF ForceInv, RefusedDefault, AtRest
<1>3. CASE TypeCommand
  <2>1. /\ UNCHANGED <<flash, flashMode, mode, running, ap, refused, addr>>
        /\ pc["console"] = "idle" /\ pc["main"] = "up"
    BY <1>3 DEF TypeCommand, flashVars, driverVars
  <2>2. \/ Goto("console", "load")
        \/ /\ Goto("console", "ipGet") /\ flashMode = "AP"
           /\ target' = [target EXCEPT !["console"] = "IP"]
    BY <1>3 DEF TypeCommand
  <2>3. InForce
    BY <2>1 DEF ForceInv, AtRest
  <2>4. /\ pc'["main"] = "up"
        /\ \/ pc'["console"] = "load"
           \/ pc'["console"] = "ipGet" /\ target'["console"] = "IP" /\ flashMode = "AP"
    BY <2>1, <2>2 DEF Goto, DataInv, TaskOK, Procs
  <2>5. Progress(pc["main"], target["main"], arg["main"])'
    BY <2>4 DEF Progress, Late
  <2>6. Progress(pc["console"], target["console"], arg["console"])'
    <3>1. CASE pc'["console"] = "load"
      BY <3>1 DEF Progress, Late
    <3>2. CASE pc'["console"] = "ipGet" /\ target'["console"] = "IP" /\ flashMode = "AP"
      BY <2>1, <2>3, <3>2 DEF Progress, Late, InForce, ApSaved, SamePrefix
    <3> QED
      BY <2>4, <3>1, <3>2
  <2> QED
    BY <2>1, <2>4, <2>5, <2>6 DEF ForceInv, RefusedDefault, AtRest, Procs
<1>4. CASE StationNews \/ HandleEvent \/ GetForDisplay \/ Display \/ UNCHANGED vars
  <2>1. UNCHANGED <<flashVars, driverVars, taskVars, pc>>
    BY <1>4 DEF StationNews, HandleEvent, GetForDisplay, Display, Undefined, vars
  <2> QED
    BY <2>1, ForceSame
<1>5. CASE PowerLoss
  BY <1>5, ForceStart DEF PowerLoss
<1> QED
  BY <1>1, <1>2, <1>3, <1>4, <1>5 DEF Next

(* InForceIsSaved: when commands come after the boot and one after the     *)
(* other, mode and address in force between them are the saved ones, and   *)
(* so is the access point's configuration, but for one that the driver     *)
(* refused and for beginnings of what is saved; wherever the power was     *)
(* lost or a save failed before (wifi_lib.c:285-291, 328, 473-485,         *)
(* 514-545, wifi_lib_nvs.c:20-32, 55-86, 164-174).                         *)
THEOREM SavedIsInForce == ASSUME ~ EarlyCommands PROVE Spec => []InForceIsSaved
<1>1. DataInv /\ ForceInv => InForceIsSaved
  <2> SUFFICES ASSUME DataInv, ForceInv, AtRest
               PROVE  /\ mode = flashMode /\ running = flashMode
                      /\ flashMode = "AP" =>
                           /\ addr = [k \in {"ip", "gw"} |-> flash[k]]
                           /\ IF refused THEN ap = [k \in ApKeys |-> Default[k]]
                              ELSE /\ ap.ch = flash.ch
                                   /\ SamePrefix(ap.ssid, flash.ssid)
                                   /\ SamePrefix(ap.pw, flash.pw)
    BY DEF InForceIsSaved
  <2>1. InForce /\ RefusedDefault /\ addr \in [{"ip", "gw"} -> Addresses]
    BY DEF ForceInv, DataInv, DriverOK
  <2>2. AddressSaved => addr = [k \in {"ip", "gw"} |-> flash[k]]
    BY <2>1 DEF AddressSaved
  <2> QED
    BY <2>1, <2>2 DEF InForce, ApSaved, RefusedDefault
<1>2. DataInv /\ PatientInv /\ ForceInv /\ [Next]_vars => ForceInv'
  BY ForceNext
<1>3. Init => ForceInv
  BY ForceStart
<1>4. DataInv /\ PatientInv /\ [Next]_vars => PatientInv'
  BY PatientNext
<1> QED
  BY <1>1, <1>2, <1>3, <1>4, PatientStart, PowerOnData, DataNext, PTL DEF Spec

-----------------------------------------------------------------------------
(* A switch waits for the bit that the start of its mode sets, without a   *)
(* timeout.                                                                *)

(* The bit of mode m is set, or the event that will set it is under way.   *)
StartDue(m) == m \in bits \/ \E i \in 1 .. Len(events) : events[i] = m

Started == {"saveMode", "saveCh", "saveSsid", "savePw", "wait"}

StartInv ==
    \A p \in Procs :
        /\ pc[p] = "start" => running = "off"
        /\ pc[p] \in Started => StartDue(target[p])

(* An event is not lost: it waits until its bit is set, and bits stay set. *)
LEMMA StartStays ==
    ASSUME EventOK, NEW m \in Modes, StartDue(m),
           \/ bits' = bits /\ events' = events
           \/ bits' = bits /\ \E e \in Modes \cup {"STATION"} : events' = Append(events, e)
           \/ /\ events # <<>>
              /\ bits' = bits \cup StartBit(Head(events))
              /\ events' = Tail(events)
    PROVE  StartDue(m)'
<1>1. CASE m \in bits
  <2>1. m \in bits'
    BY <1>1
  <2> QED
    BY <2>1 DEF StartDue
<1>2. CASE \E i \in 1 .. Len(events) : events[i] = m
  <2>1. PICK i \in 1 .. Len(events) : events[i] = m
    BY <1>2
  <2>2. CASE bits' = bits /\ events' = events
    BY <2>2 DEF StartDue
  <2>3. ASSUME NEW e \in Modes \cup {"STATION"}, events' = Append(events, e)
        PROVE  StartDue(m)'
    <3>1. i \in 1 .. Len(events') /\ events'[i] = m
      BY <2>1, <2>3 DEF EventOK
    <3> QED
      BY <3>1 DEF StartDue
  <2>4. CASE /\ events # <<>>
             /\ bits' = bits \cup StartBit(Head(events))
             /\ events' = Tail(events)
    <3>1. CASE i = 1
      <4>1. Head(events) = m
        BY <2>1, <2>4, <3>1 DEF EventOK
      <4> QED
        BY <2>4, <4>1 DEF StartDue, StartBit
    <3>2. CASE i # 1
      <4>1. i - 1 \in 1 .. Len(events') /\ events'[i - 1] = m
        BY <2>1, <2>4, <3>2 DEF EventOK
      <4> QED
        BY <4>1 DEF StartDue
    <3> QED
      BY <3>1, <3>2
  <2> QED
    BY <2>2, <2>3, <2>4
<1> QED
  BY <1>1, <1>2 DEF StartDue

(* The driver is off when a task comes to its start, so the start posts    *)
(* the event of the task's mode.                                           *)
LEMMA StartPosts ==
    ASSUME DataInv, PatientInv, StartInv, NEW p \in Procs, StartWifi(p)
    PROVE  StartDue(target[p])'
<1>1. pc[p] = "start" /\ running = "off" /\ mode = target[p]
  BY DEF StartWifi, StartInv, PatientInv, Shape
<1>2. mode \in Modes /\ events \in Seq(Modes \cup {"STATION"})
  BY DEF DataInv, DriverOK, EventOK
<1>3. events' = Append(events, mode) /\ target' = target
  BY <1>1, <1>2 DEF StartWifi, Modes, taskVars
<1>4. Len(events') \in 1 .. Len(events') /\ events'[Len(events')] = mode
  BY <1>2, <1>3
<1> QED
  BY <1>1, <1>3, <1>4 DEF StartDue

LEMMA StartNext ==
    ASSUME ~ EarlyCommands, DataInv, PatientInv, StartInv, [Next]_vars
    PROVE  StartInv'
<1> USE DEF Started
<1>1. CASE Restart
  BY <1>1 DEF Restart, StartInv, Procs
<1>a. ASSUME NEW q \in Procs, pc[q] \in Started
      PROVE  target[q] \in Modes
  BY <1>a DEF DataInv, TaskOK, Allowed
<1>b. EventOK
  BY DEF DataInv
<1>2. ASSUME NEW p \in Procs, Switch(p), ~ Restart, ~ Undefined
      PROVE  StartInv'
  <2>1. pc[p] \notin {"up", "idle"} /\ UNCHANGED target
    BY <1>2 DEF Switch, LoadSetting, StopWifi, GetOld, FreeOld, ClearPointer, Configure,
           CreateNetif, SetPointer, StartWifi, SaveMode, SaveChannel, SaveSsid, SavePassword,
           WaitStarted, Connect, GetForIp, StopDhcp, SetIp, StartDhcp, SaveIp, SaveGateway,
           PostGotIp, Report, Abort, taskVars
  <2>2. \A q \in Procs \ {p} : pc'[q] = pc[q] /\ pc[q] \in {"up", "idle"}
    <3>1. \A q \in Procs \ {p} : pc[q] \in {"up", "idle"}
      BY <2>1 DEF PatientInv, Calm, Procs
    <3>2. (\E l : Goto(p, l)) \/ UNCHANGED pc
      BY <1>2 DEF Switch, LoadSetting, StopWifi, GetOld, FreeOld, ClearPointer, Configure,
           CreateNetif, SetPointer, StartWifi, SaveMode, SaveChannel, SaveSsid, SavePassword,
           WaitStarted, Connect, GetForIp, StopDhcp, SetIp, StartDhcp, SaveIp, SaveGateway,
           PostGotIp, Report, Abort
    <3> QED
      BY <3>1, <3>2 DEF Goto, DataInv, TaskOK
  <2>3. pc'[p] = "start" => running' = "off"
    BY <1>2 DEF Switch, LoadSetting, StopWifi, GetOld, FreeOld, ClearPointer, Configure,
           CreateNetif, SetPointer, StartWifi, SaveMode, SaveChannel, SaveSsid, SavePassword,
           WaitStarted, Connect, GetForIp, StopDhcp, SetIp, StartDhcp, SaveIp, SaveGateway,
           PostGotIp, Report, Abort, Goto, Last,
           AfterMode, End, DataInv, TaskOK, driverVars, PatientInv, Shape
  <2>4. ASSUME pc'[p] \in Started
        PROVE  StartDue(target[p])'
    <3>1. CASE StartWifi(p)
      BY <3>1, StartPosts
    <3>2. CASE ~ StartWifi(p)
      <4>1. pc[p] \in Started /\ UNCHANGED <<events, bits>>
        BY <1>2, <2>4, <3>2 DEF Switch, LoadSetting, StopWifi, GetOld, FreeOld, ClearPointer, Configure,
           CreateNetif, SetPointer, StartWifi, SaveMode, SaveChannel, SaveSsid, SavePassword,
           WaitStarted, Connect, GetForIp, StopDhcp, SetIp, StartDhcp, SaveIp, SaveGateway,
           PostGotIp, Report, Abort, Goto,
           Last, AfterMode, End, DataInv, TaskOK, eventVars
      <4>2. StartDue(target[p])
        BY <4>1 DEF StartInv
      <4> QED
        BY <2>1, <4>1, <4>2 DEF StartDue
    <3> QED
      BY <3>1, <3>2
  <2> QED
    BY <2>2, <2>3, <2>4 DEF StartInv
<1>c. ASSUME UNCHANGED running,
             \A q \in Procs : pc'[q] \in Started \cup {"start"} =>
               pc'[q] = pc[q] /\ target'[q] = target[q],
             \/ bits' = bits /\ events' = events
             \/ bits' = bits /\ \E e \in Modes \cup {"STATION"} : events' = Append(events, e)
             \/ /\ events # <<>>
                /\ bits' = bits \cup StartBit(Head(events))
                /\ events' = Tail(events)
      PROVE  StartInv'
  <2>1. ASSUME NEW q \in Procs, pc'[q] \in Started
        PROVE  StartDue(target[q])'
    <3>1. StartDue(target[q]) /\ target[q] \in Modes /\ target'[q] = target[q]
      BY <1>a, <1>c, <2>1 DEF StartInv
    <3>2. PICK m \in Modes : m = target[q]
      BY <3>1
    <3>3. StartDue(m)'
      BY <1>b, <1>c, <3>1, <3>2, StartStays
    <3> QED
      BY <3>1, <3>2, <3>3 DEF StartDue
  <2> QED
    BY <1>c, <2>1 DEF StartInv
<1>3. CASE WifiInit \/ ReadMode \/ TypeCommand
  <2>1. /\ UNCHANGED <<running, bits, events>>
        /\ \A q \in Procs : pc'[q] \in Started \cup {"start"} =>
               pc'[q] = pc[q] /\ target'[q] = target[q]
    BY <1>3 DEF WifiInit, ReadMode, TypeCommand, Goto, DataInv, TaskOK, driverVars,
           eventVars, taskVars, Procs
  <2> QED
    BY <1>c, <2>1
<1>4. CASE StationNews
  <2>1. UNCHANGED <<running, bits, pc, target>> /\ events' = Append(events, "STATION")
    BY <1>4 DEF StationNews, driverVars, taskVars
  <2> QED
    BY <1>c, <2>1
<1>5. CASE HandleEvent
  <2>1. UNCHANGED <<running, pc, target>>
    BY <1>5 DEF HandleEvent, driverVars, taskVars
  <2> QED
    BY <1>5, <1>c, <2>1 DEF HandleEvent
<1>6. CASE GetForDisplay \/ Display \/ Undefined \/ UNCHANGED vars
  <2>1. UNCHANGED <<running, bits, events, pc, target>>
    BY <1>6 DEF GetForDisplay, Display, Undefined, vars, driverVars, eventVars, taskVars
  <2> QED
    BY <1>c, <2>1
<1>7. CASE PowerLoss
  BY <1>1, <1>7 DEF PowerLoss
<1> QED
  BY <1>1, <1>2, <1>3, <1>4, <1>5, <1>6, <1>7 DEF Next

(* What SwitchReturns rests on: when commands come after the boot and one  *)
(* after the other, a switch never waits for a start that was not made.    *)
(* The bit that it waits for without a timeout is set, or the event that   *)
(* sets it is still in the loop (wifi_lib.c:190-206, 482, 511).            *)
THEOREM StartNeverLost ==
    ASSUME ~ EarlyCommands
    PROVE  Spec => [](\A p \in Procs : pc[p] = "wait" => StartDue(target[p]))
<1>1. Init => StartInv
  BY DEF Init, StartInv, Started, Procs
<1>2. StartInv => \A p \in Procs : pc[p] = "wait" => StartDue(target[p])
  BY DEF StartInv, Started
<1>3. DataInv /\ PatientInv /\ StartInv /\ [Next]_vars => StartInv'
  BY StartNext
<1>4. DataInv /\ PatientInv /\ [Next]_vars => PatientInv'
  BY PatientNext
<1> QED
  BY <1>1, <1>2, <1>3, <1>4, PatientStart, PowerOnData, DataNext, PTL DEF Spec
=============================================================================
