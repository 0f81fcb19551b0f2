------------------------------- MODULE WifiLib -------------------------------
(***************************************************************************)
(* wifi_lib of the ESP32 firmware: the switch between access point (AP)    *)
(* and station (STA), the network interface _esp_netif, the event group    *)
(* that a switch waits for, and the settings saved in flash.  The main     *)
(* task restores the saved mode while it boots, the console task runs      *)
(* set-ap, set-sta and set-ip, the default event loop handles the driver's *)
(* events, and wifi_lib's own loop the application's, whose handler reads  *)
(* the interface for the display.                                          *)
(*                                                                         *)
(* A string is a sequence of characters, no longer than the console's      *)
(* buffers hold with their terminator.  The network a station joins is     *)
(* left out: it is never saved and nothing here depends on it.  An address *)
(* stands for address and mask.                                            *)
(***************************************************************************)
EXTENDS Integers, Sequences

CONSTANTS Strings,       \* names and passwords
          Channels,      \* channels the driver accepts
          Addresses,     \* IP addresses, a gateway's too
          NewAddress,    \* the address of a new interface
          MinPassword,   \* shortest password the driver accepts, but for none
          MaxName,       \* longest name that leaves room for the MAC's bytes
          PrevSize,      \* SSID_SZ, the size of wifi_nvs_set_ssid_pw's prev
          Default,       \* the settings of menuconfig
          Commands,      \* what a user may type
          NotGiven,      \* an option that is not given
          EarlyCommands, \* the user may type during the boot
          MaxCommands,   \* bound on commands
          MaxNews,       \* bound on events of stations
          MaxRestarts,   \* bound on losses of power
          MaxPosted      \* WIFI_LIB_EVENT_QUEUE_SIZE

Modes  == {"AP", "STA"}
ApKeys == {"ssid", "pw", "ch"}

(* The settings, in the order they are read when they are not given. *)
Order == <<"ssid", "pw", "ch", "ip", "gw">>

SettingsOr(none) ==
    [ssid : Strings \cup none, pw : Strings \cup none, ch : 0 .. 255 \cup none,
     ip : Addresses \cup none, gw : Addresses \cup none]

(* The settings of a command, whose channel is an int. *)
CommandSettings ==
    [ssid : Strings \cup {NotGiven}, pw : Strings \cup {NotGiven}, ch : Int \cup {NotGiven},
     ip : Addresses \cup {NotGiven}, gw : Addresses \cup {NotGiven}]

(* esp_wifi_set_config refuses a name of more than 32 characters with the  *)
(* MAC's, a password of 1 to 7 characters, and a channel the country does  *)
(* not have.                                                               *)
Accepted(s) ==
    /\ Len(s.ssid) <= MaxName
    /\ Len(s.pw) = 0 \/ Len(s.pw) >= MinPassword
    /\ s.ch \in Channels

ASSUME WifiAssumption ==
    /\ {MinPassword, MaxName, PrevSize} \subseteq Nat
    /\ Channels \subseteq 0 .. 255
    /\ \A s \in Strings : s \in Seq(Nat)
    /\ Default \in SettingsOr({})
    /\ Default.gw = Default.ip
    /\ Accepted(Default)
    /\ NewAddress \in Addresses
    /\ \A c \in Commands : c.cmd \in {"ap", "sta", "ip"} /\ c.arg \in CommandSettings
    /\ NotGiven \notin Int
    /\ NotGiven \notin Strings
    /\ NotGiven \notin Addresses
    /\ EarlyCommands \in BOOLEAN
    /\ {MaxCommands, MaxNews, MaxRestarts, MaxPosted} \subseteq Nat

Procs   == {"main", "console"}
NoNetif == [id |-> 0, mode |-> "AP"]

VARIABLES
    \* flash
    flash,     \* the settings saved
    flashMode, \* the mode saved
    \* the driver
    inited,    \* esp_wifi_init has run
    mode,      \* the mode set
    running,   \* the mode it runs in, "off" when stopped
    ap,        \* the configuration of the access point
    refused,   \* it refused the last one it was asked for
    addr,      \* the address of the interface created last
    \* interfaces
    live,      \* those that exist
    created,   \* number of interfaces created since power-on
    netif,     \* _esp_netif
    \* events
    events,    \* of the driver, in the default loop
    bits,      \* s_wifi_event_group: the modes whose start bit is set
    posted,    \* number of events in wifi_lib's loop
    reading,   \* the handler of that loop is using an interface
    held,      \* the interface that each task and the handler holds
    \* tasks
    pc,        \* the next step of each
    target,    \* the mode it switches to, "IP" for set-ip
    arg,       \* the settings it uses
    \* bookkeeping
    ub,        \* the program's behaviour is no longer defined
    typed,     \* number of commands
    news,      \* number of events of stations
    restarts   \* number of losses of power

flashVars  == <<flash, flashMode>>
driverVars == <<inited, mode, running, ap, refused, addr>>
netifVars  == <<live, created, netif>>
eventVars  == <<events, bits, posted, reading>>
taskVars   == <<target, arg>>
boundVars  == <<typed, news, restarts>>
vars == <<flashVars, driverVars, netifVars, eventVars, taskVars, boundVars, held, pc, ub>>

Init ==
    /\ flash = Default
    /\ flashMode = "AP"
    /\ inited = FALSE
    /\ mode = "AP"
    /\ running = "off"
    /\ ap = [k \in ApKeys |-> Default[k]]
    /\ refused = FALSE
    /\ addr = [ip |-> NewAddress, gw |-> NewAddress]
    /\ live = {}
    /\ created = 0
    /\ netif = NoNetif
    /\ events = <<>>
    /\ bits = {}
    /\ posted = 0
    /\ reading = FALSE
    /\ held = [p \in Procs \cup {"handler"} |-> NoNetif]
    /\ pc = [p \in Procs |-> IF p = "main" THEN "init" ELSE "idle"]
    /\ target = [p \in Procs |-> "AP"]
    /\ arg = [p \in Procs |-> Default]
    /\ ub = FALSE
    /\ typed = 0
    /\ news = 0
    /\ restarts = 0

-----------------------------------------------------------------------------
(* Helpers *)

Goto(p, l) == pc' = [pc EXCEPT ![p] = l]

(* Everything but flash is as at power-on. *)
Restart ==
    /\ inited' = FALSE
    /\ mode' = "AP"
    /\ running' = "off"
    /\ ap' = [k \in ApKeys |-> Default[k]]
    /\ refused' = FALSE
    /\ addr' = [ip |-> NewAddress, gw |-> NewAddress]
    /\ live' = {}
    /\ created' = 0
    /\ netif' = NoNetif
    /\ events' = <<>>
    /\ bits' = {}
    /\ posted' = 0
    /\ reading' = FALSE
    /\ held' = [p \in Procs \cup {"handler"} |-> NoNetif]
    /\ pc' = [p \in Procs |-> IF p = "main" THEN "init" ELSE "idle"]
    /\ target' = [p \in Procs |-> "AP"]
    /\ arg' = [p \in Procs |-> Default]
    /\ UNCHANGED <<flashVars, ub, typed, news>>

Abort == Restart /\ UNCHANGED restarts

(* wifi_lib_post_event: with its queue full the event is lost after 10 ms. *)
Posted(n) == IF n < MaxPosted THEN n + 1 ELSE n

UseDestroyed(n) == n # NoNetif /\ n \notin live

(* An interface is used after it was destroyed, or memory is overwritten:  *)
(* anything may follow, and the model stops.                               *)
Undefined == ub' = TRUE /\ UNCHANGED <<flashVars, driverVars, netifVars, eventVars,
                                       taskVars, boundVars, held, pc>>

(* strncmp(v, prev, strlen(v)) finds no difference. *)
SamePrefix(v, prev) == Len(v) <= Len(prev) /\ SubSeq(prev, 1, Len(v)) = v

(* wifi_ap logs the address at its end, and so does wifi_set_mode, which   *)
(* only the boot calls.                                                    *)
End(p)       == IF p = "main" THEN "up" ELSE "idle"
AfterMode(p) == IF p = "main" THEN "bootReport" ELSE End(p)
Last(p)      == IF target[p] = "AP" THEN "report" ELSE AfterMode(p)

Missing(p) == {i \in 1 .. 5 : arg[p][Order[i]] = NotGiven}

-----------------------------------------------------------------------------
(* Faulty variants, which the properties have to notice. *)

(* Destroying the interface leaves the pointer as it is. *)
ClearForgotten(p) ==
    /\ pc[p] = "clear"
    /\ Goto(p, "conf")
    /\ UNCHANGED <<flashVars, driverVars, netifVars, eventVars, taskVars, boundVars, held, ub>>

(* The interface in use is not destroyed. *)
FreeForgotten(p) ==
    /\ pc[p] = "free"
    /\ Goto(p, "clear")
    /\ UNCHANGED <<flashVars, driverVars, netifVars, eventVars, taskVars, boundVars, held, ub>>

(* A switch to the same kind of interface destroys it and makes no other.  *)
KeepSameKind(p) ==
    /\ pc[p] = "free"
    /\ live' = live \ {held[p]}
    /\ Goto(p, IF held[p].mode = target[p] THEN "start" ELSE "clear")
    /\ UNCHANGED <<flashVars, driverVars, created, netif, eventVars, taskVars, boundVars,
                   held, ub>>

(* The channel is not saved. *)
ChannelForgotten(p) ==
    /\ pc[p] = "saveCh"
    /\ Goto(p, "saveSsid")
    /\ UNCHANGED <<flashVars, driverVars, netifVars, eventVars, taskVars, boundVars, held, ub>>

(* The event handler sets the other mode's bit. *)
OtherBit(e) == IF e = "AP" THEN {"STA"} ELSE IF e = "STA" THEN {"AP"} ELSE {}

-----------------------------------------------------------------------------
(* wifi_ap and wifi_sta, run by task p *)

(* wifi_nvs_get_*: what the command does not give comes from flash. *)
LoadSetting(p) ==
    /\ pc[p] = "load"
    /\ target[p] = "AP"
    /\ \E i \in Missing(p) :
         /\ \A j \in Missing(p) : i <= j
         /\ arg' = [arg EXCEPT ![p][Order[i]] = flash[Order[i]]]
    /\ UNCHANGED <<flashVars, driverVars, netifVars, eventVars, target, boundVars, held, pc, ub>>

(* esp_wifi_stop, which fails when esp_wifi_init has not run.  Stations    *)
(* that it disconnects are news.                                           *)
StopWifi(p) ==
    /\ pc[p] = "load"
    /\ target[p] = "AP" => Missing(p) = {}
    /\ \/ ~ inited /\ Abort
       \/ /\ inited
          /\ running' = "off"
          /\ Goto(p, "get")
          /\ \/ UNCHANGED <<events, news>>
             \/ /\ running # "off" /\ news < MaxNews
                /\ news' = news + 1
                /\ events' = Append(events, "STATION")
          /\ UNCHANGED <<flashVars, inited, mode, ap, refused, addr, netifVars, bits, posted,
                         reading, taskVars, held, ub, typed, restarts>>

(* destroy_net_if reads the pointer, destroys the interface, clears the    *)
(* pointer.                                                                *)
GetOld(p) ==
    /\ pc[p] = "get"
    /\ held' = [held EXCEPT ![p] = netif]
    /\ Goto(p, IF netif = NoNetif THEN "conf" ELSE "free")
    /\ UNCHANGED <<flashVars, driverVars, netifVars, eventVars, taskVars, boundVars, ub>>

FreeOld(p) ==
    /\ pc[p] = "free"
    /\ \/ UseDestroyed(held[p]) /\ Undefined
       \/ /\ ~ UseDestroyed(held[p])
          /\ live' = live \ {held[p]}
          /\ Goto(p, "clear")
          /\ UNCHANGED <<flashVars, driverVars, created, netif, eventVars, taskVars,
                         boundVars, held, ub>>

ClearPointer(p) ==
    /\ pc[p] = "clear"
    /\ netif' = NoNetif
    /\ Goto(p, "conf")
    /\ UNCHANGED <<flashVars, driverVars, live, created, eventVars, taskVars, boundVars, held, ub>>

(* wifi_set_conf.  A configuration that the driver refuses is replaced by  *)
(* the default one, and the callers drop the error that says so.  Setting  *)
(* the mode of a running driver switches it.                               *)
Configure(p) ==
    /\ pc[p] = "conf"
    /\ mode' = target[p]
    /\ IF target[p] = "AP"
       THEN /\ refused' = ~ Accepted(arg[p])
            /\ ap' = [k \in ApKeys |-> IF Accepted(arg[p]) THEN arg[p][k] ELSE Default[k]]
       ELSE UNCHANGED <<ap, refused>>
    /\ IF running \in {"off", target[p]}
       THEN UNCHANGED <<running, events>>
       ELSE running' = target[p] /\ events' = Append(events, target[p])
    /\ Goto(p, "create")
    /\ UNCHANGED <<flashVars, inited, addr, netifVars, bits, posted, reading, taskVars,
                   boundVars, held, ub>>

(* esp_netif_create_default_wifi_*, which fails an assertion when an       *)
(* interface of that kind exists.  The new one has an address of its own.  *)
CreateNetif(p) ==
    /\ pc[p] = "create"
    /\ LET new == [id |-> created + 1, mode |-> target[p]] IN
       \/ /\ \E n \in live : n.mode = target[p]
          /\ Abort
       \/ /\ \A n \in live : n.mode # target[p]
          /\ live' = live \cup {new}
          /\ created' = created + 1
          /\ held' = [held EXCEPT ![p] = new]
          /\ addr' = [ip |-> NewAddress, gw |-> NewAddress]
          /\ Goto(p, "set")
          /\ UNCHANGED <<flashVars, inited, mode, running, ap, refused, netif, eventVars,
                         taskVars, boundVars, ub>>

SetPointer(p) ==
    /\ pc[p] = "set"
    /\ netif' = held[p]
    /\ Goto(p, "start")
    /\ UNCHANGED <<flashVars, driverVars, live, created, eventVars, taskVars, boundVars, held, ub>>

StartWifi(p) ==
    /\ pc[p] = "start"
    /\ running' = mode
    /\ events' = IF running = mode THEN events ELSE Append(events, mode)
    /\ Goto(p, IF target[p] = "AP" THEN "saveMode" ELSE "wait")
    /\ UNCHANGED <<flashVars, inited, mode, ap, refused, addr, netifVars, bits, posted, reading,
                   taskVars, boundVars, held, ub>>

(* The saves of wifi_nvs_*: a value that differs is written, and a write   *)
(* that fails, to a full flash, aborts.                                    *)
SaveMode(p) ==
    /\ pc[p] \in {"saveMode", "staMode"}
    /\ \/ flashMode # target[p] /\ Abort
       \/ /\ flashMode' = target[p]
          /\ Goto(p, IF pc[p] = "saveMode" THEN "saveCh" ELSE Last(p))
          /\ UNCHANGED <<flash, driverVars, netifVars, eventVars, taskVars, boundVars, held, ub>>

SaveChannel(p) ==
    /\ pc[p] = "saveCh"
    /\ \/ flash.ch # arg[p].ch /\ Abort
       \/ /\ flash' = [flash EXCEPT !.ch = arg[p].ch]
          /\ Goto(p, "saveSsid")
          /\ UNCHANGED <<flashMode, driverVars, netifVars, eventVars, taskVars, boundVars,
                         held, ub>>

(* wifi_nvs_set_ssid and wifi_nvs_set_ssid_pw compare with the saved value *)
(* over the length of the new one.                                         *)
SaveSsid(p) ==
    /\ pc[p] = "saveSsid"
    /\ \/ ~ SamePrefix(arg[p].ssid, flash.ssid) /\ Abort
       \/ /\ flash' = IF SamePrefix(arg[p].ssid, flash.ssid) THEN flash
                      ELSE [flash EXCEPT !.ssid = arg[p].ssid]
          /\ Goto(p, "savePw")
          /\ UNCHANGED <<flashMode, driverVars, netifVars, eventVars, taskVars, boundVars,
                         held, ub>>

(* The saved password is copied to prev over the length of the new one,    *)
(* which may be longer than prev.                                          *)
SavePassword(p) ==
    /\ pc[p] = "savePw"
    /\ \/ Len(arg[p].pw) > PrevSize /\ Undefined
       \/ Len(arg[p].pw) <= PrevSize /\ ~ SamePrefix(arg[p].pw, flash.pw) /\ Abort
       \/ /\ Len(arg[p].pw) <= PrevSize
          /\ flash' = IF SamePrefix(arg[p].pw, flash.pw) THEN flash
                      ELSE [flash EXCEPT !.pw = arg[p].pw]
          /\ Goto(p, "wait")
          /\ UNCHANGED <<flashMode, driverVars, netifVars, eventVars, taskVars, boundVars,
                         held, ub>>

(* xEventGroupWaitBits leaves the bit set. *)
WaitStarted(p) ==
    /\ pc[p] = "wait"
    /\ target[p] \in bits
    /\ Goto(p, IF target[p] = "AP" THEN "ipGet" ELSE "connect")
    /\ UNCHANGED <<flashVars, driverVars, netifVars, eventVars, taskVars, boundVars, held, ub>>

(* esp_netif_dhcps_stop and esp_wifi_connect: either may fail, and the     *)
(* second does when the driver does not run as a station.                  *)
Connect(p) ==
    /\ pc[p] = "connect"
    /\ \/ UseDestroyed(held[p]) /\ Undefined
       \/ ~ UseDestroyed(held[p]) /\ Abort
       \/ /\ ~ UseDestroyed(held[p])
          /\ running = "STA"
          /\ Goto(p, "staMode")
          /\ UNCHANGED <<flashVars, driverVars, netifVars, eventVars, taskVars,
                         boundVars, held, ub>>

-----------------------------------------------------------------------------
(* wifi_conf_static_ip, for arg[p].ip and arg[p].gw *)

GetForIp(p) ==
    /\ pc[p] = "ipGet"
    /\ held' = [held EXCEPT ![p] = netif]
    /\ Goto(p, IF netif = NoNetif \/ flashMode # "AP" THEN Last(p) ELSE "dhcpStop")
    /\ UNCHANGED <<flashVars, driverVars, netifVars, eventVars, taskVars, boundVars, ub>>

(* The DHCP server is stopped, the address set, the server started again.  *)
(* Each call may fail, which aborts: the driver's own handler of the start *)
(* event or another task may start or stop the server in between.          *)
StopDhcp(p) ==
    /\ pc[p] = "dhcpStop"
    /\ \/ UseDestroyed(held[p]) /\ Undefined
       \/ ~ UseDestroyed(held[p]) /\ Abort
       \/ /\ ~ UseDestroyed(held[p])
          /\ Goto(p, "ipSet")
          /\ UNCHANGED <<flashVars, driverVars, netifVars, eventVars, taskVars,
                         boundVars, held, ub>>

SetIp(p) ==
    /\ pc[p] = "ipSet"
    /\ \/ UseDestroyed(held[p]) /\ Undefined
       \/ ~ UseDestroyed(held[p]) /\ Abort
       \/ /\ ~ UseDestroyed(held[p])
          /\ addr' = [ip |-> arg[p].ip, gw |-> arg[p].gw]
          /\ Goto(p, "dhcpStart")
          /\ UNCHANGED <<flashVars, inited, mode, running, ap, refused, netifVars, eventVars,
                         taskVars, boundVars, held, ub>>

StartDhcp(p) ==
    /\ pc[p] = "dhcpStart"
    /\ \/ UseDestroyed(held[p]) /\ Undefined
       \/ ~ UseDestroyed(held[p]) /\ Abort
       \/ /\ ~ UseDestroyed(held[p])
          /\ Goto(p, "saveIp")
          /\ UNCHANGED <<flashVars, driverVars, netifVars, eventVars, taskVars,
                         boundVars, held, ub>>

(* wifi_nvs_set_static_ip_info: one commit for the address, one for the    *)
(* mask, which never differs, and one for the gateway.                     *)
SaveIp(p) ==
    /\ pc[p] = "saveIp"
    /\ IF flash.ip = arg[p].ip /\ flash.gw = arg[p].gw
       THEN /\ Goto(p, "gotIp")
            /\ UNCHANGED <<flashVars, driverVars, netifVars, eventVars, taskVars, boundVars,
                           held, ub>>
       ELSE \/ Abort
            \/ /\ flash' = [flash EXCEPT !.ip = arg[p].ip]
               /\ Goto(p, "saveGw")
               /\ UNCHANGED <<flashMode, driverVars, netifVars, eventVars, taskVars,
                              boundVars, held, ub>>

SaveGateway(p) ==
    /\ pc[p] = "saveGw"
    /\ \/ Abort
       \/ /\ flash' = [flash EXCEPT !.gw = arg[p].gw]
          /\ Goto(p, "gotIp")
          /\ UNCHANGED <<flashMode, driverVars, netifVars, eventVars, taskVars, boundVars,
                         held, ub>>

PostGotIp(p) ==
    /\ pc[p] = "gotIp"
    /\ posted' = Posted(posted)
    /\ Goto(p, Last(p))
    /\ UNCHANGED <<flashVars, driverVars, netifVars, events, bits, reading, taskVars,
                   boundVars, held, ub>>

(* wifi_get_ip, at the end of wifi_ap and at the end of wifi_set_mode *)
Report(p) ==
    /\ pc[p] \in {"report", "bootReport"}
    /\ \/ UseDestroyed(netif) /\ Undefined
       \/ /\ ~ UseDestroyed(netif)
          /\ Goto(p, IF pc[p] = "report" THEN AfterMode(p) ELSE End(p))
          /\ UNCHANGED <<flashVars, driverVars, netifVars, eventVars, taskVars,
                         boundVars, held, ub>>

Switch(p) ==
    \/ LoadSetting(p)
    \/ StopWifi(p)
    \/ GetOld(p)
    \/ FreeOld(p)
    \/ ClearPointer(p)
    \/ Configure(p)
    \/ CreateNetif(p)
    \/ SetPointer(p)
    \/ StartWifi(p)
    \/ SaveMode(p)
    \/ SaveChannel(p)
    \/ SaveSsid(p)
    \/ SavePassword(p)
    \/ WaitStarted(p)
    \/ Connect(p)
    \/ GetForIp(p)
    \/ StopDhcp(p)
    \/ SetIp(p)
    \/ StartDhcp(p)
    \/ SaveIp(p)
    \/ SaveGateway(p)
    \/ PostGotIp(p)
    \/ Report(p)

-----------------------------------------------------------------------------
(* config_wifi_init, in the main task *)

WifiInit ==
    /\ pc["main"] = "init"
    /\ inited' = TRUE
    /\ Goto("main", "readMode")
    /\ UNCHANGED <<flashVars, mode, running, ap, refused, addr, netifVars, eventVars, taskVars,
                   boundVars, held, ub>>

ReadMode ==
    /\ pc["main"] = "readMode"
    /\ target' = [target EXCEPT !["main"] = flashMode]
    /\ arg' = [arg EXCEPT !["main"] = [k \in DOMAIN Default |-> NotGiven]]
    /\ Goto("main", "load")
    /\ UNCHANGED <<flashVars, driverVars, netifVars, eventVars, boundVars, held, ub>>

-----------------------------------------------------------------------------
(* The console task.  set-ip does nothing outside AP mode or without a     *)
(* valid address, and makes the address the gateway's too.  wifi_ap takes  *)
(* the channel, an int, as a uint8_t.                                      *)

ToByte(n) == IF n = NotGiven THEN n ELSE n % 256

TypeCommand ==
    /\ pc["console"] = "idle"
    /\ EarlyCommands \/ pc["main"] = "up"
    /\ typed < MaxCommands
    /\ typed' = typed + 1
    /\ \E c \in Commands :
         IF c.cmd = "ip"
         THEN /\ flashMode = "AP" /\ c.arg.ip # NotGiven
              /\ arg' = [arg EXCEPT !["console"] =
                                    [c.arg EXCEPT !.gw = c.arg.ip, !.ch = ToByte(@)]]
              /\ target' = [target EXCEPT !["console"] = "IP"]
              /\ Goto("console", "ipGet")
         ELSE /\ arg' = [arg EXCEPT !["console"] = [c.arg EXCEPT !.ch = ToByte(@)]]
              /\ target' = [target EXCEPT !["console"] = IF c.cmd = "ap" THEN "AP" ELSE "STA"]
              /\ Goto("console", "load")
    /\ UNCHANGED <<flashVars, driverVars, netifVars, eventVars, held, ub, news, restarts>>

-----------------------------------------------------------------------------
(* The event loops *)

(* A station leaves the access point, or the network is joined or lost:    *)
(* the events that the handler posts on.                                   *)
StationNews ==
    /\ running # "off"
    /\ news < MaxNews
    /\ news' = news + 1
    /\ events' = Append(events, "STATION")
    /\ UNCHANGED <<flashVars, driverVars, netifVars, bits, posted, reading, taskVars,
                   held, pc, ub, typed, restarts>>

StartBit(e) == IF e \in Modes THEN {e} ELSE {}

(* wifi_event_handler and ip_event_handler: the start of a mode sets its   *)
(* bit, and all but the start of the station are posted on.                *)
HandleEvent ==
    /\ events # <<>>
    /\ bits' = bits \cup StartBit(Head(events))
    /\ posted' = IF Head(events) = "STA" THEN posted ELSE Posted(posted)
    /\ events' = Tail(events)
    /\ UNCHANGED <<flashVars, driverVars, netifVars, reading, taskVars, boundVars, held, pc, ub>>

(* on_wifi_lib_event_handler reads the pointer, then uses the interface. *)
GetForDisplay ==
    /\ posted > 0
    /\ ~ reading
    /\ posted' = posted - 1
    /\ reading' = TRUE
    /\ held' = [held EXCEPT !["handler"] = netif]
    /\ UNCHANGED <<flashVars, driverVars, netifVars, events, bits, taskVars, boundVars, pc, ub>>

Display ==
    /\ reading
    /\ \/ UseDestroyed(held["handler"]) /\ Undefined
       \/ /\ ~ UseDestroyed(held["handler"])
          /\ reading' = FALSE
          /\ UNCHANGED <<flashVars, driverVars, netifVars, events, bits, posted, taskVars,
                         boundVars, held, pc, ub>>

PowerLoss ==
    /\ restarts < MaxRestarts
    /\ restarts' = restarts + 1
    /\ Restart

Next ==
    /\ ~ ub
    /\ \/ \E p \in Procs : Switch(p)
       \/ WifiInit
       \/ ReadMode
       \/ TypeCommand
       \/ StationNews
       \/ HandleEvent
       \/ GetForDisplay
       \/ Display
       \/ PowerLoss

Spec == Init /\ [][Next]_vars

(* Tasks and event loops are scheduled; users, stations and the power are  *)
(* free.                                                                   *)
Fairness ==
    /\ \A p \in Procs : WF_vars(~ ub /\ Switch(p))
    /\ WF_vars(~ ub /\ (WifiInit \/ ReadMode))
    /\ WF_vars(~ ub /\ HandleEvent)
    /\ WF_vars(~ ub /\ (GetForDisplay \/ Display))

FairSpec == Spec /\ Fairness

-----------------------------------------------------------------------------
(* Properties *)

Steps == {"init", "readMode", "up", "idle", "load", "get", "free", "clear", "conf", "create",
          "set", "start", "saveMode", "saveCh", "saveSsid", "savePw", "wait", "connect",
          "staMode", "ipGet", "dhcpStop", "ipSet", "dhcpStart", "saveIp", "saveGw", "gotIp",
          "report", "bootReport"}

Netifs == [id : 0 .. created, mode : Modes]

(* The type invariant. *)
TypeOK ==
    /\ flash \in SettingsOr({})
    /\ flashMode \in Modes
    /\ inited \in BOOLEAN
    /\ mode \in Modes
    /\ running \in Modes \cup {"off"}
    /\ ap \in [ssid : Strings, pw : Strings, ch : 0 .. 255]
    /\ refused \in BOOLEAN
    /\ addr \in [{"ip", "gw"} -> Addresses]
    /\ live \subseteq Netifs
    /\ netif \in Netifs
    /\ held \in [Procs \cup {"handler"} -> Netifs]
    /\ events \in Seq(Modes \cup {"STATION"})
    /\ bits \subseteq Modes
    /\ posted \in 0 .. MaxPosted
    /\ pc \in [Procs -> Steps]
    /\ target \in [Procs -> Modes \cup {"IP"}]
    /\ arg \in [Procs -> SettingsOr({NotGiven})]

AtRest == pc["main"] = "up" /\ pc["console"] = "idle"

(* Between commands there is one interface, the one _esp_netif names, of   *)
(* the kind the driver runs: no switch leaks one or leaves the pointer on  *)
(* an old one (wifi_lib.c:69-78, 470-475, 503-508).                        *)
OneNetif == AtRest => live = {netif} /\ netif.mode = running

(* Between commands after the boot the mode and the address in force are   *)
(* the saved ones, so a restart brings them back, whenever the power or a  *)
(* save failed before.  So is the access point's configuration, but for    *)
(* two cases: the driver refused the one it was asked for, and the         *)
(* defaults of menuconfig are in force although the other one is saved; or *)
(* a name or password is the beginning of the saved one, as the empty one  *)
(* is, passes for it, and is in force till the restart only                *)
(* (wifi_lib.c:285-291, 328, 473-485, 514-517, 525-545,                    *)
(* wifi_lib_nvs.c:20-32, 55-86, 164-174).                                  *)
InForceIsSaved ==
    AtRest =>
        /\ mode = flashMode /\ running = flashMode
        /\ flashMode = "AP" =>
             /\ addr = [k \in {"ip", "gw"} |-> flash[k]]
             /\ IF refused THEN ap = [k \in ApKeys |-> Default[k]]
                ELSE /\ ap.ch = flash.ch
                     /\ SamePrefix(ap.ssid, flash.ssid)
                     /\ SamePrefix(ap.pw, flash.pw)

(* With commands after the boot, and whatever events are under way, no     *)
(* task destroys, configures, joins with or reports an interface that was  *)
(* destroyed: a switch never leaves the next one, or itself, with the old  *)
(* one.  The display's handler is not a task: it may use an interface that *)
(* a switch destroys meanwhile (wifi_lib.c:69-78, 84-115, 410-421,         *)
(* 464-488, 498-514).                                                      *)
TasksUseLive ==
    \A p \in Procs :
        /\ pc[p] \in {"free", "connect", "dhcpStop", "ipSet", "dhcpStart"} =>
               ~ UseDestroyed(held[p])
        /\ pc[p] \in {"report", "bootReport"} => ~ UseDestroyed(netif)

(* Also when commands overlap with the boot and with events, _esp_netif    *)
(* names a destroyed interface only between esp_netif_destroy_default_wifi *)
(* and set_net_if(NULL) of the task that destroyed it (wifi_lib.c:75-76).  *)
DanglesBriefly ==
    UseDestroyed(netif) => \E p \in Procs : pc[p] = "clear" /\ held[p] = netif

(* With commands after the boot a switch does not wait for ever for the    *)
(* driver to start, but for a device whose behaviour is no longer defined  *)
(* (wifi_lib.c:482, 511).                                                  *)
SwitchReturns == \A p \in Procs : pc[p] = "wait" ~> (pc[p] # "wait" \/ ub)

(* Once wifi_ap has waited for AP mode, the access point has started       *)
(* (wifi_lib.c:481-485).                                                   *)
WaitsForStart ==
    \A p \in Procs : pc[p] = "ipGet" => \A i \in 1 .. Len(events) : events[i] # "AP"
=============================================================================
